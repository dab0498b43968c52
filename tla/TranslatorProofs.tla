--------------------------- MODULE TranslatorProofs ---------------------------
(***************************************************************************)
(* Proofs about Translator, for every set of inputs and every number of    *)
(* regions.  The invariant says where the process is on its way and ties   *)
(* each variable to the input it was made from; what the properties say    *)
(* about a translation or a snapshot then follows from the operators that  *)
(* make them.                                                              *)
(***************************************************************************)
EXTENDS Translator, SequenceFacts, FiniteSetTheorems

-----------------------------------------------------------------------------
(* The inductive invariant. *)

Stages == {"boot", "started", "new", "translated", "cached", "served"}

(* The settings are the defaults, or those of a valid ConfigMap. *)
SettingsInv ==
    \/ settings = DefaultConfig
    \/ /\ ConfigValid(input.env.configMap, input.env.collector)
       /\ settings = NewConfigFromMap(input.env.configMap, input.env.collector)

(* The translation is the one of the input. *)
TranslationInv ==
    /\ stage \in {"translated", "cached", "served"} /\ outcome = "ok" =>
          /\ TranslateOutcome(input.spec, input.env) = "ok"
          /\ translation = TranslationOf(input.spec, input.env)
    /\ stage = "translated" =>
          /\ outcome = TranslateOutcome(input.spec, input.env)
          /\ tracked = Tracks(input.spec, input.env)

(* No virtual host of an accepted ingress is nil. *)
AcceptedInv ==
    Accepted => \A r \in Region : \A n \in DOMAIN translation.internal[r] :
                    translation.internal[r][n] # Nil

(* The snapshot is the empty one, or the one of the translation. *)
ConfigInv ==
    /\ stage = "boot" => settings = DefaultConfig /\ config = Nil
    /\ stage # "boot" /\ outcome = "ok" => ExtAuthzInit(input.env.authz) # "panic"
    /\ Served => /\ config = Snapshot(translation, settings, input.env)
                 /\ GenerateOutcome(translation, settings, input.env) = "ok"
    /\ config # Nil =>
          /\ ExtAuthzInit(input.env.authz) # "panic"
          /\ ListenerOutcome(input.env.cluster) = "ok"
          /\ \/ config = Snapshot(Nothing, DefaultConfig, input.env)
             \/ Served /\ config = Snapshot(translation, settings, input.env)

TranslatorInv ==
    /\ input \in Inputs
    /\ stage \in Stages
    /\ SettingsInv
    /\ TranslationInv
    /\ AcceptedInv
    /\ ConfigInv

(* A snapshot is made only when the listeners can be. *)
LEMMA GenerateNeedsListeners ==
  ASSUME NEW t, NEW cfg, NEW env, GenerateOutcome(t, cfg, env) = "ok"
  PROVE  ListenerOutcome(env.cluster) = "ok"
  BY DEF GenerateOutcome

(* The invariant holds from the start of the process, whatever it reads.   *)
THEOREM TranslatorInvariant == Spec => []TranslatorInv
  <1>1. Init => TranslatorInv
    BY DEF Init, TranslatorInv, Stages, SettingsInv, TranslationInv, AcceptedInv, ConfigInv,
           Accepted, Served
  <1>2. TranslatorInv /\ [Next]_vars => TranslatorInv'
    <2> SUFFICES ASSUME TranslatorInv, [Next]_vars PROVE TranslatorInv'
      OBVIOUS
    <2> USE DEF TranslatorInv
    <2>1. CASE Boot
      <3>1. SettingsInv'
        BY <2>1 DEF Boot, SettingsInv
      <3>2. TranslationInv' /\ AcceptedInv'
        BY <2>1 DEF Boot, TranslationInv, AcceptedInv, Accepted
      <3>3. ConfigInv'
        BY <2>1, GenerateNeedsListeners DEF Boot, ConfigInv, Served
      <3> QED
        BY <2>1, <3>1, <3>2, <3>3 DEF Boot, Stages
    <2>2. CASE LoadConfig
      <3>1. SettingsInv'
        BY <2>2 DEF LoadConfig, SettingsInv
      <3>2. TranslationInv' /\ AcceptedInv'
        BY <2>2 DEF LoadConfig, TranslationInv, AcceptedInv, Accepted
      <3>3. ConfigInv'
        BY <2>2 DEF LoadConfig, ConfigInv, Served
      <3> QED
        BY <2>2, <3>1, <3>2, <3>3 DEF LoadConfig, Stages
    <2>3. CASE TranslateIngress
      <3>1. SettingsInv'
        BY <2>3 DEF TranslateIngress, SettingsInv
      <3>2. TranslationInv'
        BY <2>3 DEF TranslateIngress, TranslationInv
      <3>3. AcceptedInv' /\ ConfigInv'
        BY <2>3 DEF TranslateIngress, AcceptedInv, Accepted, ConfigInv, Served
      <3> QED
        BY <2>3, <3>1, <3>2, <3>3 DEF TranslateIngress, Stages
    <2>4. CASE ValidateIngress
      <3>1. SettingsInv'
        BY <2>4 DEF ValidateIngress, SettingsInv
      <3>2. TranslationInv'
        BY <2>4 DEF ValidateIngress, TranslationInv
      <3>3. AcceptedInv'
        BY <2>4 DEF ValidateIngress, AcceptedInv, Accepted
      <3>4. ConfigInv'
        BY <2>4 DEF ValidateIngress, ConfigInv, Served
      <3> QED
        BY <2>4, <3>1, <3>2, <3>3, <3>4 DEF ValidateIngress, Stages
    <2>5. CASE GenerateConfig
      <3>1. SettingsInv'
        BY <2>5 DEF GenerateConfig, SettingsInv
      <3>2. TranslationInv'
        BY <2>5 DEF GenerateConfig, TranslationInv
      <3>3. AcceptedInv'
        BY <2>5 DEF GenerateConfig, AcceptedInv, Accepted
      <3>4. ConfigInv'
        BY <2>5, GenerateNeedsListeners DEF GenerateConfig, ConfigInv, Served
      <3> QED
        BY <2>5, <3>1, <3>2, <3>3, <3>4 DEF GenerateConfig, Stages
    <2>6. CASE UNCHANGED vars
      BY <2>6 DEF vars, Stages, SettingsInv, TranslationInv, AcceptedInv, ConfigInv,
                  Accepted, Served
    <2> QED
      BY <2>1, <2>2, <2>3, <2>4, <2>5, <2>6 DEF Next
  <1> QED
    BY <1>1, <1>2, PTL DEF Spec

-----------------------------------------------------------------------------
(* The input. *)

(* What InputsAssumption says about one ingress. *)
LEMMA SpecTypes ==
  ASSUME NEW in \in Inputs
  PROVE  /\ in.spec.rules \in Seq(IngressRule)
         /\ in.spec.tls \in Seq(IngressTLS)
         /\ \A n \in DOMAIN in.spec.rules :
               /\ in.spec.rules[n] \in IngressRule
               /\ in.spec.rules[n].hosts \in Seq(STRING)
               /\ in.spec.rules[n].paths \in Seq(HTTPIngressPath)
               /\ \A m \in DOMAIN in.spec.rules[n].paths :
                     /\ in.spec.rules[n].paths[m] \in HTTPIngressPath
                     /\ in.spec.rules[n].paths[m].splits \in Seq(IngressBackendSplit)
  <1>1. in.spec \in IngressSpec
    BY InputsAssumption
  <1>2. in.spec.rules \in Seq(IngressRule) /\ in.spec.tls \in Seq(IngressTLS)
    BY <1>1 DEF IngressSpec
  <1>3. ASSUME NEW n \in DOMAIN in.spec.rules
        PROVE  /\ in.spec.rules[n] \in IngressRule
               /\ in.spec.rules[n].hosts \in Seq(STRING)
               /\ in.spec.rules[n].paths \in Seq(HTTPIngressPath)
               /\ \A m \in DOMAIN in.spec.rules[n].paths :
                     /\ in.spec.rules[n].paths[m] \in HTTPIngressPath
                     /\ in.spec.rules[n].paths[m].splits \in Seq(IngressBackendSplit)
    <2>1. in.spec.rules[n] \in IngressRule
      BY <1>2
    <2>2. in.spec.rules[n].hosts \in Seq(STRING) /\ in.spec.rules[n].paths \in Seq(HTTPIngressPath)
      BY <2>1 DEF IngressRule
    <2>3. ASSUME NEW m \in DOMAIN in.spec.rules[n].paths
          PROVE  /\ in.spec.rules[n].paths[m] \in HTTPIngressPath
                 /\ in.spec.rules[n].paths[m].splits \in Seq(IngressBackendSplit)
      <3>1. in.spec.rules[n].paths[m] \in HTTPIngressPath
        BY <2>2
      <3> QED
        BY <3>1 DEF HTTPIngressPath
    <2> QED
      BY <2>1, <2>2, <2>3
  <1> QED
    BY <1>2, <1>3

(* A function on the indices of a sequence is a sequence. *)
LEMMA Indexed ==
  ASSUME NEW S, NEW X, NEW s \in Seq(X), NEW f, f = [n \in DOMAIN s |-> f[n]],
         \A n \in DOMAIN s : f[n] \in S
  PROVE  f \in Seq(S) /\ Len(f) = Len(s) /\ DOMAIN f = DOMAIN s
  <1>1. DOMAIN s = 1 .. Len(s) /\ Len(s) \in Nat
    OBVIOUS
  <1>2. f \in [1 .. Len(s) -> S]
    BY <1>1
  <1> QED
    BY <1>1, <1>2

-----------------------------------------------------------------------------
(* The regions of a translation. *)

(* The virtual hosts of a region of an accepted ingress: one for each      *)
(* rule, none of them nil.                                                 *)
LEMMA InternalHosts ==
  ASSUME TranslatorInv, Accepted, NEW r \in Region
  PROVE  /\ DOMAIN translation.internal[r] = DOMAIN input.spec.rules
         /\ \A n \in DOMAIN input.spec.rules :
               /\ translation.internal[r][n] # Nil
               /\ ExtAuthzEnabled(input.env) => r = 1
               /\ translation.internal[r][n].domains = DomainsForRule(input.spec.rules[n])
               /\ translation.internal[r][n].routes
                     = Routes(input.spec, input.spec.rules[n], input.env, r)
  <1>1. translation.internal[r] =
          [n \in DOMAIN input.spec.rules |->
              VirtualHost(input.spec, input.spec.rules[n], input.env, r)]
    BY DEF TranslatorInv, TranslationInv, Accepted, TranslationOf
  <1>2. DOMAIN translation.internal[r] = DOMAIN input.spec.rules
    BY <1>1
  <1>3. ASSUME NEW n \in DOMAIN input.spec.rules
        PROVE  /\ translation.internal[r][n] # Nil
               /\ ExtAuthzEnabled(input.env) => r = 1
               /\ translation.internal[r][n].domains = DomainsForRule(input.spec.rules[n])
               /\ translation.internal[r][n].routes
                     = Routes(input.spec, input.spec.rules[n], input.env, r)
    <2>1. translation.internal[r][n]
            = VirtualHost(input.spec, input.spec.rules[n], input.env, r)
      BY <1>1
    <2>2. translation.internal[r][n] # Nil
      BY <1>2 DEF TranslatorInv, AcceptedInv
    <2> QED
      BY <2>1, <2>2 DEF VirtualHost, NewVirtualHost
  <1> QED
    BY <1>2, <1>3

(* There is a first region as soon as there is one. *)
LEMMA FirstRegion ==
  ASSUME NEW r \in Region
  PROVE  1 \in Region
  BY RegionsAssumption DEF Region

(* All regions claim the same hosts, so that those of the first free all   *)
(* of them (deleteTranslatedIngress).                                      *)
THEOREM RegionsClaimTheSame == Spec => []SameDomains
  <1>1. TranslatorInv => SameDomains
    <2> SUFFICES ASSUME TranslatorInv, Accepted, NEW r \in Region
                 PROVE  /\ DOMAIN translation.internal[r] = DOMAIN translation.internal[1]
                        /\ \A n \in DOMAIN translation.internal[r] :
                              /\ translation.internal[r][n] # Nil
                              /\ translation.internal[r][n].domains
                                    = translation.internal[1][n].domains
      BY DEF SameDomains
    <2>1. /\ DOMAIN translation.internal[r] = DOMAIN input.spec.rules
          /\ DOMAIN translation.internal[1] = DOMAIN input.spec.rules
      BY FirstRegion, InternalHosts
    <2>2. ASSUME NEW n \in DOMAIN input.spec.rules
          PROVE  /\ translation.internal[r][n] # Nil
                 /\ translation.internal[r][n].domains = translation.internal[1][n].domains
      <3>1. /\ translation.internal[r][n] # Nil
            /\ translation.internal[r][n].domains = DomainsForRule(input.spec.rules[n])
        BY InternalHosts
      <3>2. translation.internal[1][n].domains = DomainsForRule(input.spec.rules[n])
        BY FirstRegion, InternalHosts
      <3> QED
        BY <3>1, <3>2
    <2> QED
      BY <2>1, <2>2
  <1> QED
    BY <1>1, TranslatorInvariant, PTL

-----------------------------------------------------------------------------
(* Routes and the clusters they forward to. *)

(* The routes there can be for a rule in a region. *)
RuleRoutes(rule, r) ==
    {Route(kind, wrs) :
        kind \in {"unauthenticated", "redirect", "forward"},
        wrs \in {<<>>} \cup {RegionClusters(rule.paths[m], r) : m \in DOMAIN rule.paths}}

(* Every path adds routes to its own clusters, in the region's copy. *)
LEMMA PathRoutesType ==
  ASSUME NEW spec, NEW env, NEW r, NEW rule, rule \in IngressRule, NEW m \in DOMAIN rule.paths
  PROVE  PathRoutes(spec, rule, rule.paths[m], env, r) \in Seq(RuleRoutes(rule, r))
  <1>1. /\ Route("unauthenticated", RegionClusters(rule.paths[m], r)) \in RuleRoutes(rule, r)
        /\ Route("redirect", <<>>) \in RuleRoutes(rule, r)
        /\ Route("forward", RegionClusters(rule.paths[m], r)) \in RuleRoutes(rule, r)
    BY DEF RuleRoutes
  <1>2. \A x \in RuleRoutes(rule, r) : <<x>> \in Seq(RuleRoutes(rule, r))
    OBVIOUS
  <1>3. <<>> \in Seq(RuleRoutes(rule, r))
    OBVIOUS
  <1> QED
    BY <1>1, <1>2, <1>3 DEF PathRoutes

(* So that the routes of a rule are such routes. *)
LEMMA RoutesType ==
  ASSUME NEW spec, NEW env, NEW r, NEW rule, rule \in IngressRule
  PROVE  Routes(spec, rule, env, r) \in Seq(RuleRoutes(rule, r))
  <1> DEFINE ss == [m \in DOMAIN rule.paths |-> PathRoutes(spec, rule, rule.paths[m], env, r)]
  <1>1. rule.paths \in Seq(HTTPIngressPath)
    BY DEF IngressRule
  <1>2. \A m \in DOMAIN rule.paths : ss[m] \in Seq(RuleRoutes(rule, r))
    BY PathRoutesType
  <1>3. ss = [m \in DOMAIN rule.paths |-> ss[m]]
    OBVIOUS
  <1>4. ss \in Seq(Seq(RuleRoutes(rule, r)))
    <2> HIDE DEF ss
    <2> QED
      BY <1>1, <1>2, <1>3, Indexed
  <1>5. FlattenSeq(ss) \in Seq(RuleRoutes(rule, r))
    <2> HIDE DEF ss
    <2> QED
      BY <1>4, FlattenRange
  <1> QED
    BY <1>5 DEF Routes

(* A route of a rule forwards to the clusters of the splits of a path. *)
LEMMA RouteTargets ==
  ASSUME NEW r, NEW rule, NEW route \in RuleRoutes(rule, r), NEW target \in ToSet(route.clusters)
  PROVE  \E m \in DOMAIN rule.paths : \E k \in DOMAIN rule.paths[m].splits :
            target = [cluster |-> <<rule.paths[m].splits[k].service, r>>,
                      split   |-> rule.paths[m].splits[k]]
  <1>1. \/ route.clusters = <<>>
        \/ \E m \in DOMAIN rule.paths : route.clusters = RegionClusters(rule.paths[m], r)
    BY DEF RuleRoutes, Route
  <1>2. CASE route.clusters = <<>>
    BY <1>2 DEF ToSet
  <1>3. ASSUME NEW m \in DOMAIN rule.paths, route.clusters = RegionClusters(rule.paths[m], r)
        PROVE  \E k \in DOMAIN rule.paths[m].splits :
                  target = [cluster |-> <<rule.paths[m].splits[k].service, r>>,
                            split   |-> rule.paths[m].splits[k]]
    BY <1>3 DEF ToSet, RegionClusters
  <1> QED
    BY <1>1, <1>2, <1>3

(* The split k of path m of rule n is one of the splits. *)
IsSplit(spec, n, m, k) ==
    /\ n \in DOMAIN spec.rules
    /\ m \in DOMAIN spec.rules[n].paths
    /\ k \in DOMAIN spec.rules[n].paths[m].splits

(* The target of the split k of path m of rule n in region r. *)
TargetOf(spec, n, m, k, r) ==
    [cluster |-> <<spec.rules[n].paths[m].splits[k].service, r>>,
     split   |-> spec.rules[n].paths[m].splits[k]]

(* The clients of a region are forwarded to the clusters of that region,   *)
(* each for a split of the ingress.                                        *)
LEMMA InternalTargets ==
  ASSUME TranslatorInv, Accepted, NEW r \in Region, NEW target \in Targets(translation.internal[r])
  PROVE  \E n, m, k : IsSplit(input.spec, n, m, k) /\ target = TargetOf(input.spec, n, m, k, r)
  <1>1. PICK n \in DOMAIN input.spec.rules :
            target \in UNION {ToSet(route.clusters) :
                                route \in ToSet(translation.internal[r][n].routes)}
    BY InternalHosts DEF Targets
  <1>2. PICK route \in ToSet(translation.internal[r][n].routes) : target \in ToSet(route.clusters)
    BY <1>1
  <1>3. input.spec.rules[n] \in IngressRule
    BY SpecTypes DEF TranslatorInv
  <1>4. translation.internal[r][n].routes \in Seq(RuleRoutes(input.spec.rules[n], r))
    BY <1>3, InternalHosts, RoutesType
  <1>5. route \in RuleRoutes(input.spec.rules[n], r)
    BY <1>2, <1>4 DEF ToSet
  <1>6. PICK m \in DOMAIN input.spec.rules[n].paths :
          \E k \in DOMAIN input.spec.rules[n].paths[m].splits :
            target = [cluster |-> <<input.spec.rules[n].paths[m].splits[k].service, r>>,
                      split   |-> input.spec.rules[n].paths[m].splits[k]]
    BY <1>2, <1>5, RouteTargets
  <1> QED
    BY <1>6 DEF IsSplit, TargetOf

(* The rules numbered by a set, in their order. *)
Chosen(rules, C) ==
    FlattenSeq([n \in DOMAIN rules |-> IF n \in C THEN <<rules[n]>> ELSE <<>>])

(* They are rules. *)
LEMMA ChosenType ==
  ASSUME NEW in \in Inputs, NEW C
  PROVE  \A i \in DOMAIN Chosen(in.spec.rules, C) :
            \E n \in DOMAIN in.spec.rules : Chosen(in.spec.rules, C)[i] = in.spec.rules[n]
  <1> DEFINE S  == {in.spec.rules[n] : n \in DOMAIN in.spec.rules}
             ss == [n \in DOMAIN in.spec.rules |->
                      IF n \in C THEN <<in.spec.rules[n]>> ELSE <<>>]
  <1>1. in.spec.rules \in Seq(IngressRule)
    BY SpecTypes
  <1>2. ASSUME NEW n \in DOMAIN in.spec.rules PROVE ss[n] \in Seq(S)
    <2>1. in.spec.rules[n] \in S
      OBVIOUS
    <2> HIDE DEF S
    <2>2. <<in.spec.rules[n]>> \in Seq(S) /\ <<>> \in Seq(S)
      BY <2>1
    <2> QED
      BY <2>2
  <1>3. ss = [n \in DOMAIN in.spec.rules |-> ss[n]]
    OBVIOUS
  <1>4. FlattenSeq(ss) \in Seq(S)
    <2> HIDE DEF ss, S
    <2>1. ss \in Seq(Seq(S))
      <3>1. PICK rules \in Seq(IngressRule) : rules = in.spec.rules
        BY <1>1
      <3>2. ss = [n \in DOMAIN rules |-> ss[n]] /\ \A n \in DOMAIN rules : ss[n] \in Seq(S)
        BY <1>2, <1>3, <3>1
      <3> QED
        BY <3>2, Indexed
    <2> QED
      BY <2>1, FlattenRange
  <1>5. Chosen(in.spec.rules, C) \in Seq(S)
    BY <1>4 DEF Chosen
  <1>6. \A i \in DOMAIN Chosen(in.spec.rules, C) : Chosen(in.spec.rules, C)[i] \in S
    <2> HIDE DEF S
    <2> QED
      BY <1>5
  <1> QED
    BY <1>6

(* So are the external rules, and those with TLS routes. *)
LEMMA ExternalRulesType ==
  ASSUME NEW in \in Inputs
  PROVE  \A i \in DOMAIN ExternalRules(in.spec) :
            \E n \in DOMAIN in.spec.rules : ExternalRules(in.spec)[i] = in.spec.rules[n]
  <1> DEFINE C == {n \in DOMAIN in.spec.rules : in.spec.rules[n].external}
  <1>1. \A n \in DOMAIN in.spec.rules : n \in C <=> in.spec.rules[n].external
    OBVIOUS
  <1> HIDE DEF C
  <1>2. [n \in DOMAIN in.spec.rules |->
            IF in.spec.rules[n].external THEN <<in.spec.rules[n]>> ELSE <<>>]
          = [n \in DOMAIN in.spec.rules |-> IF n \in C THEN <<in.spec.rules[n]>> ELSE <<>>]
    BY <1>1
  <1>3. ExternalRules(in.spec) = Chosen(in.spec.rules, C)
    BY <1>2 DEF ExternalRules, Chosen
  <1> QED
    BY <1>3, ChosenType

LEMMA TLSRulesType ==
  ASSUME NEW in \in Inputs
  PROVE  \A i \in DOMAIN TLSRules(in.spec, in.env) :
            \E n \in DOMAIN in.spec.rules : TLSRules(in.spec, in.env)[i] = in.spec.rules[n]
  <1> DEFINE C == {n \in DOMAIN in.spec.rules :
                     /\ in.spec.rules[n].external /\ UsesTLS(in.spec, in.env)
                     /\ in.spec.rules[n].paths # <<>>}
  <1>1. \A n \in DOMAIN in.spec.rules :
          n \in C <=> /\ in.spec.rules[n].external /\ UsesTLS(in.spec, in.env)
                      /\ in.spec.rules[n].paths # <<>>
    OBVIOUS
  <1> HIDE DEF C
  <1>2. [n \in DOMAIN in.spec.rules |->
            IF /\ in.spec.rules[n].external /\ UsesTLS(in.spec, in.env)
               /\ in.spec.rules[n].paths # <<>>
            THEN <<in.spec.rules[n]>> ELSE <<>>]
          = [n \in DOMAIN in.spec.rules |-> IF n \in C THEN <<in.spec.rules[n]>> ELSE <<>>]
    BY <1>1
  <1>3. TLSRules(in.spec, in.env) = Chosen(in.spec.rules, C)
    BY <1>2 DEF TLSRules, Chosen
  <1> QED
    BY <1>3, ChosenType

(* The external virtual hosts forward to the clusters of their region too. *)
LEMMA ExternalTargets ==
  ASSUME TranslatorInv, Accepted, NEW r \in Region, NEW target \in Targets(translation.external[r])
  PROVE  \E n, m, k : IsSplit(input.spec, n, m, k) /\ target = TargetOf(input.spec, n, m, k, r)
  <1> DEFINE external == ExternalRules(input.spec)
  <1>1. translation.external[r] =
          [i \in DOMAIN external |-> VirtualHost(input.spec, external[i], input.env, r)]
    BY DEF TranslatorInv, TranslationInv, Accepted, TranslationOf
  <1>2. PICK i \in DOMAIN external :
            target \in UNION {ToSet(route.clusters) :
                                route \in ToSet(translation.external[r][i].routes)}
    BY <1>1 DEF Targets
  <1>3. PICK n \in DOMAIN input.spec.rules : external[i] = input.spec.rules[n]
    BY ExternalRulesType DEF TranslatorInv
  <1>4. ExtAuthzEnabled(input.env) => r = 1
    BY <1>3, InternalHosts
  <1>5. translation.external[r][i].routes = Routes(input.spec, input.spec.rules[n], input.env, r)
    <2> HIDE DEF external
    <2> QED
      BY <1>1, <1>2, <1>3, <1>4 DEF VirtualHost, NewVirtualHost
  <1>6. input.spec.rules[n] \in IngressRule
    BY SpecTypes DEF TranslatorInv
  <1>7. translation.external[r][i].routes \in Seq(RuleRoutes(input.spec.rules[n], r))
    BY <1>5, <1>6, RoutesType
  <1>8. PICK route \in ToSet(translation.external[r][i].routes) : target \in ToSet(route.clusters)
    BY <1>2
  <1>9. route \in RuleRoutes(input.spec.rules[n], r)
    BY <1>7, <1>8 DEF ToSet
  <1>10. PICK m \in DOMAIN input.spec.rules[n].paths :
          \E k \in DOMAIN input.spec.rules[n].paths[m].splits :
            target = [cluster |-> <<input.spec.rules[n].paths[m].splits[k].service, r>>,
                      split   |-> input.spec.rules[n].paths[m].splits[k]]
    BY <1>8, <1>9, RouteTargets
  <1> QED
    BY <1>10 DEF IsSplit, TargetOf

(* Those for TLS, in every region, to the clusters of the first one. *)
LEMMA ExternalTLSTargets ==
  ASSUME TranslatorInv, Accepted, NEW r \in Region,
         NEW target \in Targets(translation.externalTLS[r])
  PROVE  \E n, m, k : IsSplit(input.spec, n, m, k) /\ target = TargetOf(input.spec, n, m, k, 1)
  <1> DEFINE secured == TLSRules(input.spec, input.env)
  <1>2. translation.externalTLS[r] = [i \in DOMAIN secured |-> VirtualTLSHost(secured[i])]
    BY DEF TranslatorInv, TranslationInv, Accepted, TranslationOf
  <1>3. PICK i \in DOMAIN secured :
            target \in UNION {ToSet(route.clusters) :
                                route \in ToSet(translation.externalTLS[r][i].routes)}
    <2> HIDE DEF secured
    <2> QED
      BY <1>2 DEF Targets
  <1>4. PICK n \in DOMAIN input.spec.rules : secured[i] = input.spec.rules[n]
    BY TLSRulesType DEF TranslatorInv
  <1>5. translation.externalTLS[r][i].routes =
          [m \in DOMAIN input.spec.rules[n].paths |->
              Route("forward", RegionClusters(input.spec.rules[n].paths[m], 1))]
    <2> HIDE DEF secured
    <2> QED
      BY <1>2, <1>3, <1>4 DEF VirtualTLSHost, NewVirtualHost
  <1>6. PICK m \in DOMAIN input.spec.rules[n].paths :
          target \in ToSet(Route("forward",
                                 RegionClusters(input.spec.rules[n].paths[m], 1)).clusters)
    BY <1>3, <1>5 DEF ToSet
  <1>7. PICK k \in DOMAIN input.spec.rules[n].paths[m].splits :
          target = [cluster |-> <<input.spec.rules[n].paths[m].splits[k].service, 1>>,
                    split   |-> input.spec.rules[n].paths[m].splits[k]]
    BY <1>6 DEF ToSet, RegionClusters, Route
  <1> QED
    BY <1>7 DEF IsSplit, TargetOf

-----------------------------------------------------------------------------
(* The splits. *)

(* An element of Splits: a split of a path, with the path. *)
SplitOnPath == [split : IngressBackendSplit, path : HTTPIngressPath]

(* The splits of a path, each with the path. *)
LEMMA SplitsOfPathType ==
  ASSUME NEW path \in HTTPIngressPath
  PROVE  /\ SplitsOfPath(path) \in Seq(SplitOnPath)
         /\ DOMAIN SplitsOfPath(path) = DOMAIN path.splits
  <1>1. path.splits \in Seq(IngressBackendSplit)
    BY DEF HTTPIngressPath
  <1> DEFINE f == SplitsOfPath(path)
  <1>2. f = [k \in DOMAIN path.splits |-> f[k]]
    BY DEF SplitsOfPath
  <1>3. \A k \in DOMAIN path.splits : f[k] \in SplitOnPath
    BY <1>1 DEF SplitsOfPath, SplitOnPath
  <1> HIDE DEF f
  <1>4. f \in Seq(SplitOnPath) /\ DOMAIN f = DOMAIN path.splits
    BY <1>1, <1>2, <1>3, Indexed
  <1> QED
    BY <1>4 DEF f

(* The splits of a rule are those of its paths. *)
LEMMA SplitsOfRuleRange ==
  ASSUME NEW rule \in IngressRule
  PROVE  /\ SplitsOfRule(rule) \in Seq(SplitOnPath)
         /\ ToSet(SplitsOfRule(rule)) =
              UNION {ToSet(SplitsOfPath(rule.paths[m])) : m \in DOMAIN rule.paths}
  <1> DEFINE ss == [m \in DOMAIN rule.paths |-> SplitsOfPath(rule.paths[m])]
  <1>1. rule.paths \in Seq(HTTPIngressPath)
    BY DEF IngressRule
  <1>2. PICK paths \in Seq(HTTPIngressPath) : paths = rule.paths
    BY <1>1
  <1>3. ASSUME NEW m \in DOMAIN paths PROVE ss[m] \in Seq(SplitOnPath)
    <2>1. rule.paths[m] \in HTTPIngressPath
      BY <1>2
    <2> QED
      BY <1>2, <2>1, SplitsOfPathType
  <1>4. ss = [m \in DOMAIN paths |-> ss[m]] /\ DOMAIN ss = DOMAIN rule.paths
    BY <1>2
  <1>5. \A m \in DOMAIN rule.paths : ss[m] = SplitsOfPath(rule.paths[m])
    OBVIOUS
  <1>6. SplitsOfRule(rule) = FlattenSeq(ss)
    BY DEF SplitsOfRule
  <1> HIDE DEF ss
  <1>7. ss \in Seq(Seq(SplitOnPath))
    BY <1>3, <1>4, Indexed
  <1>8. /\ FlattenSeq(ss) \in Seq(SplitOnPath)
        /\ ToSet(FlattenSeq(ss)) = UNION {ToSet(ss[m]) : m \in DOMAIN ss}
    BY <1>7, FlattenRange
  <1>9. UNION {ToSet(ss[m]) : m \in DOMAIN ss}
          = UNION {ToSet(SplitsOfPath(rule.paths[m])) : m \in DOMAIN rule.paths}
    BY <1>4, <1>5
  <1> QED
    BY <1>6, <1>8, <1>9

(* The splits of an ingress are those of its rules. *)
LEMMA SplitsRange ==
  ASSUME NEW in \in Inputs
  PROVE  /\ Splits(in.spec) \in Seq(SplitOnPath)
         /\ ToSet(Splits(in.spec)) =
              UNION {ToSet(SplitsOfRule(in.spec.rules[n])) : n \in DOMAIN in.spec.rules}
  <1> DEFINE ss == [n \in DOMAIN in.spec.rules |-> SplitsOfRule(in.spec.rules[n])]
  <1>1. PICK rules \in Seq(IngressRule) : rules = in.spec.rules
    BY SpecTypes
  <1>2. ASSUME NEW n \in DOMAIN rules PROVE ss[n] \in Seq(SplitOnPath)
    <2>1. in.spec.rules[n] \in IngressRule
      BY <1>1
    <2> QED
      BY <1>1, <2>1, SplitsOfRuleRange
  <1>3. ss = [n \in DOMAIN rules |-> ss[n]] /\ DOMAIN ss = DOMAIN in.spec.rules
    BY <1>1
  <1>4. \A n \in DOMAIN in.spec.rules : ss[n] = SplitsOfRule(in.spec.rules[n])
    OBVIOUS
  <1>5. Splits(in.spec) = FlattenSeq(ss)
    BY DEF Splits
  <1> HIDE DEF ss
  <1>6. ss \in Seq(Seq(SplitOnPath))
    BY <1>2, <1>3, Indexed
  <1>7. /\ FlattenSeq(ss) \in Seq(SplitOnPath)
        /\ ToSet(FlattenSeq(ss)) = UNION {ToSet(ss[n]) : n \in DOMAIN ss}
    BY <1>6, FlattenRange
  <1>8. UNION {ToSet(ss[n]) : n \in DOMAIN ss}
          = UNION {ToSet(SplitsOfRule(in.spec.rules[n])) : n \in DOMAIN in.spec.rules}
    BY <1>3, <1>4
  <1> QED
    BY <1>5, <1>7, <1>8

(* The loops visit the split k of path m of rule n. *)
Visited(spec, n, m, k) ==
    \E i \in DOMAIN Splits(spec) :
        Splits(spec)[i] = [split |-> spec.rules[n].paths[m].splits[k],
                           path  |-> spec.rules[n].paths[m]]

(* The loops visit every split. *)
LEMMA SplitVisited ==
  ASSUME NEW in \in Inputs, NEW n, NEW m, NEW k, IsSplit(in.spec, n, m, k)
  PROVE  Visited(in.spec, n, m, k)
  <1>1. /\ n \in DOMAIN in.spec.rules
        /\ m \in DOMAIN in.spec.rules[n].paths
        /\ k \in DOMAIN in.spec.rules[n].paths[m].splits
    BY DEF IsSplit
  <1>2. in.spec.rules[n] \in IngressRule /\ in.spec.rules[n].paths[m] \in HTTPIngressPath
    BY <1>1, SpecTypes
  <1> DEFINE x == [split |-> in.spec.rules[n].paths[m].splits[k],
                   path  |-> in.spec.rules[n].paths[m]]
  <1>3. x \in ToSet(SplitsOfPath(in.spec.rules[n].paths[m]))
    BY <1>1, <1>2, SplitsOfPathType DEF SplitsOfPath, ToSet
  <1> HIDE DEF x
  <1>4. x \in ToSet(SplitsOfRule(in.spec.rules[n]))
    BY <1>1, <1>2, <1>3, SplitsOfRuleRange
  <1>5. x \in ToSet(Splits(in.spec))
    BY <1>1, <1>4, SplitsRange
  <1>6. \E i \in DOMAIN Splits(in.spec) : Splits(in.spec)[i] = x
    BY <1>5 DEF ToSet
  <1> QED
    BY <1>6 DEF Visited, x

(* And nothing else. *)
LEMMA VisitedIsSplit ==
  ASSUME NEW in \in Inputs, NEW i \in DOMAIN Splits(in.spec)
  PROVE  \E n, m, k : /\ IsSplit(in.spec, n, m, k)
                      /\ Splits(in.spec)[i].split = in.spec.rules[n].paths[m].splits[k]
                      /\ Splits(in.spec)[i].path = in.spec.rules[n].paths[m]
  <1>1. Splits(in.spec)[i] \in ToSet(Splits(in.spec))
    BY DEF ToSet
  <1>2. PICK n \in DOMAIN in.spec.rules :
            Splits(in.spec)[i] \in ToSet(SplitsOfRule(in.spec.rules[n]))
    <2>1. Splits(in.spec)[i] \in
            UNION {ToSet(SplitsOfRule(in.spec.rules[n])) : n \in DOMAIN in.spec.rules}
      BY <1>1, SplitsRange
    <2> QED
      BY <2>1
  <1>3. in.spec.rules[n] \in IngressRule
    BY SpecTypes
  <1>4. PICK m \in DOMAIN in.spec.rules[n].paths :
            Splits(in.spec)[i] \in ToSet(SplitsOfPath(in.spec.rules[n].paths[m]))
    BY <1>2, <1>3, SplitsOfRuleRange
  <1>5. PICK k \in DOMAIN in.spec.rules[n].paths[m].splits :
            Splits(in.spec)[i] = [split |-> in.spec.rules[n].paths[m].splits[k],
                                  path  |-> in.spec.rules[n].paths[m]]
    BY <1>4 DEF ToSet, SplitsOfPath
  <1> QED
    BY <1>5 DEF IsSplit

(* There is a cluster for every split in every region, with the endpoints  *)
(* of that region.                                                         *)
LEMMA ClusterOfSplit ==
  ASSUME TranslatorInv, Accepted, NEW r \in Region,
         NEW n, NEW m, NEW k, IsSplit(input.spec, n, m, k),
         NEW target, target = TargetOf(input.spec, n, m, k, r)
  PROVE  /\ target.cluster \in DOMAIN translation.clusters
         /\ translation.clusters[target.cluster].endpoints
               = LbEndpoints(input.env.backends[target.split.service].endpoints, r)
  <1> DEFINE s == input.spec.rules[n].paths[m].splits[k].service
  <1> DEFINE services == {Splits(input.spec)[i].split.service : i \in DOMAIN Splits(input.spec)}
  <1>1. translation.clusters = ClustersOf(input.spec, input.env)
    BY DEF TranslatorInv, TranslationInv, Accepted, TranslationOf
  <1>2. s \in services
    <2>1. PICK i \in DOMAIN Splits(input.spec) :
            Splits(input.spec)[i] = [split |-> input.spec.rules[n].paths[m].splits[k],
                                     path  |-> input.spec.rules[n].paths[m]]
      <3>1. Visited(input.spec, n, m, k)
        BY SplitVisited DEF TranslatorInv
      <3> QED
        BY <3>1 DEF Visited
    <2>2. Splits(input.spec)[i].split.service = s
      BY <2>1
    <2> QED
      BY <2>2
  <1>3. /\ DOMAIN ClustersOf(input.spec, input.env) = services \X Region
        /\ \A c \in services \X Region :
              ClustersOf(input.spec, input.env)[c].endpoints
                = LbEndpoints(input.env.backends[c[1]].endpoints, c[2])
    BY DEF ClustersOf, NewCluster
  <1>4. <<s, r>> \in services \X Region
    BY <1>2
  <1> HIDE DEF services, s
  <1>5. /\ <<s, r>> \in DOMAIN translation.clusters
        /\ translation.clusters[<<s, r>>].endpoints
              = LbEndpoints(input.env.backends[s].endpoints, r)
    BY <1>1, <1>3, <1>4
  <1>6. target.cluster = <<s, r>> /\ target.split.service = s
    BY DEF TargetOf, s
  <1> QED
    BY <1>5, <1>6

(* Every cluster that an accepted ingress is routed to is in the snapshot, *)
(* also in regions without a pod: Envoy rejects routes to unknown clusters. *)
THEOREM RoutesAlwaysResolve == Spec => []RoutesResolve
  <1>1. TranslatorInv => RoutesResolve
    <2> SUFFICES ASSUME TranslatorInv, Accepted, NEW r \in Region,
                        NEW target \in Targets(translation.internal[r])
                                         \cup Targets(translation.external[r])
                                         \cup Targets(translation.externalTLS[r])
                 PROVE  target.cluster \in DOMAIN translation.clusters
      BY DEF RoutesResolve
    <2>1. PICK q \in Region :
            \E n, m, k : IsSplit(input.spec, n, m, k) /\ target = TargetOf(input.spec, n, m, k, q)
      <3>1. CASE target \in Targets(translation.internal[r])
        BY <3>1, InternalTargets
      <3>2. CASE target \in Targets(translation.external[r])
        BY <3>2, ExternalTargets
      <3>3. CASE target \in Targets(translation.externalTLS[r])
        BY <3>3, ExternalTLSTargets, FirstRegion
      <3> QED
        BY <3>1, <3>2, <3>3
    <2>2. PICK n, m, k : IsSplit(input.spec, n, m, k)
                            /\ target = TargetOf(input.spec, n, m, k, q)
      BY <2>1
    <2> QED
      BY <2>2, ClusterOfSplit
  <1> QED
    BY <1>1, TranslatorInvariant, PTL

(* The cluster that clients of a region are forwarded to has the endpoints *)
(* of the split's service on the region's node.                            *)
LEMMA TargetEndpoints ==
  ASSUME TranslatorInv, Accepted, NEW r \in Region, NEW target \in Targets(translation.internal[r])
  PROVE  translation.clusters[target.cluster].endpoints
           = LbEndpoints(input.env.backends[target.split.service].endpoints, r)
  <1>1. PICK n, m, k : IsSplit(input.spec, n, m, k) /\ target = TargetOf(input.spec, n, m, k, r)
    BY InternalTargets
  <1> QED
    BY <1>1, ClusterOfSplit

(* Clients of a region reach the ready pods on its node, and no others.    *)
THEOREM RegionsAreIsolated == Spec => []RegionIsolation
  <1>1. TranslatorInv => RegionIsolation
    <2> SUFFICES ASSUME TranslatorInv, Accepted, NEW r \in Region
                 PROVE  LET forwardedTo ==
                              {target.split.service : target \in Targets(translation.internal[r])}
                            ready == UNION {input.env.backends[s].endpoints : s \in forwardedTo}
                        IN  AddressesFrom(r) = {a.ip : a \in {b \in ready : b.node = r}}
      BY DEF RegionIsolation
    <2> DEFINE T == Targets(translation.internal[r])
               endpoints(s) == input.env.backends[s].endpoints
               ready == UNION {endpoints(s) : s \in {target.split.service : target \in T}}
    <2>1. ASSUME NEW target \in T
          PROVE  translation.clusters[target.cluster].endpoints
                   = {a.ip : a \in {b \in endpoints(target.split.service) : b.node = r}}
      <3>1. translation.clusters[target.cluster].endpoints
              = LbEndpoints(input.env.backends[target.split.service].endpoints, r)
        BY TargetEndpoints
      <3> QED
        BY <3>1 DEF LbEndpoints
    <2>2. AddressesFrom(r) = UNION {translation.clusters[target.cluster].endpoints : target \in T}
      BY DEF AddressesFrom
    <2> HIDE DEF T, endpoints
    <2>3. ASSUME NEW ip
          PROVE  ip \in AddressesFrom(r) <=> ip \in {a.ip : a \in {b \in ready : b.node = r}}
      <3>1. ip \in AddressesFrom(r) <=>
              \E target \in T : \E a \in endpoints(target.split.service) : a.node = r /\ ip = a.ip
        BY <2>1, <2>2
      <3>2. ip \in {a.ip : a \in {b \in ready : b.node = r}} <=>
              \E a \in ready : a.node = r /\ ip = a.ip
        OBVIOUS
      <3>3. \A a : a \in ready <=> \E target \in T : a \in endpoints(target.split.service)
        OBVIOUS
      <3> HIDE DEF ready
      <3> QED
        BY <3>1, <3>2, <3>3
    <2>4. AddressesFrom(r) = {a.ip : a \in {b \in ready : b.node = r}}
      <3> HIDE DEF ready
      <3> QED
        BY <2>3
    <2> QED
      BY <2>4 DEF T, endpoints
  <1> QED
    BY <1>1, TranslatorInvariant, PTL

-----------------------------------------------------------------------------
(* The snapshot. *)

(* The names of the route configurations. *)
RouteNames(cfg) ==
    {"external", "internal"} \X Region
        \cup (IF HasInternalTLS(cfg) THEN {<<"internal_tls", 1>>} ELSE {})

(* The listeners have a manager for every route configuration, and none    *)
(* besides.                                                                *)
LEMMA ManagersOfSnapshot ==
  ASSUME NEW t, NEW cfg, config = Snapshot(t, cfg, input.env)
  PROVE  Managers = {NewHTTPConnectionManager(name, cfg, input.env.authz) :
                        name \in RouteNames(cfg)}
  <1> DEFINE manager(name) == NewHTTPConnectionManager(name, cfg, input.env.authz)
             dual(kind, port, proxy) == NewHTTPListenerDual(kind, port, proxy, cfg, input.env)
             tls == NewInternalEnvoyListenerWithOneCert(cfg, input.env)
  <1>1. \A kind, port, proxy :
          /\ DOMAIN dual(kind, port, proxy).chains = Region
          /\ \A r \in Region : dual(kind, port, proxy).chains[r].manager = manager(<<kind, r>>)
    BY DEF NewHTTPListenerDual
  <1>2. DOMAIN tls.chains = {1} /\ tls.chains[1].manager = manager(<<"internal_tls", 1>>)
    BY DEF NewInternalEnvoyListenerWithOneCert
  <1>3. config.listeners = GatewayListeners(cfg, input.env)
    BY DEF Snapshot
  <1>4. config.listeners =
          {dual("external", HTTPPortExternal, cfg.proxyProtocol),
           dual("internal", HTTPPortInternal, FALSE),
           dual("external", HTTPPortProb, FALSE)}
            \cup (IF HasInternalTLS(cfg) THEN {tls} ELSE {})
    BY <1>3 DEF GatewayListeners
  <1>5. Managers = UNION {{l.chains[n].manager : n \in DOMAIN l.chains} : l \in config.listeners}
    BY DEF Managers
  <1> HIDE DEF manager, dual, tls
  <1>6. ASSUME NEW x \in Managers PROVE \E name \in RouteNames(cfg) : x = manager(name)
    <2>1. PICK l \in config.listeners : \E n \in DOMAIN l.chains : x = l.chains[n].manager
      BY <1>5
    <2>2. CASE l = tls /\ HasInternalTLS(cfg)
      BY <1>2, <2>1, <2>2 DEF RouteNames
    <2>3. ASSUME NEW kind \in {"external", "internal"}, NEW port, NEW proxy,
                 l = dual(kind, port, proxy)
          PROVE  \E name \in RouteNames(cfg) : x = manager(name)
      <3>1. PICK r \in Region : x = manager(<<kind, r>>)
        BY <1>1, <2>1, <2>3
      <3>2. <<kind, r>> \in RouteNames(cfg)
        BY DEF RouteNames
      <3> QED
        BY <3>1, <3>2
    <2> QED
      BY <1>4, <2>1, <2>2, <2>3
  <1>7. ASSUME NEW name \in RouteNames(cfg) PROVE manager(name) \in Managers
    <2>1. CASE name = <<"internal_tls", 1>> /\ HasInternalTLS(cfg)
      <3>1. tls \in config.listeners
        BY <1>4, <2>1
      <3> QED
        BY <1>2, <1>5, <2>1, <3>1
    <2>2. ASSUME NEW kind \in {"external", "internal"}, NEW r \in Region, name = <<kind, r>>
          PROVE  manager(name) \in Managers
      <3>1. PICK l \in config.listeners : \E port, proxy : l = dual(kind, port, proxy)
        BY <1>4
      <3>2. r \in DOMAIN l.chains /\ l.chains[r].manager = manager(name)
        BY <1>1, <2>2, <3>1
      <3> QED
        BY <1>5, <3>2
    <2> QED
      BY <2>1, <2>2 DEF RouteNames
  <1>8. Managers = {manager(name) : name \in RouteNames(cfg)}
    BY <1>6, <1>7
  <1> QED
    BY <1>8 DEF manager

(* A snapshot is closed, whatever it is made of. *)
LEMMA SnapshotIsClosed ==
  ASSUME NEW t, NEW cfg, config = Snapshot(t, cfg, input.env)
  PROVE  SnapshotClosed
  <1> DEFINE manager(name) == NewHTTPConnectionManager(name, cfg, input.env.authz)
  <1>1. Managers = {manager(name) : name \in RouteNames(cfg)}
    BY ManagersOfSnapshot
  <1>2. \A name : manager(name).routes = name
    BY DEF NewHTTPConnectionManager
  <1>3. DOMAIN config.routes = RouteNames(cfg)
    BY DEF Snapshot, RouteConfigs, RouteNames
  <1>4. config.own = OwnClusters(cfg, input.env)
    BY DEF Snapshot
  <1>5. ASSUME NEW name, NEW c \in ClustersAsked(manager(name))
        PROVE  c \in {cluster.name : cluster \in config.own}
    <2>1. CASE c \in manager(name).tracing
      <3>1. cfg.tracing.enabled /\ c = "tracing-collector"
        BY <2>1 DEF NewHTTPConnectionManager
      <3>2. CollectorCluster(cfg) \in config.own /\ CollectorCluster(cfg).name = c
        BY <1>4, <3>1 DEF OwnClusters, CollectorCluster
      <3> QED
        BY <3>2
    <2>2. CASE c \notin manager(name).tracing
      <3>1. PICK n \in DOMAIN manager(name).filters : c = manager(name).filters[n].cluster /\ c # ""
        BY <2>2 DEF ClustersAsked
      <3>2. manager(name).filters = IF ExtAuthzInit(input.env.authz) = "on"
                                    THEN <<ExternalAuthZFilter(input.env.authz), Router>>
                                    ELSE <<Router>>
        BY DEF NewHTTPConnectionManager
      <3>3. ExtAuthzInit(input.env.authz) = "on" /\ c = "extAuthz"
        <4> HIDE DEF manager
        <4>1. CASE ExtAuthzInit(input.env.authz) = "on"
          <5> DEFINE f == ExternalAuthZFilter(input.env.authz)
                     g == Router
          <5>1. f.cluster = "extAuthz" /\ g.cluster = ""
            BY DEF ExternalAuthZFilter, Router
          <5>2. manager(name).filters = <<f, g>>
            BY <3>2, <4>1
          <5> HIDE DEF f, g
          <5>3. n \in DOMAIN <<f, g>> /\ c = <<f, g>>[n].cluster
            BY <3>1, <5>2
          <5>4. DOMAIN <<f, g>> = {1, 2} /\ <<f, g>>[1] = f /\ <<f, g>>[2] = g
            OBVIOUS
          <5> QED
            BY <3>1, <4>1, <5>1, <5>3, <5>4
        <4>2. CASE ExtAuthzInit(input.env.authz) # "on"
          <5> DEFINE g == Router
          <5>1. g.cluster = ""
            BY DEF Router
          <5>2. manager(name).filters = <<g>>
            BY <3>2, <4>2
          <5> HIDE DEF g
          <5>3. n \in DOMAIN <<g>> /\ c = <<g>>[n].cluster
            BY <3>1, <5>2
          <5>4. DOMAIN <<g>> = {1} /\ <<g>>[1] = g
            OBVIOUS
          <5> QED
            BY <3>1, <5>1, <5>3, <5>4
        <4> QED
          BY <4>1, <4>2
      <3>4. /\ ExtAuthzCluster(input.env.authz) \in config.own
            /\ ExtAuthzCluster(input.env.authz).name = c
        BY <1>4, <3>3 DEF OwnClusters, ExtAuthzEnabled, ExtAuthzCluster
      <3> QED
        BY <3>4
    <2> QED
      BY <2>1, <2>2
  <1> HIDE DEF manager
  <1>6. {x.routes : x \in Managers} = DOMAIN config.routes
    BY <1>1, <1>2, <1>3
  <1>7. UNION {ClustersAsked(x) : x \in Managers} \subseteq {cluster.name : cluster \in config.own}
    BY <1>1, <1>5
  <1> QED
    BY <1>6, <1>7 DEF SnapshotClosed

(* Every snapshot that is served, the one from before the ConfigMap is     *)
(* read included, is closed.                                               *)
THEOREM SnapshotsAreClosed == Spec => []SnapshotClosed
  <1>1. TranslatorInv => SnapshotClosed
    <2>1. CASE config = Nil
      BY <2>1 DEF SnapshotClosed
    <2>2. ASSUME TranslatorInv, config # Nil
          PROVE  \E t, cfg : config = Snapshot(t, cfg, input.env)
      BY <2>2 DEF TranslatorInv, ConfigInv
    <2> QED
      BY <2>1, <2>2, SnapshotIsClosed
  <1> QED
    BY <1>1, TranslatorInvariant, PTL

(* A number of 16 bits is a port. *)
LEMMA PortFits ==
  ASSUME NEW n \in Int, 0 <= n, n <= MaxPort
  PROVE  IsPort(UInt32(n))
  <1>1. n \div 65536 = 0
    BY DEF MaxPort
  <1>2. (n \div 65536) % 65536 = 0
    BY <1>1
  <1> QED
    BY <1>2 DEF IsPort, UInt32

(* The port of the cluster of external authorization was checked on start, *)
(* that of the collector when the ConfigMap was read.                      *)
LEMMA OwnPorts ==
  ASSUME NEW in \in Inputs, NEW cfg, in.env.authz.port.number >= 0,
         \/ cfg = DefaultConfig
         \/ /\ ConfigValid(in.env.configMap, in.env.collector)
            /\ cfg = NewConfigFromMap(in.env.configMap, in.env.collector),
         NEW cluster \in OwnClusters(cfg, in.env)
  PROVE  IsPort(cluster.port)
  <1>1. CASE ExtAuthzEnabled(in.env) /\ cluster = ExtAuthzCluster(in.env.authz)
    <2>1. in.env.authz.port.number \in Int /\ in.env.authz.port.number <= MaxPort
      <3>1. in.env.authz.port.number \in Int
        BY InputsAssumption
      <3>2. ~(in.env.authz.port.number > MaxPort)
        BY <1>1 DEF ExtAuthzEnabled, ExtAuthzInit
      <3> QED
        BY <3>1, <3>2 DEF MaxPort
    <2>2. IsPort(UInt32(in.env.authz.port.number))
      BY <2>1, PortFits
    <2> QED
      BY <1>1, <2>2 DEF ExtAuthzCluster
  <1>2. CASE cfg.tracing.enabled /\ cluster = CollectorCluster(cfg)
    <2>1. cfg # DefaultConfig
      <3>1. ~DefaultConfig.tracing.enabled
        BY DEF DefaultConfig
      <3> QED
        BY <1>2, <3>1
    <2>2. /\ ConfigValid(in.env.configMap, in.env.collector)
          /\ cfg.tracing = AsTracing(in.env.collector)
      <3>1. NewConfigFromMap(in.env.configMap, in.env.collector).tracing
              = AsTracing(in.env.collector)
        BY DEF NewConfigFromMap
      <3> QED
        BY <2>1, <3>1
    <2>3. in.env.collector.given /\ cfg.tracing.port = UInt32(in.env.collector.port.number)
      BY <1>2, <2>2 DEF AsTracing
    <2>4. in.env.collector.port.number \in Nat /\ in.env.collector.port.number <= MaxPort
      BY <2>2, <2>3, InputsAssumption DEF ConfigValid, TracingValid
    <2>5. IsPort(UInt32(in.env.collector.port.number))
      BY <2>4, PortFits
    <2> QED
      BY <1>2, <2>3, <2>5 DEF CollectorCluster
  <1> QED
    BY <1>1, <1>2 DEF OwnClusters

(* The clusters that belong to no ingress have ports that Envoy accepts.   *)
THEOREM PortsStayValid == Spec => []PortsValid
  <1>1. TranslatorInv => PortsValid
    <2> SUFFICES ASSUME TranslatorInv, config # Nil, input.env.authz.port.number >= 0,
                        NEW cluster \in config.own
                 PROVE  IsPort(cluster.port)
      BY DEF PortsValid
    <2>1. \/ cluster \in OwnClusters(DefaultConfig, input.env)
          \/ cluster \in OwnClusters(settings, input.env)
      BY DEF TranslatorInv, ConfigInv, Snapshot
    <2>2. input \in Inputs /\ SettingsInv
      BY DEF TranslatorInv
    <2> QED
      BY <2>1, <2>2, OwnPorts DEF SettingsInv
  <1> QED
    BY <1>1, TranslatorInvariant, PTL

-----------------------------------------------------------------------------
(* The rules that are served. *)

(* Every host of a rule is among its domains. *)
LEMMA HostsAreDomains ==
  ASSUME NEW rule \in IngressRule, NEW host \in ToSet(rule.hosts)
  PROVE  <<host, "">> \in ToSet(DomainsForRule(rule))
  <1> DEFINE both(h) == <<<<h, "">>, <<h, ":*">>>>
             ss == [n \in DOMAIN rule.hosts |-> both(rule.hosts[n])]
             S  == STRING \X {"", ":*"}
  <1>1. PICK hosts \in Seq(STRING) : hosts = rule.hosts
    BY DEF IngressRule
  <1>2. ASSUME NEW h \in STRING
        PROVE  both(h) \in Seq(S) /\ DOMAIN both(h) = {1, 2} /\ both(h)[1] = <<h, "">>
    <2> DEFINE a == <<h, "">>
               b == <<h, ":*">>
    <2>1. a \in S /\ b \in S
      OBVIOUS
    <2> HIDE DEF a, b, S
    <2>2. <<a, b>> \in Seq(S) /\ DOMAIN <<a, b>> = {1, 2} /\ <<a, b>>[1] = a
      BY <2>1
    <2>3. both(h) = <<a, b>>
      BY DEF a, b
    <2> QED
      BY <2>2, <2>3 DEF a
  <1>3. DomainsForRule(rule) = FlattenSeq(ss)
    BY DEF DomainsForRule
  <1> HIDE DEF both, S
  <1>4. /\ ss = [n \in DOMAIN hosts |-> ss[n]] /\ DOMAIN ss = DOMAIN hosts
        /\ \A n \in DOMAIN hosts : ss[n] = both(hosts[n]) /\ ss[n] \in Seq(S)
    <2>1. ss = [n \in DOMAIN hosts |-> both(hosts[n])]
      BY <1>1
    <2>2. ASSUME NEW n \in DOMAIN hosts PROVE both(hosts[n]) \in Seq(S)
      <3>1. hosts[n] \in STRING
        OBVIOUS
      <3> QED
        BY <1>2, <3>1
    <2> HIDE DEF ss
    <2> QED
      BY <2>1, <2>2
  <1> HIDE DEF ss
  <1>5. ss \in Seq(Seq(S))
    BY <1>4, Indexed
  <1>6. ToSet(FlattenSeq(ss)) = UNION {ToSet(ss[n]) : n \in DOMAIN ss}
    BY <1>5, FlattenRange
  <1>7. PICK n \in DOMAIN hosts : host = hosts[n]
    BY <1>1 DEF ToSet
  <1>8. <<host, "">> \in ToSet(ss[n])
    <2>1. hosts[n] \in STRING
      BY <1>7
    <2>2. 1 \in DOMAIN ss[n] /\ ss[n][1] = <<host, "">>
      BY <1>2, <1>4, <1>7, <2>1
    <2> QED
      BY <2>2 DEF ToSet
  <1> QED
    BY <1>3, <1>4, <1>6, <1>8

(* The internal route configuration of a region has the virtual hosts of   *)
(* the rules, in their order, and the status virtual host after them.      *)
LEMMA InternalRoutes ==
  ASSUME TranslatorInv, Served, NEW r \in Region
  PROVE  /\ <<"internal", r>> \in DOMAIN config.routes
         /\ \A n \in DOMAIN input.spec.rules :
               /\ config.routes[<<"internal", r>>][n] = translation.internal[r][n]
               /\ translation.internal[r][n] \in ToSet(config.routes[<<"internal", r>>])
  <1> DEFINE hosts == translation.internal[r]
             S     == {hosts[n] : n \in DOMAIN hosts}
  <1>1. Accepted
    BY DEF Accepted, Served
  <1>2. <<"internal", r>> \in DOMAIN config.routes
          /\ config.routes[<<"internal", r>>] = Append(hosts, StatusVHost)
    <2>1. config.routes = RouteConfigs(translation, settings)
      BY DEF TranslatorInv, ConfigInv, Snapshot
    <2>2. <<"internal", r>> \in {"external", "internal"} \X Region
      OBVIOUS
    <2> QED
      BY <2>1, <2>2 DEF RouteConfigs
  <1>3. PICK rules \in Seq(IngressRule) : rules = input.spec.rules
    BY SpecTypes DEF TranslatorInv
  <1>4. hosts = [n \in DOMAIN rules |-> hosts[n]] /\ \A n \in DOMAIN rules : hosts[n] \in S
    <2>1. hosts = [n \in DOMAIN input.spec.rules |->
                      VirtualHost(input.spec, input.spec.rules[n], input.env, r)]
      BY <1>1 DEF TranslatorInv, TranslationInv, Accepted, TranslationOf
    <2> QED
      BY <1>3, <2>1
  <1> HIDE DEF hosts, S
  <1>5. hosts \in Seq(S) /\ DOMAIN hosts = DOMAIN rules
    BY <1>4, Indexed
  <1>6. ASSUME NEW n \in DOMAIN hosts
        PROVE  /\ Append(hosts, StatusVHost)[n] = hosts[n]
               /\ hosts[n] \in ToSet(Append(hosts, StatusVHost))
    <2>1. Append(hosts, StatusVHost)[n] = hosts[n] /\ n \in DOMAIN Append(hosts, StatusVHost)
      BY <1>5
    <2> QED
      BY <2>1 DEF ToSet
  <1> QED
    BY <1>2, <1>3, <1>5, <1>6 DEF hosts

(* Where the prober asks for a cluster-local rule, every region answers.   *)
THEOREM LocalRulesAreServed == Spec => []LocalRulesServed
  <1>1. TranslatorInv => LocalRulesServed
    <2> SUFFICES ASSUME TranslatorInv, Served, NEW rule \in ToSet(input.spec.rules), ~rule.external
                 PROVE  ProbeAnswered(rule)
      BY DEF LocalRulesServed
    <2> DEFINE l == NewHTTPListenerDual("internal", HTTPPortInternal, FALSE, settings, input.env)
    <2>1. l \in config.listeners
      <3>1. config = Snapshot(translation, settings, input.env)
        BY DEF TranslatorInv, ConfigInv
      <3>2. config.listeners = GatewayListeners(settings, input.env)
        BY <3>1 DEF Snapshot
      <3> QED
        BY <3>2 DEF GatewayListeners
    <2>2. ProbeTarget(input.spec, rule).port = HTTPPortInternal
            /\ ProbeTarget(input.spec, rule).hosts = ToSet(rule.hosts)
      BY DEF ProbeTarget
    <2>3. l.port = HTTPPortInternal /\ ~l.proxy /\ DOMAIN l.chains = Region
            /\ \A r \in Region : l.chains[r].manager.routes = <<"internal", r>>
      BY DEF NewHTTPListenerDual, NewHTTPConnectionManager
    <2>4. ASSUME NEW r \in Region, NEW host \in ToSet(rule.hosts)
          PROVE  \E vhost \in ToSet(config.routes[<<"internal", r>>]) :
                    <<host, "">> \in ToSet(vhost.domains)
      <3>1. PICK n \in DOMAIN input.spec.rules : rule = input.spec.rules[n]
        BY DEF ToSet
      <3>2. Accepted
        BY DEF Accepted, Served
      <3>3. translation.internal[r][n].domains = DomainsForRule(rule)
        BY <3>1, <3>2, InternalHosts
      <3>4. rule \in IngressRule
        BY <3>1, SpecTypes DEF TranslatorInv
      <3>5. <<host, "">> \in ToSet(translation.internal[r][n].domains)
        BY <3>3, <3>4, HostsAreDomains
      <3>6. translation.internal[r][n] \in ToSet(config.routes[<<"internal", r>>])
        BY InternalRoutes
      <3> QED
        BY <3>5, <3>6
    <2> HIDE DEF l
    <2> QED
      BY <2>1, <2>2, <2>3, <2>4 DEF ProbeAnswered
  <1> QED
    BY <1>1, TranslatorInvariant, PTL

(* A path that is not redirected has one route in every region that there  *)
(* is a virtual host for, to the clusters of its splits.                   *)
LEMMA OneRoutePerPath ==
  ASSUME NEW spec, NEW env, NEW rule, NEW path, NEW r, ~Redirects(spec, rule, env),
         ExtAuthzEnabled(env) => r = 1
  PROVE  /\ Len(PathRoutes(spec, rule, path, env, r)) = 1
         /\ PathRoutes(spec, rule, path, env, r)[1].clusters = RegionClusters(path, r)
  <1> DEFINE x == Route("unauthenticated", RegionClusters(path, r))
             y == Route("forward", RegionClusters(path, r))
  <1>1. x.clusters = RegionClusters(path, r) /\ y.clusters = RegionClusters(path, r)
    BY DEF Route
  <1>2. PathRoutes(spec, rule, path, env, r) = <<x>> \/ PathRoutes(spec, rule, path, env, r) = <<y>>
    BY DEF PathRoutes
  <1> HIDE DEF x, y
  <1>3. Len(<<x>>) = 1 /\ Len(<<y>>) = 1 /\ <<x>>[1] = x /\ <<y>>[1] = y
    OBVIOUS
  <1> QED
    BY <1>1, <1>2, <1>3

(* So that the routes of a rule are those of its paths, one for each.      *)
LEMMA RoutesOfPaths ==
  ASSUME NEW spec, NEW env, NEW rule \in IngressRule, NEW r, ~Redirects(spec, rule, env),
         ExtAuthzEnabled(env) => r = 1
  PROVE  /\ Len(Routes(spec, rule, env, r)) = Len(rule.paths)
         /\ \A m \in DOMAIN rule.paths :
               Routes(spec, rule, env, r)[m].clusters = RegionClusters(rule.paths[m], r)
  <1> DEFINE ss == [m \in DOMAIN rule.paths |-> PathRoutes(spec, rule, rule.paths[m], env, r)]
  <1>1. PICK paths \in Seq(HTTPIngressPath) : paths = rule.paths
    BY DEF IngressRule
  <1>2. ASSUME NEW m \in DOMAIN paths
        PROVE  /\ ss[m] \in Seq(RuleRoutes(rule, r))
               /\ Len(ss[m]) = 1
               /\ ss[m][1].clusters = RegionClusters(rule.paths[m], r)
    <2>1. m \in DOMAIN rule.paths /\ ss[m] = PathRoutes(spec, rule, rule.paths[m], env, r)
      BY <1>1
    <2> HIDE DEF ss
    <2>2. PathRoutes(spec, rule, rule.paths[m], env, r) \in Seq(RuleRoutes(rule, r))
      BY <2>1, PathRoutesType
    <2>3. /\ Len(PathRoutes(spec, rule, rule.paths[m], env, r)) = 1
          /\ PathRoutes(spec, rule, rule.paths[m], env, r)[1].clusters
                = RegionClusters(rule.paths[m], r)
      BY OneRoutePerPath
    <2> QED
      BY <2>1, <2>2, <2>3
  <1>3. ss = [m \in DOMAIN paths |-> ss[m]]
    BY <1>1
  <1>4. Routes(spec, rule, env, r) = FlattenSeq(ss)
    BY DEF Routes
  <1> HIDE DEF ss
  <1>5. ss \in Seq(Seq(RuleRoutes(rule, r))) /\ Len(ss) = Len(paths) /\ DOMAIN ss = DOMAIN paths
    BY <1>2, <1>3, Indexed
  <1>6. /\ Len(FlattenSeq(ss)) = Len(ss)
        /\ \A m \in DOMAIN ss : FlattenSeq(ss)[m] = ss[m][1]
    BY <1>2, <1>5, FlattenSingles
  <1> QED
    BY <1>1, <1>2, <1>4, <1>5, <1>6

(* Every path of every rule that is not redirected is served in every      *)
(* region, by the backends it names.                                       *)
THEOREM PathsAreServed == Spec => []PathsServed
  <1>1. TranslatorInv => PathsServed
    <2> SUFFICES ASSUME TranslatorInv, Served, NEW r \in Region, NEW n \in DOMAIN input.spec.rules,
                        input.spec.redirect /\ input.spec.rules[n].external
                          => input.env.httpOptionDisabled
                 PROVE  LET rule   == input.spec.rules[n]
                            routes == config.routes[<<"internal", r>>][n].routes
                        IN  /\ Len(routes) = Len(rule.paths)
                            /\ \A m \in DOMAIN rule.paths :
                                  [k \in DOMAIN routes[m].clusters |-> routes[m].clusters[k].split]
                                     = rule.paths[m].splits
      BY DEF PathsServed
    <2> DEFINE rule   == input.spec.rules[n]
               routes == config.routes[<<"internal", r>>][n].routes
    <2>1. Accepted
      BY DEF Accepted, Served
    <2>2. routes = Routes(input.spec, rule, input.env, r)
      BY <2>1, InternalRoutes, InternalHosts
    <2>3. (ExtAuthzEnabled(input.env) => r = 1) /\ ~Redirects(input.spec, rule, input.env)
      BY <2>1, InternalHosts DEF Redirects
    <2>4. rule \in IngressRule
      BY SpecTypes DEF TranslatorInv
    <2>5. /\ Len(routes) = Len(rule.paths)
          /\ \A m \in DOMAIN rule.paths : routes[m].clusters = RegionClusters(rule.paths[m], r)
      <3> HIDE DEF rule, routes
      <3> QED
        BY <2>2, <2>3, <2>4, RoutesOfPaths
    <2>6. ASSUME NEW m \in DOMAIN rule.paths
          PROVE  [k \in DOMAIN routes[m].clusters |-> routes[m].clusters[k].split]
                    = rule.paths[m].splits
      <3>1. PICK splits \in Seq(IngressBackendSplit) : splits = rule.paths[m].splits
        BY SpecTypes DEF TranslatorInv
      <3>2. routes[m].clusters =
              [k \in DOMAIN splits |-> [cluster |-> <<splits[k].service, r>>, split |-> splits[k]]]
        BY <2>5, <3>1 DEF RegionClusters
      <3> HIDE DEF rule, routes
      <3>3. DOMAIN routes[m].clusters = DOMAIN splits
              /\ \A k \in DOMAIN splits : routes[m].clusters[k].split = splits[k]
        BY <3>2
      <3>4. splits = [k \in DOMAIN splits |-> splits[k]]
        OBVIOUS
      <3> QED
        BY <3>1, <3>3, <3>4
    <2> QED
      BY <2>5, <2>6
  <1> QED
    BY <1>1, TranslatorInvariant, PTL

-----------------------------------------------------------------------------
(* What is tracked. *)

(* The outcomes O and the references R of an ingress: first those of its a *)
(* secrets, then those of its b splits.                                    *)
Aligned(in, O, R, a, b) ==
    /\ a \in Nat /\ b \in Nat
    /\ DOMAIN in.spec.tls = 1 .. a /\ DOMAIN Splits(in.spec) = 1 .. b
    /\ DOMAIN O = 1 .. (a + b) /\ DOMAIN R = 1 .. (a + b)
    /\ \A i \in 1 .. a :
          /\ O[i] = IF in.spec.tls[i].state = "valid" THEN "ok" ELSE "error"
          /\ R[i] = TrackSecret(in.spec.tls[i].secret)
    /\ \A i \in 1 .. b :
          /\ O[a + i] = SplitOutcome(Splits(in.spec)[i].split, Splits(in.spec)[i].path, in.env)
          /\ R[a + i] = TrackService(Splits(in.spec)[i].split.service)

(* The outcomes and the references of every ingress are aligned.           *)
LEMMA OutcomesAndReferences ==
  ASSUME NEW in \in Inputs, NEW O, NEW R, NEW a, NEW b,
         O = SecretOutcomes(in.spec) \o SplitOutcomes(in.spec, in.env),
         R = References(in.spec),
         a = Len(in.spec.tls), b = Len(Splits(in.spec))
  PROVE  Aligned(in, O, R, a, b)
  <1>1. PICK tls \in Seq(IngressTLS) : tls = in.spec.tls
    BY SpecTypes
  <1>2. PICK splits \in Seq(SplitOnPath) : splits = Splits(in.spec)
    BY SplitsRange
  <1>3. /\ a \in Nat /\ b \in Nat /\ a = Len(tls) /\ b = Len(splits)
        /\ DOMAIN tls = 1 .. a /\ DOMAIN splits = 1 .. b
    BY <1>1, <1>2
  <1> DEFINE o1 == [i \in DOMAIN tls |-> IF tls[i].state = "valid" THEN "ok" ELSE "error"]
             o2 == [i \in DOMAIN splits |-> SplitOutcome(splits[i].split, splits[i].path, in.env)]
             r1 == [i \in DOMAIN tls |-> TrackSecret(tls[i].secret)]
             r2 == [i \in DOMAIN splits |-> TrackService(splits[i].split.service)]
             S  == {o1[i] : i \in DOMAIN tls} \cup {o2[i] : i \in DOMAIN splits}
             U  == {r1[i] : i \in DOMAIN tls} \cup {r2[i] : i \in DOMAIN splits}
  <1>4. O = o1 \o o2
    BY <1>1, <1>2 DEF SecretOutcomes, SplitOutcomes
  <1>5. R = r1 \o r2
    BY <1>1, <1>2 DEF References
  <1>6. /\ \A i \in 1 .. a : /\ o1[i] = IF tls[i].state = "valid" THEN "ok" ELSE "error"
                             /\ r1[i] = TrackSecret(tls[i].secret)
        /\ \A i \in 1 .. b : /\ o2[i] = SplitOutcome(splits[i].split, splits[i].path, in.env)
                             /\ r2[i] = TrackService(splits[i].split.service)
    BY <1>3
  <1>7. /\ o1 = [i \in DOMAIN tls |-> o1[i]] /\ \A i \in DOMAIN tls : o1[i] \in S
        /\ r1 = [i \in DOMAIN tls |-> r1[i]] /\ \A i \in DOMAIN tls : r1[i] \in U
    OBVIOUS
  <1>8. /\ o2 = [i \in DOMAIN splits |-> o2[i]] /\ \A i \in DOMAIN splits : o2[i] \in S
        /\ r2 = [i \in DOMAIN splits |-> r2[i]] /\ \A i \in DOMAIN splits : r2[i] \in U
    OBVIOUS
  <1> HIDE DEF o1, o2, r1, r2, S, U
  <1>9. o1 \in Seq(S) /\ Len(o1) = a /\ r1 \in Seq(U) /\ Len(r1) = a
    BY <1>3, <1>7, Indexed
  <1>10. o2 \in Seq(S) /\ Len(o2) = b /\ r2 \in Seq(U) /\ Len(r2) = b
    BY <1>3, <1>8, Indexed
  <1>11. /\ DOMAIN O = 1 .. (a + b)
         /\ \A i \in 1 .. a : O[i] = o1[i]
         /\ \A i \in 1 .. b : O[a + i] = o2[i]
    <2>1. a \in Nat /\ b \in Nat
      BY <1>3
    <2>2. o1 \in Seq(S) /\ o2 \in Seq(S) /\ Len(o1) = a /\ Len(o2) = b
      BY <1>9, <1>10
    <2>3. PICK p \in Seq(S) : p = o1
      BY <2>2
    <2>4. PICK q \in Seq(S) : q = o2
      BY <2>2
    <2>5. /\ p \o q \in Seq(S)
          /\ DOMAIN (p \o q) = 1 .. (Len(p) + Len(q))
          /\ \A i \in 1 .. Len(p) : (p \o q)[i] = p[i]
          /\ \A i \in 1 .. Len(q) : (p \o q)[Len(p) + i] = q[i]
      BY Concat
    <2>6. DOMAIN (p \o q) = 1 .. (a + b)
      BY <2>2, <2>3, <2>4, <2>5
    <2> QED
      BY <1>4, <2>2, <2>3, <2>4, <2>5, <2>6
  <1>12. /\ DOMAIN R = 1 .. (a + b)
         /\ \A i \in 1 .. a : R[i] = r1[i]
         /\ \A i \in 1 .. b : R[a + i] = r2[i]
    <2>1. a \in Nat /\ b \in Nat
      BY <1>3
    <2>2. r1 \in Seq(U) /\ r2 \in Seq(U) /\ Len(r1) = a /\ Len(r2) = b
      BY <1>9, <1>10
    <2>3. PICK p \in Seq(U) : p = r1
      BY <2>2
    <2>4. PICK q \in Seq(U) : q = r2
      BY <2>2
    <2>5. /\ p \o q \in Seq(U)
          /\ DOMAIN (p \o q) = 1 .. (Len(p) + Len(q))
          /\ \A i \in 1 .. Len(p) : (p \o q)[i] = p[i]
          /\ \A i \in 1 .. Len(q) : (p \o q)[Len(p) + i] = q[i]
      BY Concat
    <2>6. DOMAIN (p \o q) = 1 .. (a + b)
      BY <2>2, <2>3, <2>4, <2>5
    <2> QED
      BY <1>5, <2>2, <2>3, <2>4, <2>5, <2>6
  <1> QED
    BY <1>1, <1>2, <1>3, <1>6, <1>11, <1>12 DEF Aligned

(* What a translation that stops at place j has tracked. *)
LEMMA TrackedUpTo ==
  ASSUME NEW in \in Inputs, NEW j \in DOMAIN References(in.spec),
         Reached(SecretOutcomes(in.spec) \o SplitOutcomes(in.spec, in.env), j)
  PROVE  References(in.spec)[j] \subseteq Tracks(in.spec, in.env)
  BY DEF Tracks

(* A split gives up without an error only for a service, or endpoints,     *)
(* that are not there.                                                     *)
LEMMA NilForAReason ==
  ASSUME NEW in \in Inputs, NEW x \in SplitOnPath, SplitOutcome(x.split, x.path, in.env) = "nil"
  PROVE  /\ x.split.service \in Service
         /\ in.env.backends[x.split.service].kind \in {"missing", "noEndpoints"}
  <1>1. x.split.service \in Service
    BY DEF SplitOnPath, IngressBackendSplit
  <1>2. PICK kind \in {"missing", "externalName", "noEndpoints", "cluster"} :
            kind = in.env.backends[x.split.service].kind
    BY <1>1, InputsAssumption
  <1>3. CASE kind = "externalName"
    BY <1>2, <1>3 DEF SplitOutcome
  <1>4. CASE kind = "cluster"
    <2>1. SplitOutcome(x.split, x.path, in.env) \in {"panic", "error", "ok"}
      BY <1>2, <1>4 DEF SplitOutcome
    <2> QED
      BY <2>1
  <1> QED
    BY <1>1, <1>2, <1>3, <1>4

(* Nothing a translation depends on can change unnoticed. *)
THEOREM ChangesAreNoticed == Spec => []ChangesNoticed
  <1>1. TranslatorInv => ChangesNoticed
    <2> SUFFICES ASSUME TranslatorInv, stage = "translated"
                 PROVE  /\ outcome = "nil" => Obstacles \cap tracked # {}
                        /\ outcome = "ok" =>
                              /\ \A tls \in ToSet(input.spec.tls) :
                                    <<"Secret", tls.secret>> \in tracked
                              /\ \A c \in DOMAIN translation.clusters :
                                    {<<"Service", c[1]>>, <<"Endpoints", c[1]>>} \subseteq tracked
      BY DEF ChangesNoticed
    <2> DEFINE O     == SecretOutcomes(input.spec) \o SplitOutcomes(input.spec, input.env)
               R     == References(input.spec)
               a     == Len(input.spec.tls)
               b     == Len(Splits(input.spec))
               stops == {n \in DOMAIN O : O[n] # "ok"}
    <2>1. /\ input \in Inputs
          /\ outcome = TranslateOutcome(input.spec, input.env)
          /\ tracked = Tracks(input.spec, input.env)
          /\ outcome = "ok" => translation = TranslationOf(input.spec, input.env)
      BY DEF TranslatorInv, TranslationInv
    <2>2. /\ a \in Nat /\ b \in Nat
          /\ DOMAIN input.spec.tls = 1 .. a /\ DOMAIN Splits(input.spec) = 1 .. b
          /\ DOMAIN O = 1 .. (a + b) /\ DOMAIN R = 1 .. (a + b)
          /\ \A i \in 1 .. a :
               /\ O[i] = IF input.spec.tls[i].state = "valid" THEN "ok" ELSE "error"
               /\ R[i] = TrackSecret(input.spec.tls[i].secret)
          /\ \A i \in 1 .. b :
               /\ O[a + i] = SplitOutcome(Splits(input.spec)[i].split, Splits(input.spec)[i].path,
                                          input.env)
               /\ R[a + i] = TrackService(Splits(input.spec)[i].split.service)
      <3>1. Aligned(input, O, R, a, b)
        BY <2>1, OutcomesAndReferences
      <3> HIDE DEF O, R, a, b
      <3> QED
        BY <3>1 DEF Aligned
    <2>3. outcome = IF stops = {} THEN "ok" ELSE O[Min(stops)]
      BY <2>1 DEF TranslateOutcome
    <2>4. \A j \in DOMAIN R : Reached(O, j) => R[j] \subseteq tracked
      BY <2>1, TrackedUpTo
    <2> HIDE DEF O, R, a, b
    <2>5. ASSUME stops # {}
          PROVE  /\ Min(stops) \in stops
                 /\ \A k \in stops : Min(stops) <= k
      <3>1. stops \in SUBSET Nat
        BY <2>2
      <3> HIDE DEF stops
      <3> QED
        BY <2>5, <3>1, MinIsLeast
    <2>6. ASSUME outcome = "nil" PROVE Obstacles \cap tracked # {}
      <3>1. stops # {}
        BY <2>3, <2>6
      <3>2. PICK j \in stops : j = Min(stops) /\ \A k \in stops : j <= k
        BY <2>5, <3>1
      <3>3. j \in 1 .. (a + b) /\ O[j] = "nil"
        BY <2>2, <2>3, <2>6, <3>1, <3>2
      <3>4. Reached(O, j)
        <4> SUFFICES ASSUME NEW k \in 1 .. j - 1 PROVE O[k] = "ok"
          BY DEF Reached
        <4>1. k \in DOMAIN O /\ ~(j <= k)
          BY <2>2, <3>3
        <4> QED
          BY <3>2, <4>1
      <3>5. R[j] \subseteq tracked
        BY <2>2, <2>4, <3>3, <3>4
      <3>6. j \notin 1 .. a
        BY <2>2, <3>3
      <3>7. PICK i \in 1 .. b : j = a + i
        <4>1. j - a \in 1 .. b /\ j = a + (j - a)
          BY <2>2, <3>3, <3>6
        <4> QED
          BY <4>1
      <3>8. PICK x \in SplitOnPath : x = Splits(input.spec)[i]
        BY <2>1, <2>2, <3>7, SplitsRange
      <3>9. SplitOutcome(x.split, x.path, input.env) = "nil"
              /\ TrackService(x.split.service) \subseteq tracked
        BY <2>2, <3>3, <3>5, <3>7, <3>8
      <3>10. /\ x.split.service \in Service
             /\ input.env.backends[x.split.service].kind \in {"missing", "noEndpoints"}
        BY <2>1, <3>9, NilForAReason
      <3>11. CASE input.env.backends[x.split.service].kind = "missing"
        <4>1. <<"Service", x.split.service>> \in Obstacles
          BY <3>10, <3>11 DEF Obstacles
        <4>2. <<"Service", x.split.service>> \in tracked
          BY <3>9 DEF TrackService
        <4> QED
          BY <4>1, <4>2
      <3>12. CASE input.env.backends[x.split.service].kind = "noEndpoints"
        <4>1. <<"Endpoints", x.split.service>> \in Obstacles
          BY <3>10, <3>12 DEF Obstacles
        <4>2. <<"Endpoints", x.split.service>> \in tracked
          BY <3>9 DEF TrackService
        <4> QED
          BY <4>1, <4>2
      <3> QED
        BY <3>10, <3>11, <3>12
    <2>7. ASSUME outcome = "ok"
          PROVE  /\ \A tls \in ToSet(input.spec.tls) : <<"Secret", tls.secret>> \in tracked
                 /\ \A c \in DOMAIN translation.clusters :
                       {<<"Service", c[1]>>, <<"Endpoints", c[1]>>} \subseteq tracked
      <3>1. stops = {}
        <4> SUFFICES ASSUME stops # {} PROVE FALSE
          OBVIOUS
        <4>1. Min(stops) \in stops
          BY <2>5
        <4>2. O[Min(stops)] # "ok"
          BY <4>1
        <4> QED
          BY <2>3, <2>7, <4>2
      <3>2. \A k \in 1 .. (a + b) : O[k] = "ok"
        BY <2>2, <3>1
      <3>3. ASSUME NEW j \in 1 .. (a + b) PROVE R[j] \subseteq tracked
        <4>1. Reached(O, j)
          BY <2>2, <3>2 DEF Reached
        <4> QED
          BY <2>2, <2>4, <4>1
      <3>4. ASSUME NEW tls \in ToSet(input.spec.tls) PROVE <<"Secret", tls.secret>> \in tracked
        <4>1. PICK i \in 1 .. a : tls = input.spec.tls[i]
          BY <2>2 DEF ToSet
        <4>2. i \in 1 .. (a + b) /\ R[i] = TrackSecret(tls.secret)
          BY <2>2, <4>1
        <4> QED
          BY <3>3, <4>2 DEF TrackSecret
      <3>5. ASSUME NEW c \in DOMAIN translation.clusters
            PROVE  {<<"Service", c[1]>>, <<"Endpoints", c[1]>>} \subseteq tracked
        <4>1. translation.clusters = ClustersOf(input.spec, input.env)
          BY <2>1, <2>7 DEF TranslationOf
        <4>2. c \in {Splits(input.spec)[i].split.service : i \in DOMAIN Splits(input.spec)}
                      \X Region
          BY <4>1 DEF ClustersOf
        <4>3. PICK i \in 1 .. b : c[1] = Splits(input.spec)[i].split.service
          BY <2>2, <4>2
        <4>4. a + i \in 1 .. (a + b) /\ R[a + i] = TrackService(c[1])
          BY <2>2, <4>3
        <4>5. TrackService(c[1]) \subseteq tracked
          BY <3>3, <4>4
        <4> QED
          BY <4>5 DEF TrackService
      <3> QED
        BY <3>4, <3>5
    <2> QED
      BY <2>6, <2>7
  <1> QED
    BY <1>1, TranslatorInvariant, PTL

-----------------------------------------------------------------------------
(* Sources and ports. *)

(* The listeners besides the one for internal TLS have a filter chain for  *)
(* each region, with its sources and its routes.                           *)
LEMMA ChainsOfListener ==
  ASSUME NEW t, NEW cfg, NEW env, NEW l \in Snapshot(t, cfg, env).listeners,
         l.port # HTTPSPortInternal, NEW r \in Region
  PROVE  /\ l.chains[r].sources = NodeRanges(env.cluster, r) \cup BlockRanges(env.cluster, r)
         /\ l.chains[r].manager.routes[2] = r
  <1>1. l \in GatewayListeners(cfg, env)
    BY DEF Snapshot
  <1>2. NewInternalEnvoyListenerWithOneCert(cfg, env).port = HTTPSPortInternal
    BY DEF NewInternalEnvoyListenerWithOneCert
  <1>3. \E kind, port, proxy : l = NewHTTPListenerDual(kind, port, proxy, cfg, env)
    BY <1>1, <1>2 DEF GatewayListeners
  <1>4. PICK kind, port, proxy : l = NewHTTPListenerDual(kind, port, proxy, cfg, env)
    BY <1>3
  <1>5. /\ l.chains[r].sources = FilterChainMatches(env.cluster)[r]
        /\ l.chains[r].manager = NewHTTPConnectionManager(<<kind, r>>, cfg, env.authz)
    BY <1>4 DEF NewHTTPListenerDual
  <1>6. NewHTTPConnectionManager(<<kind, r>>, cfg, env.authz).routes = <<kind, r>>
    BY DEF NewHTTPConnectionManager
  <1>7. FilterChainMatches(env.cluster)[r] = NodeRanges(env.cluster, r) \cup BlockRanges(env.cluster, r)
    BY DEF FilterChainMatches
  <1> QED
    BY <1>5, <1>6, <1>7

(* The sources on the node of a region are matched by that region's chain, *)
(* and by no other.                                                        *)
LEMMA SourceOfOneRegion ==
  ASSUME NumRegions < 10, SourcesApart,
         NEW in \in Inputs, ListenerOutcome(in.env.cluster) = "ok", in.env.cluster.ipam,
         NEW r \in Region, NEW q \in Region,
         NEW source \in NodeRanges(in.env.cluster, r)
                          \cup {block.cidr : block \in {b \in in.env.cluster.blocks : b.node = r}}
  PROVE  source \in NodeRanges(in.env.cluster, q) \cup BlockRanges(in.env.cluster, q) <=> q = r
  <1> DEFINE nodes  == in.env.cluster.nodes
             blocks == in.env.cluster.blocks
             known  == {n \in DOMAIN nodes : nodes[n] # <<>>}
  <1>1. \A n \in Region : n \in Nat /\ 1 <= n /\ n < 10
    BY RegionsAssumption DEF Region
  <1>2. \A n \in Region : n \in DOMAIN nodes => n \in known
    BY DEF ListenerOutcome
  <1>3. /\ \A n, m \in known : nodes[n][1] = nodes[m][1] => n = m
        /\ \A n \in known : \A block \in blocks : nodes[n][1] # block.cidr
        /\ \A b, c \in blocks : b.cidr = c.cidr => b.node = c.node
    BY DEF SourcesApart
  <1>4. \A n \in Region : NodeRanges(in.env.cluster, n) =
                            IF n \in DOMAIN nodes THEN {nodes[n][1]} ELSE {}
    BY DEF NodeRanges
  <1>5. \A n \in Region : BlockRanges(in.env.cluster, n) =
                            {block.cidr : block \in {b \in blocks : NameContains(b.node, n)}}
    BY DEF BlockRanges, BlocksOf, BlocksRead
  <1>6. ASSUME NEW n \in Region, NEW m \in Region PROVE NameContains(n, m) <=> m = n
    <2>1. /\ n \div 1 = n /\ n \div 10 = 0 /\ n \div 100 = 0
          /\ n \div 1000 = 0 /\ n \div 10000 = 0 /\ m # 0
      BY <1>1
    <2> QED
      BY <2>1 DEF NameContains
  <1> HIDE DEF nodes, blocks, known
  <1>7. CASE r \in DOMAIN nodes /\ source = nodes[r][1]
    <2>1. r \in known
      BY <1>2, <1>7
    <2>2. source \notin BlockRanges(in.env.cluster, q)
      BY <1>3, <1>5, <1>7, <2>1
    <2>3. source \in NodeRanges(in.env.cluster, q) <=> q = r
      BY <1>2, <1>3, <1>4, <1>7, <2>1
    <2> QED
      BY <2>2, <2>3
  <1>8. ASSUME NEW b \in blocks, b.node = r, source = b.cidr
        PROVE  source \in NodeRanges(in.env.cluster, q) \cup BlockRanges(in.env.cluster, q)
                 <=> q = r
    <2>1. source \notin NodeRanges(in.env.cluster, q)
      <3>1. ASSUME q \in DOMAIN nodes, source = nodes[q][1] PROVE FALSE
        <4>1. q \in known
          BY <1>2, <3>1
        <4>2. nodes[q][1] # b.cidr
          BY <1>3, <4>1
        <4> QED
          BY <1>8, <3>1, <4>2
      <3> QED
        BY <1>4, <3>1
    <2>2. source \in BlockRanges(in.env.cluster, q) => NameContains(r, q)
      BY <1>3, <1>5, <1>8
    <2>3. NameContains(r, q) => source \in BlockRanges(in.env.cluster, q)
      BY <1>5, <1>8
    <2> QED
      BY <1>6, <2>1, <2>2, <2>3
  <1>9. \/ r \in DOMAIN nodes /\ source = nodes[r][1]
        \/ \E b \in blocks : b.node = r /\ source = b.cidr
    BY <1>4 DEF blocks
  <1> QED
    BY <1>7, <1>8, <1>9

(* Connections from a region stay in it, for up to nine regions (the name  *)
(* of the tenth node contains that of the first) whose nodes share no      *)
(* addresses.                                                              *)
THEOREM SourcesStayInTheirRegion ==
  ASSUME NumRegions < 10, SourcesApart
  PROVE  Spec => []SourcesKept
  <1>1. TranslatorInv => SourcesKept
    <2> SUFFICES ASSUME TranslatorInv, config # Nil, input.env.cluster.ipam,
                        NEW l \in {k \in config.listeners : k.port # HTTPSPortInternal},
                        NEW r \in Region, NEW source \in SourcesOn(r)
                 PROVE  LET chains == ChainsFor([q \in Region |-> l.chains[q].sources], source)
                        IN  {l.chains[q].manager.routes[2] : q \in chains} = {r}
      BY DEF SourcesKept
    <2> DEFINE matches == [q \in Region |-> l.chains[q].sources]
               named   == {q \in Region : source \in matches[q]}
    <2>1. input \in Inputs /\ ListenerOutcome(input.env.cluster) = "ok"
      BY DEF TranslatorInv, ConfigInv
    <2>2. PICK t, cfg : config = Snapshot(t, cfg, input.env)
      BY DEF TranslatorInv, ConfigInv
    <2>3. ASSUME NEW q \in Region
          PROVE  /\ l.chains[q].manager.routes[2] = q
                 /\ source \in matches[q] <=> q = r
      <3>1. /\ l.chains[q].sources =
                  NodeRanges(input.env.cluster, q) \cup BlockRanges(input.env.cluster, q)
            /\ l.chains[q].manager.routes[2] = q
        BY <2>2, ChainsOfListener
      <3>2. source \in NodeRanges(input.env.cluster, q) \cup BlockRanges(input.env.cluster, q)
              <=> q = r
        BY <2>1, SourceOfOneRegion DEF SourcesOn
      <3> QED
        BY <3>1, <3>2
    <2>4. named = {r}
      BY <2>3
    <2>5. ChainsFor(matches, source) = {r}
      BY <2>4 DEF ChainsFor
    <2>6. {l.chains[q].manager.routes[2] : q \in ChainsFor(matches, source)} = {r}
      <3> HIDE DEF matches
      <3> QED
        BY <2>3, <2>5
    <2> QED
      BY <2>6
  <1> QED
    BY <1>1, TranslatorInvariant, PTL

(* A split finds the one port it asks for. *)
LEMMA PortFound ==
  ASSUME PortsDistinct, NEW in \in Inputs, NEW s \in Service,
         NEW n \in DOMAIN Splits(in.spec), NEW i \in DOMAIN in.env.backends[s].ports,
         Matches(in.env.backends[s].ports[i], Splits(in.spec)[n].split.port)
  PROVE  TargetPort(in.env.backends[s].ports, Splits(in.spec)[n].split.port)
           = in.env.backends[s].ports[i].target
  <1>1. PICK ports \in Seq(ServicePort) : ports = in.env.backends[s].ports
    BY InputsAssumption
  <1>2. PICK want : want = Splits(in.spec)[n].split.port
    OBVIOUS
  <1> DEFINE matching == {j \in DOMAIN ports : Matches(ports[j], want)}
  <1>3. i \in matching
    BY <1>1, <1>2
  <1>4. Max(matching) \in matching
    <2>1. matching \in SUBSET (1 .. Len(ports)) /\ Len(ports) \in Nat
      OBVIOUS
    <2> HIDE DEF matching
    <2> QED
      BY <1>3, <2>1, MaxIsGreatest
  <1>5. PICK j \in matching : j = Max(matching)
    BY <1>4
  <1>6. /\ \A k \in DOMAIN ports : ports[k].number > 0
        /\ \A k, m \in DOMAIN ports : k # m => /\ ports[k].number # ports[m].number
                                               /\ ports[k].name # ports[m].name
                                               /\ ports[k].name # ""
        /\ want.number = 0 \/ want.name = ""
    BY <1>1, <1>2 DEF PortsDistinct
  <1>7. i \in DOMAIN ports /\ j \in DOMAIN ports
    BY <1>1
  <1>8. j = i
    <2> SUFFICES ASSUME j # i PROVE FALSE
      OBVIOUS
    <2>1. /\ ports[i].number # ports[j].number /\ ports[i].name # ports[j].name
          /\ ports[i].name # "" /\ ports[j].name # ""
      BY <1>6, <1>7
    <2>2. ports[i] \in ServicePort /\ ports[j] \in ServicePort
      BY <1>7
    <2>3. ports[i].number \in Nat /\ ports[j].number \in Nat
      BY <2>2 DEF ServicePort
    <2>4. ports[i].number > 0 /\ ports[j].number > 0
      BY <1>6, <1>7
    <2>5. ports[i].number # 0 /\ ports[j].number # 0
      BY <2>3, <2>4
    <2>6. /\ ports[i].number = want.number \/ ports[i].name = want.name
          /\ ports[j].number = want.number \/ ports[j].name = want.name
      BY <1>3 DEF Matches
    <2> QED
      BY <1>6, <2>1, <2>5, <2>6
  <1>9. TargetPort(ports, want) = ports[j].target
    BY <1>3, <1>5 DEF TargetPort
  <1> QED
    BY <1>1, <1>2, <1>8, <1>9

(* The port of a cluster is the one that the last split to its service     *)
(* finds.                                                                  *)
LEMMA ClusterPort ==
  ASSUME NEW in \in Inputs, NEW r \in Region, NEW j \in DOMAIN Splits(in.spec),
         NEW s, s = Splits(in.spec)[j].split.service
  PROVE  \E n \in DOMAIN Splits(in.spec) :
            /\ Splits(in.spec)[n].split.service = s
            /\ ClustersOf(in.spec, in.env)[<<s, r>>].port
                  = TargetPort(in.env.backends[s].ports, Splits(in.spec)[n].split.port)
  <1> DEFINE splits   == Splits(in.spec)
             same     == {n \in DOMAIN splits : splits[n].split.service = s}
             services == {splits[n].split.service : n \in DOMAIN splits}
  <1>1. Max(same) \in same
    <2>1. splits \in Seq(SplitOnPath)
      BY SplitsRange
    <2>2. same \in SUBSET (1 .. Len(splits)) /\ Len(splits) \in Nat /\ j \in same
      <3> HIDE DEF splits
      <3>1. DOMAIN splits = 1 .. Len(splits) /\ Len(splits) \in Nat
        BY <2>1
      <3> QED
        BY <3>1 DEF splits
    <2> HIDE DEF same, splits
    <2> QED
      BY <2>2, MaxIsGreatest
  <1>2. <<s, r>> \in services \X Region
    OBVIOUS
  <1>3. ClustersOf(in.spec, in.env)[<<s, r>>].port
          = TargetPort(in.env.backends[s].ports, splits[Max(same)].split.port)
    BY <1>2 DEF ClustersOf, NewCluster
  <1> QED
    BY <1>1, <1>3

(* A request reaches the port that its split asks for, wherever all splits *)
(* of the ingress to one service ask for the same.                         *)
THEOREM PortsAreRespected ==
  ASSUME PortsDistinct
  PROVE  Spec => []PortsRespected
  <1>1. TranslatorInv => PortsRespected
    <2> SUFFICES ASSUME TranslatorInv, Served, NEW r \in Region,
                        NEW target \in Targets(translation.internal[r]),
                        SplitsTo(target.split.service) = {target.split},
                        NEW port \in ToSet(input.env.backends[target.split.service].ports),
                        port.number = target.split.port.number \/ port.name = target.split.port.name
                 PROVE  translation.clusters[target.cluster].port = port.target
      BY DEF PortsRespected
    <2>1. Accepted /\ input \in Inputs /\ translation.clusters = ClustersOf(input.spec, input.env)
      BY DEF Accepted, Served, TranslatorInv, TranslationInv, TranslationOf
    <2>2. PICK n, m, k : IsSplit(input.spec, n, m, k)
                            /\ target = TargetOf(input.spec, n, m, k, r)
      BY <2>1, InternalTargets
    <2>3. Visited(input.spec, n, m, k)
      BY <2>1, <2>2, SplitVisited
    <2>4. PICK j \in DOMAIN Splits(input.spec) :
            Splits(input.spec)[j].split = input.spec.rules[n].paths[m].splits[k]
      BY <2>3 DEF Visited
    <2>5. PICK s : s = target.split.service
      OBVIOUS
    <2>6. target.cluster = <<s, r>> /\ target.split = Splits(input.spec)[j].split
      BY <2>2, <2>4, <2>5 DEF TargetOf
    <2>7. s = Splits(input.spec)[j].split.service
      BY <2>5, <2>6
    <2>8. PICK i \in DOMAIN Splits(input.spec) :
            /\ Splits(input.spec)[i].split.service = s
            /\ ClustersOf(input.spec, input.env)[<<s, r>>].port
                  = TargetPort(input.env.backends[s].ports, Splits(input.spec)[i].split.port)
      BY <2>1, <2>7, ClusterPort
    <2>9. Splits(input.spec)[i].split \in SplitsTo(s)
      <3>1. PICK n1, m1, k1 :
              /\ IsSplit(input.spec, n1, m1, k1)
              /\ Splits(input.spec)[i].split = input.spec.rules[n1].paths[m1].splits[k1]
        BY <2>1, VisitedIsSplit
      <3>2. input.spec.rules[n1] \in ToSet(input.spec.rules)
        BY <3>1 DEF IsSplit, ToSet
      <3>3. input.spec.rules[n1].paths[m1] \in ToSet(input.spec.rules[n1].paths)
        BY <3>1 DEF IsSplit, ToSet
      <3>4. Splits(input.spec)[i].split \in ToSet(input.spec.rules[n1].paths[m1].splits)
        BY <3>1 DEF IsSplit, ToSet
      <3> QED
        BY <2>8, <3>2, <3>3, <3>4 DEF SplitsTo
    <2>10. Splits(input.spec)[i].split = target.split
      BY <2>5, <2>9
    <2>11. s \in Service
      <3>1. Splits(input.spec)[i] \in SplitOnPath
        BY <2>1, SplitsRange
      <3> QED
        BY <2>8, <3>1 DEF SplitOnPath, IngressBackendSplit
    <2>12. PICK p \in DOMAIN input.env.backends[s].ports : port = input.env.backends[s].ports[p]
      BY <2>5 DEF ToSet
    <2>13. Matches(input.env.backends[s].ports[p], Splits(input.spec)[i].split.port)
      BY <2>10, <2>12 DEF Matches
    <2>14. TargetPort(input.env.backends[s].ports, Splits(input.spec)[i].split.port) = port.target
      BY <2>1, <2>11, <2>12, <2>13, PortFound
    <2> QED
      BY <2>1, <2>6, <2>8, <2>14
  <1> QED
    BY <1>1, TranslatorInvariant, PTL

=============================================================================
