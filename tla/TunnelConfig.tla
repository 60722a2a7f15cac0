----------------------------- MODULE TunnelConfig -----------------------------
(***************************************************************************)
(* The list of ingress rules in the remote configuration of one tunnel, as *)
(* appendCloudflareTunnelConfig and removeCloudflareTunnelConfig of        *)
(* internal/controller/ingress_watcher.go rewrite it, people edit it at    *)
(* the dashboard, and cloudflared reads it: the first rule that matches a  *)
(* request answers it.                                                     *)
(*                                                                         *)
(* Reading and writing the list is one step here: both functions hold the  *)
(* reconciler's mutex from the one request to the other (IngressController *)
(* has the two requests, their failures and what happens in between).      *)
(***************************************************************************)
EXTENDS Integers, Sequences, FiniteSets

CONSTANTS
  Hosts,         \* host names, wildcards included
  NoHost,        \* the empty host name
  Rank,          \* per host, its place in the order of strings.Compare
  Covers,        \* the pairs of a wildcard and a host it stands for
  AnyPath,       \* the empty path, which matches all
  Paths,         \* other paths
  IPs,           \* load balancer addresses
  Specs,         \* what an Ingress may say: [hosts : Seq(Hosts \cup {NoHost}),
                 \* tls : SUBSET Hosts], one host per rule of the Ingress
  Settings,      \* what CloudflareTunnel.Spec.Settings may say: [catchAll, origin]
  Manual,        \* the services people enter at the dashboard
  NoOrigin, ManualOrigin,  \* no origin settings, and some that people entered
  NoRule,
  MaxRules       \* bound: rules in a list that is edited at the dashboard

ASSUME HostsAssumption ==
  /\ NoHost \notin Hosts /\ AnyPath \notin Paths
  /\ Rank \in [Hosts -> Nat] /\ \A g, h \in Hosts : Rank[g] = Rank[h] => g = h
  /\ Covers \subseteq Hosts \X Hosts
  \* '*' sorts before every letter and digit
  /\ \A c \in Covers : Rank[c[1]] < Rank[c[2]]

ASSUME SpecsAssumption ==
  /\ Specs \subseteq [hosts : Seq(Hosts \cup {NoHost}), tls : SUBSET Hosts]
  /\ MaxRules \in Nat

VARIABLES
  rules,     \* the rules stored at Cloudflare
  settings   \* Spec.Settings of the CloudflareTunnel

vars == <<rules, settings>>

-----------------------------------------------------------------------------
(* Hosts and rules *)

Elems(s) == {s[k] : k \in DOMAIN s}

\* getHosts: every rule of the Ingress, one that names no host included
HostsOf(spec) == Elems(spec.hosts)

\* checkTLS, createEndpoint
Endpoint(spec, ip, h) ==
  [scheme |-> IF h \in spec.tls THEN "https" ELSE "http", ip |-> ip,
   port |-> IF h \in spec.tls THEN 443 ELSE 80]

\* The settings go to the connection, the rule's own host name to the Host header
\* and the name expected in the certificate.
ToOriginRequestConfig(st, h) == [header |-> h, origin |-> st.origin]

Rule(h, path, service, origin) ==
  [host |-> h, path |-> path, service |-> service, origin |-> origin]

HostNames(list) == {r.host : r \in Elems(list)}

\* the rule that is left when rules are put in a map by their host names
LastRuleMutant(list, h) ==        \* the first one stays
  list[CHOOSE k \in DOMAIN list :
         list[k].host = h /\ \A j \in DOMAIN list : list[j].host = h => k <= j]

LastRule(list, h) ==
  list[CHOOSE k \in DOMAIN list :
         list[k].host = h /\ \A j \in DOMAIN list : list[j].host = h => j <= k]

KeptRule(list, h, st) ==
  [LastRule(list, h) EXCEPT !.origin = ToOriginRequestConfig(st, h)]

OwnRuleMutant(spec, ip, h, st) == \* for one path only
  Rule(h, CHOOSE p \in Paths : TRUE, Endpoint(spec, ip, h), ToOriginRequestConfig(st, h))

OwnRule(spec, ip, h, st) ==
  Rule(h, AnyPath, Endpoint(spec, ip, h), ToOriginRequestConfig(st, h))

CatchAllRuleMutant(st) ==         \* with origin settings like any other
  Rule(NoHost, AnyPath, st.catchAll, ToOriginRequestConfig(st, NoHost))

CatchAllRule(st) == Rule(NoHost, AnyPath, st.catchAll, NoOrigin)

\* the comparison given to SortedFunc
SortsBeforeMutant(g, h) ==        \* strings.Compare alone: the empty name is first
  g # h /\ (g = NoHost \/ (h # NoHost /\ Rank[g] < Rank[h]))

SortsBefore(g, h) == g # h /\ (h = NoHost \/ (g # NoHost /\ Rank[g] < Rank[h]))

Sorted(byHost) ==
  [k \in 1..Cardinality(DOMAIN byHost) |->
     byHost[CHOOSE h \in DOMAIN byHost :
              Cardinality({g \in DOMAIN byHost : SortsBefore(g, h)}) = k - 1]]

AppendConfig(list, spec, ip, st) ==
  Sorted([h \in HostNames(list) \cup HostsOf(spec) \cup {NoHost} |->
            IF h = NoHost THEN CatchAllRule(st)
            ELSE IF h \in HostsOf(spec) THEN OwnRule(spec, ip, h, st)
            ELSE KeptRule(list, h, st)])

RemoveConfigMutant(list, spec, st) ==  \* forgets the hosts below a wildcard as well
  LET gone == HostsOf(spec) \cup {h \in Hosts : \E g \in HostsOf(spec) : <<g, h>> \in Covers}
  IN Sorted([h \in (HostNames(list) \ gone) \cup {NoHost} |->
               IF h = NoHost THEN CatchAllRule(st) ELSE KeptRule(list, h, st)])

RemoveConfig(list, spec, st) ==
  Sorted([h \in (HostNames(list) \ HostsOf(spec)) \cup {NoHost} |->
            IF h = NoHost THEN CatchAllRule(st) ELSE KeptRule(list, h, st)])

-----------------------------------------------------------------------------
Init == rules = <<>> /\ settings \in Settings

\* Reconcile of an Ingress that says spec
AppendCloudflareTunnelConfig(spec, ip) ==
  rules' = AppendConfig(rules, spec, ip, settings) /\ UNCHANGED settings

\* Reconcile of one that is ignored, or its finalizer
RemoveCloudflareTunnelConfig(spec) ==
  rules' = RemoveConfig(rules, spec, settings) /\ UNCHANGED settings

\* The user changes the settings; the Ingress controller is not told.
EditSettings == settings' \in Settings \ {settings} /\ UNCHANGED rules

\* Somebody adds a rule at the dashboard, before the one that catches all ...
AddRule(h, path) ==
  /\ Len(rules) \in 1..(MaxRules - 1)
  /\ \E k \in 1..Len(rules), s \in Manual :
       rules' = SubSeq(rules, 1, k - 1) \o <<Rule(h, path, s, ManualOrigin)>>
                \o SubSeq(rules, k, Len(rules))
  /\ UNCHANGED settings

\* ... or deletes one
DropRule(k) ==
  /\ rules' = SubSeq(rules, 1, k - 1) \o SubSeq(rules, k + 1, Len(rules))
  /\ UNCHANGED settings

Reconciles(spec) ==
  RemoveCloudflareTunnelConfig(spec)
    \/ \E ip \in IPs : AppendCloudflareTunnelConfig(spec, ip)

Next ==
  \/ \E spec \in Specs : Reconciles(spec)
  \/ EditSettings
  \/ \E h \in Hosts, path \in Paths \cup {AnyPath} : AddRule(h, path)
  \/ \E k \in 1..(Len(rules) - 1) : DropRule(k)

Spec == Init /\ [][Next]_vars

-----------------------------------------------------------------------------
(* What cloudflared does with the list *)

Matches(rule, h, path) ==
  /\ rule.host \in {h, NoHost} \/ <<rule.host, h>> \in Covers
  /\ rule.path \in {path, AnyPath}

FirstMatch(list, h, path) ==
  list[CHOOSE k \in DOMAIN list :
         Matches(list[k], h, path) /\ \A j \in 1..(k - 1) : ~Matches(list[j], h, path)]

Wildcards == {c[1] : c \in Covers}
Endpoints == [scheme : {"http", "https"}, ip : IPs, port : {80, 443}]
Services == Endpoints \cup Manual \cup {st.catchAll : st \in Settings}
Origins ==
  [header : Hosts, origin : {st.origin : st \in Settings}] \cup {NoOrigin, ManualOrigin}

-----------------------------------------------------------------------------
(* Properties *)

TypeOK ==
  /\ rules \in Seq([host : Hosts \cup {NoHost}, path : Paths \cup {AnyPath},
                    service : Services, origin : Origins])
  /\ settings \in Settings

\* Whatever list it finds, and whatever hosts an Ingress has (none, the same one
\* twice, the empty one), the controller writes one that cloudflared accepts: the
\* last rule, and no other, catches all, with the service the user set for that,
\* and no host has two rules (lines 209-225 and 261-277).
WritesValidList ==
  [][\A spec \in Specs : Reconciles(spec) =>
       LET n == Len(rules') IN
       /\ rules'[n] = CatchAllRule(settings)
       /\ \A k \in 1..(n - 1) : rules'[k].host # NoHost
       /\ \A j, k \in 1..n : rules'[j].host = rules'[k].host => j = k]_vars

\* A published host is reached: whatever was entered for it at the dashboard, every
\* request for it goes to the endpoint of its Ingress, with its own name as Host
\* header.  The exception is a host that a wildcard in the list stands for: the
\* wildcard sorts first, so it answers, with the pattern as Host header (line 216,
\* origin_request_config.go line 13).
PublishedHostIsReached ==
  [][\A spec \in Specs, ip \in IPs : AppendCloudflareTunnelConfig(spec, ip) =>
       \A h \in HostsOf(spec) \ (Wildcards \cup {NoHost}), path \in Paths \cup {AnyPath} :
         LET answer == FirstMatch(rules', h, path)
             shadowed == \E r \in Elems(rules') : r.host \in Wildcards /\ Matches(r, h, path)
         IN /\ IF shadowed THEN answer.host \in Wildcards
               ELSE answer.host = h /\ answer.service = Endpoint(spec, ip, h)
            /\ answer.origin.header = answer.host]_vars

\* For the hosts of nobody in hand, the path and the service of the last rule each
\* has in the list survive (earlier rules of the same host do not), and whoever wrote
\* a rule, it gets the origin settings of today (lines 190-198 and 247-255).
OthersKeepTheirRule ==
  [][\A spec \in Specs : Reconciles(spec) =>
       \A k \in DOMAIN rules :
         /\ rules[k].host \notin HostsOf(spec) \cup {NoHost}
         /\ \A j \in DOMAIN rules : j > k => rules[j].host # rules[k].host
         => [rules[k] EXCEPT !.origin = [header |-> rules[k].host, origin |-> settings.origin]]
              \in Elems(rules')]_vars

\* The list is a table of hosts, as IngressController takes it to be: sorting, paths
\* and the catch-all rule aside, a write changes what it says of the hosts of the
\* Ingress in hand and nothing else.
Table ==
  INSTANCE HostTable WITH
    table <- [h \in Hosts |-> IF h \in HostNames(rules) THEN LastRule(rules, h).service ELSE NoRule]

ImplementsTable == Table!Spec
=============================================================================
