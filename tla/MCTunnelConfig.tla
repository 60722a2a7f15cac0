---------------------------- MODULE MCTunnelConfig ----------------------------
(* Values of the constants of TunnelConfig for TLC. *)
EXTENDS TunnelConfig

CONSTANTS star, app, web, c404, c503, o1, o2

\* *.example.com, app.example.com and web.test, in the order of strings.Compare
ByName == [h \in {star, app, web} |-> CASE h = star -> 1 [] h = app -> 2 [] h = web -> 3]
OneWildcard == {<<star, app>>}

\* an Ingress with a wildcard host, one with a host below it over TLS, one whose rules
\* repeat a host and leave one empty, one without rules
FourSpecs ==
  {[hosts |-> <<star>>, tls |-> {}], [hosts |-> <<app>>, tls |-> {app}],
   [hosts |-> <<web, NoHost, web>>, tls |-> {}], [hosts |-> <<>>, tls |-> {}]}

TwoSettings == {[catchAll |-> c404, origin |-> o1],
                [catchAll |-> c503, origin |-> o2]}
=============================================================================
