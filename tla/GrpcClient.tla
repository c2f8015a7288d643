----------------------------- MODULE GrpcClient -----------------------------
(***************************************************************************)
(* How a gRPC client is put together from its configuration (rpc/grpcx)    *)
(* and what of it reaches the resolver, the balancer and the server's rate *)
(* limiter through polaris (contrib/polarismesh).                          *)
(***************************************************************************)
EXTENDS Integers, Sequences, SequencesExt

CONSTANT Unset    \* a missing pointer, string or value

None == [x \in {} |-> Unset]   \* an empty map
Or(a, b) == IF a # Unset THEN a ELSE b
At(m, k) == IF k \in DOMAIN m THEN m[k] ELSE Unset

-----------------------------------------------------------------------------
(* The option manager: a configured list of [root, sub], an option is made *)
(* for a known root.  An option is <<kind, value>>.                        *)
(* option/tls.go: sub has the names that are set, and "lost" if the file   *)
(* of the certificate cannot be loaded.  A client without a certificate    *)
(* gets insecure credentials, a server panics.                             *)
DialTLS(sub) ==
    IF ~Contains(sub, "cert") THEN "insecure" ELSE IF Contains(sub, "lost") THEN "panic" ELSE "configured"
ServerTLS(sub) ==
    IF ~Contains(sub, "cert") \/ ~Contains(sub, "key") \/ Contains(sub, "lost") THEN "panic" ELSE "configured"

(* A timeout is kept by the client and is no option.                       *)
Chain(names, known) == SelectSeq(names, LAMBDA n : n \in known)
BuildDialOption(items, known, clientInterceptors) ==
    FoldLeft(LAMBDA opts, it :
               IF it.root = "unaryInterceptors" THEN Append(opts, <<"chain", Chain(it.sub, clientInterceptors)>>)
               ELSE IF it.root \notin known \ {"timeout"} THEN opts
               ELSE Append(opts, <<it.root, IF it.root = "tls" THEN DialTLS(it.sub) ELSE "configured">>),
             <<>>, items)
BuildServerOptions(items, known, unary, stream) ==
    FoldLeft(LAMBDA opts, it :
               CASE it.root = "unaryInterceptors" -> Append(opts, <<"unary", Chain(it.sub, unary)>>)
                 [] it.root = "streamInterceptors" -> Append(opts, <<"stream", Chain(it.sub, stream)>>)
                 [] it.root \in known ->
                      Append(opts, <<it.root, IF it.root = "tls" THEN ServerTLS(it.sub) ELSE "configured">>)
                 [] OTHER -> opts,
             <<>>, items)
Listed(items, root) == \E i \in DOMAIN items : items[i].root = root
OptionPanics(opts) == Contains(opts, <<"tls", "panic">>)

(* External: gRPC takes the last option of a kind, and runs all chains.    *)
Effective(opts, kind) ==
    LET of == SelectSeq(opts, LAMBDA o : o[1] = kind)
    IN  IF of = <<>> THEN Unset ELSE of[Len(of)][2]
Interceptors(opts) ==
    FlattenSeq([i \in DOMAIN opts |-> IF opts[i][1] = "chain" THEN opts[i][2] ELSE <<>>])

-----------------------------------------------------------------------------
(* A target is [scheme, host, path, query], query a sequence of pairs.  A  *)
(* key, here and in metadata, is <<prefix, rest>>.                         *)
(* DialContext appends the client's registry options to a target of the    *)
(* registry, after a "?" even if there is one already: that joins them to  *)
(* the last value of the query.                                            *)
AppendQuery(query, ropts) ==
    IF query = <<>> THEN <<<<<<"", "options">>, ropts>>>>
    ELSE [query EXCEPT ![Len(query)] = <<@[1], "garbled">>]
NoTarget == [scheme |-> Unset, host |-> Unset, path |-> Unset, query |-> <<>>]

DialContext(c, target) ==
    LET t == IF target # NoTarget THEN target
             ELSE IF c.scheme # Unset
                  THEN [NoTarget EXCEPT !.scheme = c.scheme, !.host = c.ropts.service]
                  ELSE [NoTarget EXCEPT !.host = c.addr]
    IN  IF c.scheme # Unset /\ t.scheme = c.scheme
        THEN [t EXCEPT !.query = AppendQuery(@, c.ropts)] ELSE t

(* polaris' dialOptions from the client's: metadata by prefix, booleans    *)
(* parsed, an error for what is neither.                                   *)
filterMetadata(metadata, prefix) ==
    LET ks == {k[2] : k \in {k \in DOMAIN metadata : k[1] = prefix}}
    IN  [x \in ks |-> metadata[<<prefix, x>>]]
ParseBool(v) == [ok |-> v \in {"true", "false", Unset}, val |-> v = "true"]
Error == [err |-> TRUE]
convertDialOptions(ropts) ==
    LET md == ropts.metadata
        route == ParseBool(At(md, <<"", "route">>))
        breaker == ParseBool(At(md, <<"", "circuitBreaker">>))
    IN  IF ~route.ok \/ ~breaker.ok THEN Error
        ELSE [err |-> FALSE, namespace |-> ropts.namespace, service |-> ropts.service,
              headers |-> filterMetadata(md, "header_"), srcMetadata |-> filterMetadata(md, "src_"),
              route |-> route.val, breaker |-> breaker.val,
              srcService |-> At(md, <<"", "srcService">>)]
targetToOptions(t) ==
    LET q == [k \in {t.query[i][1] : i \in DOMAIN t.query} |->
                t.query[CHOOSE i \in DOMAIN t.query : t.query[i][1] = k /\ \A j \in 1..(i - 1) : t.query[j][1] # k][2]]
        path == IF t.path # Unset THEN [namespace |-> t.host, service |-> t.path]
                ELSE [namespace |-> Unset, service |-> Unset]
        route == ParseBool(At(q, <<"", "route">>))
    IN  IF <<"", "options">> \in DOMAIN q THEN convertDialOptions(q[<<"", "options">>])
        ELSE IF ~route.ok THEN Error
        ELSE [err |-> FALSE, namespace |-> Or(At(q, <<"", "namespace">>), path.namespace),
              service |-> Or(At(q, <<"", "service">>), path.service),
              headers |-> None, srcMetadata |-> filterMetadata(q, "src_"), route |-> route.val, breaker |-> FALSE,
              srcService |-> At(q, <<"", "srcService">>)]
getNamespace(o) == Or(o.namespace, "default")

(* GetServiceInfos asks for a name of parts a/b/c: the service is the last *)
(* part, the namespace what is before.                                     *)
GetServiceInfos(parts) ==
    [namespace |-> IF Len(parts) > 1 THEN Front(parts) ELSE <<"default">>, service |-> Last(parts)]

-----------------------------------------------------------------------------
(* A call's context: a deadline and outgoing metadata, Unset if it has none, *)
(* else a sequence of pairs.                                               *)
Values(md, k) ==
    IF md = Unset THEN <<>>
    ELSE LET of == SelectSeq(md, LAMBDA p : p[1] = k) IN [i \in DOMAIN of |-> of[i][2]]
First(md, k) == IF Values(md, k) = <<>> THEN Unset ELSE Values(md, k)[1]
AppendToOutgoing(ctx, pairs) == [ctx EXCEPT !.md = (IF @ = Unset THEN <<>> ELSE @) \o pairs]

\* Mutant: the configured headers replace the caller.
MutantInjectCallerInfo(o, ctx) ==
    LET base == IF ctx.md = Unset THEN [deadline |-> FALSE, md |-> <<>>] ELSE ctx
    IN  IF o.headers = None THEN ctx
        ELSE AppendToOutgoing(base, SetToSeq({<<k, o.headers[k]>> : k \in DOMAIN o.headers}))

(* A call without metadata gets a new context, which has no deadline.      *)
injectCallerInfo(o, ctx) ==
    LET fresh == (o.srcService # Unset \/ o.headers # None) /\ ctx.md = Unset
        base == IF fresh THEN [deadline |-> FALSE, md |-> <<>>] ELSE ctx
        called == IF o.srcService = Unset THEN base
                  ELSE AppendToOutgoing(base, <<<<"caller.service", o.srcService>>, <<"caller.namespace", o.namespace>>>>)
    IN  IF o.headers = None THEN called
        ELSE AppendToOutgoing(called, SetToSeq({<<k, o.headers[k]>> : k \in DOMAIN o.headers}))

WithLoadBalance(ctx, policy, hashKey) ==
    AppendToOutgoing(ctx, <<<<"lbPolicy", policy>>>> \o (IF hashKey = Unset THEN <<>> ELSE <<<<"lbHashKey", hashKey>>>>))
buildLoadBalanceRequest(lbCfg, ctx) ==
    [policy |-> IF Values(ctx.md, "lbPolicy") # <<>> THEN First(ctx.md, "lbPolicy") ELSE lbCfg.policy,
     hashKey |-> IF Values(ctx.md, "lbHashKey") # <<>> THEN First(ctx.md, "lbHashKey") ELSE lbCfg.hashKey]

(* Route labels of the rules, and the arguments of the call for them.      *)
collectRouteLabels(rules) == UNION {rules.inbounds[i] : i \in DOMAIN rules.inbounds}
                                \cup UNION {rules.outbounds[i] : i \in DOMAIN rules.outbounds}
addTrafficLabels(rules, ctx, method) ==
    {<<l, IF l[1] = "path" THEN method ELSE First(ctx.md, l[2])>> :
        l \in {l \in collectRouteLabels(rules) : l[1] = "path" \/ Values(ctx.md, l[2]) # <<>>}}

(* The rate limiter of the server: the call's metadata arrives as sent.    *)
(* No rules, no quota or an error of polaris let the call pass.            *)
fetchArguments(rules) == IF rules = Unset THEN {} ELSE UNION {rules[i] : i \in DOMAIN rules}
buildQuotaRequest(rules, md, peer, tokens) ==
    IF Len(tokens) # 3 THEN Unset
    ELSE UNION {CASE a[1] = "caller" ->
                       IF Values(md, "caller.service") # <<>> /\ Values(md, "caller.namespace") # <<>>
                       THEN {<<"caller", First(md, "caller.namespace"), First(md, "caller.service")>>} ELSE {}
                  [] a[1] = "ip" -> IF Len(peer) = 2 THEN {<<"ip", peer[1]>>} ELSE {}
                  [] OTHER -> IF Values(md, a[2]) # <<>> THEN {<<"header", a[2], First(md, a[2])>>} ELSE {}
                : a \in fetchArguments(rules)}
RateLimitUnaryServerInterceptor(request, limited) ==
    IF request # Unset /\ request \cap limited # {} THEN "exhausted" ELSE "handled"

-----------------------------------------------------------------------------
(* The polaris driver: registries and builders by name, the global SDK     *)
(* context; a context is a number, 0 for none.                             *)
NewDriver == [regs |-> None, builders |-> None, global |-> 0, made |-> 0, result |-> 0]

InitPolarisContext(d, op) ==
    IF ~op.ok THEN [d EXCEPT !.result = 0]
    ELSE IF op.global /\ d.global # 0 THEN [d EXCEPT !.result = d.global]
    ELSE [d EXCEPT !.made = @ + 1, !.result = d.made + 1, !.global = IF op.global THEN d.made + 1 ELSE @]
Keep(m, k, v) == [x \in DOMAIN m \cup {k} |-> IF x = k THEN v ELSE m[x]]
CreateRegistry(d, op) ==
    IF op.name \in DOMAIN d.regs THEN [d EXCEPT !.result = d.regs[op.name]]
    ELSE LET n == InitPolarisContext(d, op)
         IN  IF op.global \/ n.result = 0 THEN n ELSE [n EXCEPT !.regs = Keep(@, op.name, n.result)]
ResolverBuilder(d, op) ==
    IF op.name \in DOMAIN d.builders THEN [d EXCEPT !.result = d.builders[op.name]]
    ELSE LET n == InitPolarisContext(d, op)
         IN  IF op.global \/ n.result = 0 THEN n ELSE [n EXCEPT !.builders = Keep(@, op.name, n.result)]
DriverOp(d, op) == IF op.kind = "registry" THEN CreateRegistry(d, op) ELSE ResolverBuilder(d, op)
Driven(ops) == FoldLeft(DriverOp, NewDriver, ops)
(* The balancer's context: of the registry "polaris", else the global one. *)
BalancerContext(d) == IF "polaris" \in DOMAIN d.regs THEN d.regs["polaris"] ELSE d.global

-----------------------------------------------------------------------------
(* Client.Apply: the registry's options, then the configured ones with     *)
(* insecure credentials if no tls is listed, then the resolver, then the   *)
(* options given before.  The configuration is [readable, items, scheme,   *)
(* op]: op is what ResolverBuilder is asked.  A registry without driver,   *)
(* resolver or readable options fails it, after the scheme was taken.      *)
WithDialOptions(ropts) ==
    IF convertDialOptions(ropts).err THEN <<>>
    ELSE <<<<"chain", <<"injectCallerInfo">>>>, <<"serviceConfig", "polaris">>>>

Fails(c) == [c EXCEPT !.err = TRUE]
Apply(c, cfg, known, interceptors) ==
    LET plugin == BuildDialOption(cfg.items, known, interceptors)
        all == IF c.secured \/ Listed(cfg.items, "tls") THEN plugin ELSE Append(plugin, <<"tls", "insecure">>)
        set == [c EXCEPT !.secured = TRUE, !.timeout = @ \/ Listed(cfg.items, "timeout"), !.scheme = Or(cfg.scheme, @)]
        rdo == WithDialOptions(c.ropts)
    IN  CASE ~cfg.readable -> Fails(c)
          [] cfg.readable /\ OptionPanics(plugin) -> Fails([set EXCEPT !.scheme = c.scheme])
          [] cfg.readable /\ ~OptionPanics(plugin) /\ cfg.scheme = Unset -> [set EXCEPT !.opts = all \o @]
          [] OTHER ->
               IF cfg.scheme # "polaris" \/ ResolverBuilder(NewDriver, cfg.op).result = 0 \/ rdo = <<>> THEN Fails(set)
               ELSE [set EXCEPT !.opts = rdo \o all \o <<<<"resolver", "polaris">>>> \o @]

-----------------------------------------------------------------------------
(* A client dials as it is configured: custom options win over configured  *)
(* ones, those over the registry's.  It dials insecurely without tls, and  *)
(* with a tls that names no certificate, never with one that does.         *)
(* Interceptors run in the order written, the registry's first.  A client  *)
(* that cannot be configured fails with the options it had; a server that  *)
(* lists tls has it or fails.                                              *)
DialPriority(cfg, custom, ropts) ==
    LET known == {"tls", "serviceConfig", "keepalive"}
        items == cfg.items
        c == [secured |-> FALSE, timeout |-> FALSE, scheme |-> Unset, addr |-> "addr", opts |-> custom, ropts |-> ropts,
              err |-> FALSE]
        done == Apply(c, cfg, known, {"i", "j"})
        registry == cfg.scheme # Unset
        tls == SelectSeq(items, LAMBDA it : it.root = "tls")
        written == FlattenSeq([i \in DOMAIN items |-> IF items[i].root = "unaryInterceptors" THEN items[i].sub ELSE <<>>])
        server == BuildServerOptions(items, known, {"i", "j"}, {"i"})
    IN  /\ done.err => done.opts = custom
        /\ done.err <=> \/ ~cfg.readable
                        \/ \E i \in DOMAIN tls : {"cert", "lost"} \subseteq ToSet(tls[i].sub)
                        \/ registry /\ (cfg.scheme = "unknown" \/ ~cfg.op.ok \/ convertDialOptions(ropts).err)
        /\ ~done.err =>
             /\ \A kind \in known :
                  Effective(done.opts, kind) =
                    IF Effective(custom, kind) # Unset THEN Effective(custom, kind)
                    ELSE IF kind # "tls" /\ Listed(items, kind) THEN "configured"
                    ELSE CASE kind = "tls" -> IF tls # <<>> /\ Contains(Last(tls).sub, "cert") THEN "configured" ELSE "insecure"
                           [] kind = "serviceConfig" /\ registry -> "polaris"
                           [] OTHER -> Unset
             /\ Interceptors(done.opts) = (IF registry THEN <<"injectCallerInfo">> ELSE <<>>)
                                            \o SelectSeq(written, LAMBDA n : n # "unknown") \o Interceptors(custom)
        /\ FlattenSeq([k \in DOMAIN server |-> IF server[k][1] = "unary" THEN server[k][2] ELSE <<>>])
              = SelectSeq(written, LAMBDA n : n # "unknown")
        /\ ~OptionPanics(server) => \A kind \in known : Effective(server, kind) = IF Listed(items, kind) THEN "configured" ELSE Unset

(* A client that dials the service of its configuration, or any target of  *)
(* its registry without a query, resolves with its own options; with a     *)
(* query it never does, since the options are lost in it.  Other targets   *)
(* are dialled as they are.                                                *)
OptionsArrive(c, target) ==
    LET sent == DialContext(c, target)
    IN  IF c.scheme # Unset /\ (target = NoTarget \/ target.scheme = c.scheme)
        THEN LET own == convertDialOptions(c.ropts)
             IN  ~own.err => (target.query = <<>> <=> targetToOptions(sent) = own)
        ELSE target # NoTarget => sent = target

(* A target of a namespace and a service names what GetServiceInfos finds  *)
(* under the same name.                                                    *)
NamesAgree(ns, svc) ==
    LET o == targetToOptions([NoTarget EXCEPT !.scheme = "polaris", !.host = ns, !.path = svc])
    IN  GetServiceInfos(<<ns, svc>>) = [namespace |-> <<getNamespace(o)>>, service |-> o.service]

(* The server limits by the caller the client is configured as, unless the *)
(* call's own metadata names one, and sees the headers that routing sees;  *)
(* the deadline of a call is kept if it has metadata or nothing is added.  *)
(* A request's policy for load balancing wins over the configured one, the *)
(* earliest if there are several.                                          *)
CallerSeen(o, ctx, policies, lbCfg) ==
    LET lb == FoldLeft(LAMBDA x, p : WithLoadBalance(x, p[1], p[2]), ctx, policies)
        sent == injectCallerInfo(o, lb)
        rules == <<{<<"caller", "">>}, {}, {<<"header", "h">>, <<"ip", "">>}>>
        args == buildQuotaRequest(rules, sent.md, <<"ip", "port">>, <<"", "s", "m">>)
        caller == IF First(ctx.md, "caller.service") # Unset
                  THEN <<"caller", First(ctx.md, "caller.namespace"), First(ctx.md, "caller.service")>>
                  ELSE <<"caller", o.namespace, o.srcService>>
        labels == addTrafficLabels([inbounds |-> <<{<<"path", "">>}>>, outbounds |-> <<{}, {<<"header", "h">>}>>], sent, "m")
        req == buildLoadBalanceRequest(lbCfg, sent)
    IN  /\ RateLimitUnaryServerInterceptor(args, {caller}) = (IF caller[3] # Unset THEN "exhausted" ELSE "handled")
        /\ \A a \in args : a[1] = "caller" => a = caller
        /\ {a[3] : a \in {a \in args : a[1] = "header"}} = {l[2] : l \in {l \in labels : l[1][1] = "header"}}
        /\ \A k \in DOMAIN o.headers : \E a \in args : a[1] = "header" /\ a[2] = k
        /\ sent.deadline = (ctx.deadline /\ (lb.md # Unset \/ (o.srcService = Unset /\ o.headers = None)))
        /\ req.policy = IF policies = <<>> THEN lbCfg.policy ELSE policies[1][1]

(* Every context a registry or a resolver gets is the global one, which    *)
(* only a global configuration gets, or that of the first configuration of *)
(* its name; the balancer of a global client without a registry of its own *)
(* has the resolver's context.                                             *)
ContextsShared(ops) ==
    LET d(i) == Driven(SubSeq(ops, 1, i))
        own(i) == d(i).result # 0 /\ d(i).result # d(i).global
    IN  \A i, j \in DOMAIN ops :
          /\ ~ops[i].global /\ ops[i].ok => own(i)
          /\ own(i) /\ own(j) => (d(i).result = d(j).result <=> ops[i].name = ops[j].name /\ ops[i].kind = ops[j].kind)
          /\ d(i).result = d(i).global /\ d(i).global # 0 /\ (\A k \in 1..i : ops[k].kind = "builder")
                => BalancerContext(d(i)) = d(i).result
=============================================================================
