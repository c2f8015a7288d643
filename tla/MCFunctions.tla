---------------------------- MODULE MCFunctions ----------------------------
(* The pure functions of the repository, each on every input of a small set: *)
(* a behaviour picks one input, and an invariant per function compares the   *)
(* result with the function's reference definition.                          *)
EXTENDS TimeInterval, Policy, Signature, TextEncoder, Config, Lfu, WebSetup,
        GrpcClient, HttpClient, Interceptors, Loggers, Graphql, TLC

VARIABLE probe

Strings(S, n) == UNION {[1..k -> S] : k \in 0..n}

DayProbes == [fn : {"days"}, b : -32..32, e : -32..32]
TimeProbes ==
    LET clock == {<<0, 0>>, <<9, 30>>, <<9, 31>>, <<23, 59>>, <<24, 0>>, <<24, 1>>}
    IN  [fn : {"times"}, a : clock, b : clock, c : clock]
NameProbes == [fn : {"names"}, parts : UNION {[1..k -> {0, 1, 3, 6, 7, 13}] : k \in 1..3}]
MatchProbes ==
    [fn : {"match"}, pattern : Strings({"a", "b", "*", "?"}, 3), resource : Strings({"a", "b"}, 4)]

SignConfigs ==
    [signer : {"default", "token", "hmac"}, alg : Algorithms, secret : {"s"}, id : {"k"}, dry : {FALSE},
     scheme : {"", "S"}, authLookup : {{"header"}, {"query"}},
     unsignedPayload : BOOLEAN, delimiter : {"nl", "&"},
     authHeaders : {{}, {"timestamp"}, {"timestamp", "nonce"}},
     lookups : {("h" :> "header") @@ ("timestamp" :> "") @@ ("nonce" :> ""),
                ("h" :> "") @@ ("url" :> "CanonicalUri") @@ ("timestamp" :> "") @@ ("nonce" :> ""),
                ("h" :> "header") @@ ("ctx" :> "context")}]
Requests ==
    [method : {"GET"}, path : {"", "/a"}, query : {[order |-> "raw", vals |-> <<"q">>, signed |-> FALSE]},
     header : {("h" :> h) @@ ("timestamp" :> Absent) @@ ("nonce" :> n) :
                 h \in {"v", "v&h=w", Absent}, n \in {"n", Absent}},
     body : {NoBody, "", "b"}, absolute : {TRUE}, value : {"c"},
     auth : {<<>>, <<[elem |-> FALSE, scheme |-> "Bearer", fields |-> <<>>, sig |-> "token"]>>}]
SignProbes == [fn : {"sign"}, cfg : SignConfigs, r : Requests]
TextProbes == [fn : {"text"}, delimiter : {"nl", "&"}, ctx : {"v", "w"} \cup WithAmp, h : {"v", "w"} \cup WithAmp]
Alterations(r) ==
    {[r EXCEPT !.method = "PUT"], [r EXCEPT !.path = "/b"], [r EXCEPT !.query.vals = <<"p">>],
     [r EXCEPT !.header["h"] = "w"], [r EXCEPT !.body = "c"], r}

Letters == {"a", "\\", "\"", "[", "]", "=", "nl", ",", " "}
LineProbes ==
    [fn : {"line"}, val : Strings(Letters, 2),
     message : {<<>>, <<"a">>, <<"nl">>, <<"\\", "\"">>, <<"]", "[">>, <<"a", "=">>}]
ArrayProbes == [fn : {"array"}, arr : Strings(Strings({"a", "\"", ","}, 2), 2)]
PadProbes == [fn : {"pad"}, n : 0..1100, width : 2..4]

Lit(v) == <<"lit", v>>
FileTrees ==
    {{<<<<"a">>, Lit("1")>>}, {<<<<"a", "b">>, Lit("2")>>, <<<<"c">>, <<"env", "X">>>>},
     {<<<<"a", "d">>, <<"env", "Y">>>>}, {}}
Include(list) == {<<<<"includeFiles">>, <<"list", list>>>>}
Files ==
    [{"main", "i", "j"} -> FileTrees]
FileSystems ==
    {[f EXCEPT !["main"] = @ \cup Include(l)] :
        f \in Files, l \in {<<"i">>, <<"i", "j">>, <<"j", "i">>, <<"k">>}} \cup Files
LoadProbes ==
    [fn : {"load"}, fs : FileSystems, given : {<<>>, <<"j">>}]
DeepTree == {<<<<"a", "b", "c">>, Lit("4")>>}
SubProbes == [fn : {"sub"}, tree : {Merge(a, b) : a, b \in FileTrees \cup {DeepTree}}]
Paths == Strings({"a", "b", "c"}, 2)

TTLProbes == [fn : {"ttl"}, subsidiary : BOOLEAN, ttl : {1, 10, 30, 150}, deviation : {0, 2, 10}, given : 0..40]
ExtractProbes == [fn : {"extract"}, pairs : Strings([name : {"n", "m"}, val : {"1", "2"}], 4), limit : 2..3]
SkipProbes == [fn : {"skip"}, exclude : Strings(Strings({"/", "a"}, 2), 1), path : Strings({"/", "a"}, 4)]
TokenProbes ==
    [fn : {"token"}, key : {"", "rsa", "k"}, keys : SUBSET ({"1", "2"} \X {"rsa", "k"}),
     method : {"HS256", "RS256", "ES256", "none"},
     tok : [alg : {"HS256", "RS256", "ES256"}, kid : {"", "1", "2"}, key : {"rsa", "k", "other"}]]
Groups ==
    [name : {"default", "g"}, basePath : {"", "/", "/a"},
     middlewares : {<<>>, <<"jwt">>, <<"gzip", "jwt">>, <<"unknown", "cors">>, <<"jwt", "jwt">>}]
RouterProbes == [fn : {"router"}, groups : Strings(Groups, 2)]
ManagerProbes ==
    [fn : {"manager"}, ops : Strings({"register", "unregister", "default"} \X {"", "a", "b"}, 3)]
LookupProbes ==
    [fn : {"lookup"}, scheme : {"", "Bearer "},
     lookups : Strings([src : {"header", "query", "unknown"}, name : {"", "Authorization", "X"}, cut : {"", "c"}], 2)]

DialItems ==
    [root : {"serviceConfig", "timeout", "other"}, sub : {<<>>}] \cup
    [root : {"tls"}, sub : {<<>>, <<"ca">>, <<"cert">>, <<"cert", "key">>, <<"cert", "key", "lost">>}] \cup
    [root : {"unaryInterceptors"}, sub : {<<"i">>, <<"j", "unknown", "i">>}]
DialProbes ==
    [fn : {"dial"}, items : Strings(DialItems, 2), scheme : {Unset, "polaris", "unknown"}, ok : BOOLEAN,
     readable : BOOLEAN, route : {"true", "garbled"},
     custom : Strings({<<"tls", "custom">>, <<"serviceConfig", "custom">>, <<"chain", <<"own">>>>}, 1)]
RegistryOptions ==
    [namespace : {Unset, "n"}, service : {"s"},
     metadata : {[k \in ks |-> IF k = <<"", "route">> THEN v ELSE "true"] :
                   ks \in SUBSET {<<"", "route">>, <<"", "srcService">>, <<"header_", "h">>, <<"src_", "m">>},
                   v \in {"true", "garbled"}}]
TargetProbes ==
    [fn : {"target"}, ropts : RegistryOptions, registry : BOOLEAN,
     scheme : {Unset, "polaris", "dns"}, host : {"n", "s"}, path : {Unset, "s"},
     query : Strings({<<<<"", "route">>, "true">>, <<<<"", "service">>, "t">>}, 1)]
CallProbes ==
    [fn : {"call"}, ropts : RegistryOptions, deadline : BOOLEAN,
     md : {Unset, <<>>, <<<<"caller.service", "z">>, <<"caller.namespace", "y">>>>, <<<<"h", "2">>>>},
     policies : Strings({"p", "q"} \X {Unset, "k"}, 2)]
DriverProbes ==
    [fn : {"driver"},
     ops : Strings([kind : {"registry", "builder"}, name : {"polaris", "a"}, global : BOOLEAN, ok : BOOLEAN], 3)]
HttpProbes ==
    [fn : {"http"}, basic : BOOLEAN, tls : BOOLEAN, oauth : BOOLEAN, storeKey : BOOLEAN,
     auth : {NoAuth} \cup [name : {"", "Authorization", "X"}, prefix : {"", "Bearer", "Token"}],
     options : Strings({"base", "middleware", "source", "storage"}, 2)]

InterceptorProbes ==
    [fn : {"rpc"}, chain : Strings({"accessLog", "recovery", "jwt"}, 3), stream : BOOLEAN, method : {"m", "n"},
     tokens : Strings([scheme : {"Bearer", "Basic"}, valid : BOOLEAN, name : {"a"}], 1) \cup
        {<<[scheme |-> "Basic", valid |-> TRUE, name |-> "a"], [scheme |-> "Bearer", valid |-> v, name |-> "b"]>> : v \in BOOLEAN},
     scheme : {"", "Bearer"},
     handler : {<<"OK">>, <<"NotFound">>, <<"panic", "Internal">>, <<"panic", "NotFound">>}]
ComponentProbes ==
    [fn : {"components"},
     ops : Strings(({"component"} \X {"c", "d"} \X {0}) \cup ({"set"} \X {"c", "d"} \X {1, 2}) \cup ({"global"} \X {""} \X {1, 2}), 4)]
PoolProbes == [fn : {"pool"}, ops : Strings({"ctx", "log"} \X {1, 2}, 6)]
LogConfigs == [id : {1, 2}, rotate : BOOLEAN, paths : SUBSET {"std", "file", "url"}]
BuildProbes == [fn : {"build"}, cfgs : Strings(LogConfigs, 2)]
WriterProbes ==
    [fn : {"writer"}, text : Strings({"x", "nl", "[W]", "[D]", "[?]"}, 4), cut : 0..4]

GroupProbes ==
    [fn : {"groups"}, groups : Strings([path : {"/", "/a", "/b"}, gql : BOOLEAN], 3),
     servers : Strings({"none", "s", "t"}, 3)]
Middle(err) == [err |-> err]
WebHandlers ==
    {Middle({}), Middle({[gin |-> TRUE, type |-> "private", text |-> "secret"]}),
     Middle({[gin |-> TRUE, type |-> "public", text |-> "shown"]})}
Operations ==
    [fields : {<<"a">>, <<"a", "b">>, <<"__schema">>, <<"fragment">>}, resolver : {"ok", "error", "panic"}]
OperationProbes ==
    [fn : {"operations"}, operation : Strings(WebHandlers, 1), response : Strings(WebHandlers, 1), authorization : BOOLEAN,
     b : {"allow", "deny", "error"}, msgs : {<<>>, <<"public">>, <<"public", "">>},
     transports : {{}, {"websocket"}}, ops : Strings(Operations, 2)]

Init == probe = [fn |-> "none"]
Next ==
    /\ probe.fn = "none"
    /\ probe' \in DayProbes \cup TimeProbes \cup NameProbes \cup MatchProbes \cup SignProbes \cup TextProbes
                \cup LineProbes \cup ArrayProbes \cup PadProbes \cup LoadProbes \cup SubProbes
                \cup TTLProbes \cup ExtractProbes \cup SkipProbes \cup TokenProbes
                \cup RouterProbes \cup ManagerProbes \cup LookupProbes
                \cup DialProbes \cup TargetProbes \cup CallProbes \cup DriverProbes \cup HttpProbes
                \cup InterceptorProbes \cup ComponentProbes \cup PoolProbes \cup BuildProbes \cup WriterProbes
                \cup GroupProbes \cup OperationProbes
Spec == Init /\ [][Next]_probe

\* Days of the month are those a range names in months without a change of
\* clocks, or with one that lengthens the month; a month that it shortens is
\* read without its last day, against "distance from the End of the month"
\* (timeinterval.go:78).
DayRanges ==
    probe.fn = "days" =>
      \A n \in 28..31 :
        /\ \A shift \in {0, 1} : DaysAsWritten(probe.b, probe.e, n, shift)
        /\ DaysAsCounted(probe.b, probe.e, n)

\* Times of the day that meet in a minute cover it once.
TimeRanges == probe.fn = "times" => TimesTile(probe.a, probe.b, probe.c)

\* Ranges of names are read and matched as written.
NamedRanges == probe.fn = "names" => NamedRange(probe.parts)

\* The wildcard matcher is exact.
PolicyMatch == probe.fn = "match" => MatchIsExact(probe.pattern, probe.resource)

\* Signed requests verify, at any moment of the interval.
SignRoundTrip ==
    probe.fn = "sign" =>
      \A t \in 4..5, now \in 4..9, nonce \in {"", "n"} :
         RoundTrip(probe.cfg, probe.r, nonce, t, now, 4)

\* The texts that the token signer hashes differ if the values do and none
\* holds the delimiter.
SignText ==
    probe.fn = "text" =>
      \A c, h \in {"v", "w"} \cup WithAmp :
        TextTellsApart([lookups |-> ("ctx" :> "context") @@ ("h" :> "header"), delimiter |-> probe.delimiter],
                       [ctx |-> probe.ctx, h |-> probe.h], [ctx |-> c, h |-> h])

\* A request without body verifies with one of the algorithms.
SignBodiless ==
    probe.fn = "sign" => \A nonce \in {"", "n"} : BodilessOnlySha256(probe.cfg, probe.r, nonce, 4)

\* Altered requests do not verify.
SignTamper ==
    probe.fn = "sign" =>
      \A a \in Alterations(Transport(Sign(probe.cfg, probe.r, "n", 4))) :
         TamperEvident(probe.cfg, probe.r, "n", 4, a, 6, 4)

\* Log lines read back as what was logged.
LogLines ==
    probe.fn = "line" =>
      LET fields == <<[key |-> probe.message, kind |-> "string", val |-> probe.val],
                      [key |-> <<"e">>, kind |-> "error", val |-> probe.message, verbose |-> probe.val]>>
      IN  \A verbose \in BOOLEAN, time \in {<<>>, <<"1", " ", "1">>} :
            LineReadsBack(time, <<<<"I">>, probe.val>>, probe.message,
                          AddField(<<>>, fields[1]), fields, probe.val, verbose)

\* Arrays keep their elements apart.
LogArrays ==
    probe.fn = "array" => \A other \in Strings({<<"a">>, <<"a", "\"">>, <<"\"", "a">>}, 2) :
                             ArrayKeepsElements(probe.arr, other)

\* Numbers of dates and times are padded exactly.
LogNumbers == probe.fn = "pad" => PaddingExact(probe.n, probe.width)

\* The last file that sets a path decides its value.
ConfigOrder ==
    probe.fn = "load" =>
      LastFileWins(NewConfig("main", probe.given), probe.fs, ("X" :> "p") @@ ("Y" :> ""),
                   <<"X" :> "e", "X" :> "l">>)

\* Reloading is loading afresh.
ConfigReload ==
    probe.fn = "load" =>
      \A main \in {{<<<<"c">>, Lit("3")>>}, {<<<<"c">>, Lit("3")>>} \cup Include(<<"j">>)} :
        ReloadIsFresh(NewConfig("main", probe.given), probe.fs, [probe.fs EXCEPT !["main"] = main],
                      ("X" :> "p") @@ ("Y" :> ""), <<>>)

\* Sub nodes read like their root.
ConfigSub ==
    probe.fn = "sub" => \A p, q \in Paths :
        SubReads(NewFromParse(probe.tree), p, q) /\ EachReads(<<probe.tree>>, q)

\* A value of the local cache is kept for its ttl.
LocalTTL ==
    probe.fn = "ttl" =>
      KeptForTTL([subsidiary |-> probe.subsidiary, ttl |-> probe.ttl, deviation |-> probe.deviation],
                 probe.given, "v")

\* Extractors return values of the request, up to the limit.
Extraction == probe.fn = "extract" => ExtractsSome(probe.pairs, "n", probe.limit)

\* Lookups make an extractor each, in order, or fail as a whole.
Lookups == probe.fn = "lookup" => EachLookup(probe.lookups, probe.scheme)

\* Excluded paths are skipped with and without a trailing slash.
Skips == probe.fn = "skip" => SkipsBothForms(probe.exclude, probe.path)

\* Only tokens of the configured method and key are accepted.
TokenKeys ==
    probe.fn = "token" =>
      AcceptsOnlyConfigured([key |-> probe.key, keys |-> probe.keys, method |-> probe.method], probe.tok)

\* Router groups are found with their middlewares.
RouterGroups == probe.fn = "router" => GroupsFound(probe.groups)

\* The default cache driver is a registered one.
CacheDrivers == probe.fn = "manager" => DefaultUsable(probe.ops)

\* Dial options win in the order custom, configured, registry.
DialOptionsWin ==
    probe.fn = "dial" =>
      DialPriority([readable |-> probe.readable, items |-> probe.items, scheme |-> probe.scheme,
                    op |-> [kind |-> "builder", name |-> "polaris", global |-> FALSE, ok |-> probe.ok]],
                   probe.custom,
                   [namespace |-> "n", service |-> "s", metadata |-> (<<"", "route">> :> probe.route)])

\* A client's registry options arrive at its resolver.
TargetOptions ==
    probe.fn = "target" =>
      LET c == [scheme |-> IF probe.registry THEN "polaris" ELSE Unset, addr |-> "addr", ropts |-> probe.ropts]
      IN  /\ OptionsArrive(c, NoTarget)
          /\ OptionsArrive(c, [scheme |-> probe.scheme, host |-> probe.host, path |-> probe.path, query |-> probe.query])
          /\ NamesAgree(probe.host, "s")

\* The server's rate limiter and the balancer see what the call is sent with.
CallerLimits ==
    probe.fn = "call" =>
      LET o == convertDialOptions(probe.ropts)
      IN  ~o.err => CallerSeen(o, [deadline |-> probe.deadline, md |-> probe.md], probe.policies,
                               [policy |-> "c", hashKey |-> Unset])

\* Registries, resolvers and balancers share the right SDK contexts.
DriverContexts == probe.fn = "driver" => ContextsShared(probe.ops)

\* HTTP clients send the token as configured, over the configured transport,
\* from the source that was set.
ClientAssembly ==
    probe.fn = "http" =>
      LET cfg == [basic |-> probe.basic, tls |-> probe.tls, oauth |-> probe.oauth, storeKey |-> probe.storeKey,
                  auth |-> probe.auth, base |-> NoBase, ts |-> NoSource, storage |-> "unstored", err |-> FALSE,
                  client |-> <<>>]
      IN  /\ TokenHeader(cfg, probe.options) /\ TransportUsed(cfg, probe.options)
          /\ \A ops \in Strings({"set", "client", "token"}, 2) : SourceStays(cfg, probe.options, ops)

\* Calls are authenticated and their panics logged, in any chain of interceptors.
InterceptorChain ==
    probe.fn = "rpc" =>
      LET call == [stream |-> probe.stream, method |-> probe.method, tokens |-> probe.tokens, handler |-> probe.handler]
          options == [scheme |-> probe.scheme, exclude |-> {"n"}]
      IN  Authenticated(probe.chain, call, options) /\ PanicLogged(probe.chain, call, options)

\* Components log where they should after any change of loggers.
ComponentLoggers == probe.fn = "components" => ComponentsFollow(probe.ops, 0)

\* Loggers with a context log with their own context.
ContextLoggers == probe.fn = "pool" => HandlesSeparate(probe.ops)

\* The first configuration of a process decides encoder and rotation.
LogBuilds == probe.fn = "build" => FirstDecides(probe.cfgs)

\* The Writer logs every line once.
WriterLines ==
    probe.fn = "writer" =>
      LET cut == IF probe.cut < Len(probe.text) THEN probe.cut ELSE Len(probe.text)
      IN  LinesLogged(IF cut = 0 THEN <<probe.text>>
                      ELSE <<SubSeq(probe.text, 1, cut), SubSeq(probe.text, cut + 1, Len(probe.text))>>)

\* GraphQL servers are bound to groups in order.
GraphqlGroups == probe.fn = "groups" => BoundInOrder(probe.groups, probe.servers)

\* GraphQL operations of a connection are authorized, masked, answered afresh
\* until one panics, and logged.
GraphqlOperations ==
    probe.fn = "operations" =>
      LET srv == [operation |-> probe.operation, response |-> probe.response, authorization |-> probe.authorization,
                  policy |-> [f \in {"a", "b"} |-> IF f = "a" THEN "allow" ELSE probe.b], logger |-> TRUE,
                  public |-> ApplyGroups(probe.msgs)]
          conn == NewConn(probe.transports, TRUE)
      IN  /\ OnlyAllowedRuns(srv, conn, probe.ops) /\ MessageMasks(srv, probe.msgs, conn, probe.ops)
          /\ AnsweredAfresh(srv, conn, probe.ops) /\ StreamLogged(srv, conn, probe.ops)

\* Calendars and wildcards match exactly what they say, except in months that
\* a change of clocks shortens: those are read without their last day.
Matching ==
    /\ DayRanges
    /\ TimeRanges
    /\ NamedRanges
    /\ PolicyMatch

\* What the default and the token signer signed verifies in its interval, what
\* was altered does not; without a body, sha1 does not verify.  Exempt are
\* what Verifiable leaves out (hmac, values that do not travel) and, for the
\* token signer, values that hold its delimiter.
Signing ==
    /\ SignRoundTrip
    /\ SignBodiless
    /\ SignText
    /\ SignTamper

\* Every entry is logged once, where its component, context and configuration say,
\* in a form that can be read back.
Logging ==
    /\ LogLines
    /\ LogArrays
    /\ LogNumbers
    /\ ComponentLoggers
    /\ ContextLoggers
    /\ LogBuilds
    /\ WriterLines

\* Settings are read in their order, and what is set up from them - extractors,
\* skippers, keys, groups, caches - is what was set.
Settings ==
    /\ ConfigOrder
    /\ ConfigReload
    /\ ConfigSub
    /\ Extraction
    /\ Lookups
    /\ Skips
    /\ TokenKeys
    /\ RouterGroups
    /\ CacheDrivers
    /\ LocalTTL

\* Clients are put together by the precedence of their options, and what they are
\* given arrives at resolver, balancer, rate limiter and transport.
Dialling ==
    /\ DialOptionsWin
    /\ TargetOptions
    /\ CallerLimits
    /\ DriverContexts
    /\ ClientAssembly

=============================================================================
