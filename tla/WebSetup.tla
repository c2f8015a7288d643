------------------------------ MODULE WebSetup ------------------------------
(* How a web server is set up from its configuration: the extractors and    *)
(* path skippers of the middlewares, the jwt options, the router with its   *)
(* handler manager, and the cache drivers the middlewares look up.          *)
EXTENDS Integers, Sequences, SequencesExt, FiniteSets

Failure == <<"error">>

(* extractor.go.  A lookup is [src, name, cut]: cut is the third part of    *)
(* "header:<name>:<cut>", if there is one.  Sources it does not know are    *)
(* dropped.                                                                 *)
Sources == {"query", "param", "cookie", "form", "header"}

HeaderPrefix(l, scheme) ==
    IF l.cut # "" THEN l.cut
    ELSE IF scheme # "" /\ l.name = "Authorization" THEN scheme ELSE ""
NoExtractor == <<[src |-> "error", name |-> "", prefix |-> ""]>>
CreateExtractors(lookups, scheme) ==
    IF lookups = <<>> THEN <<>>
    ELSE IF \E i \in DOMAIN lookups : lookups[i].name = "" THEN NoExtractor
    ELSE LET known == SelectSeq(lookups, LAMBDA l : l.src \in Sources)
         IN  IF known = <<>> THEN NoExtractor
             ELSE [i \in DOMAIN known |->
                     [src |-> known[i].src, name |-> known[i].name,
                      prefix |-> IF known[i].src = "header" THEN HeaderPrefix(known[i], scheme) ELSE ""]]

(* The values an extractor returns, at most limit of them.  Params and      *)
(* cookies are counted with those of other names.                           *)
FirstN(vals, limit) == SubSeq(vals, 1, IF Len(vals) < limit THEN Len(vals) ELSE limit)
ValuesFromQuery(vals, limit) == IF vals = <<>> THEN Failure ELSE FirstN(vals, limit)
ValuesFromForm(vals, limit) == IF vals = <<>> THEN Failure ELSE FirstN(vals, limit)

UpToLimit(pairs, name, limit) ==
    LET named == {i \in DOMAIN pairs : pairs[i].name = name}
        kept == {i \in named : \A j \in named : j < i => j < limit}
        picked == SelectSeq([i \in DOMAIN pairs |-> <<i, pairs[i].val>>], LAMBDA p : p[1] \in kept)
    IN  IF named = {} THEN Failure ELSE [i \in DOMAIN picked |-> picked[i][2]]
ValuesFromParam(pairs, name, limit) == UpToLimit(pairs, name, limit)
ValuesFromCookie(pairs, name, limit) == UpToLimit(pairs, name, limit)

(* Every extractor returns an error, or a non-empty start of the values     *)
(* that the request has, no longer than the limit.                          *)
ExtractsSome(pairs, name, limit) ==
    LET all == LET own == SelectSeq(pairs, LAMBDA p : p.name = name)
               IN  [i \in DOMAIN own |-> own[i].val]
    IN  \A got \in {ValuesFromQuery(all, limit), ValuesFromForm(all, limit),
                    ValuesFromParam(pairs, name, limit), ValuesFromCookie(pairs, name, limit)} :
           IF all = <<>> THEN got = Failure
           ELSE Len(got) \in 1..limit /\ IsPrefix(got, all)

(* The extractors are those of the known sources, in the order of the       *)
(* lookups; the prefix cut from a header is the one given with the lookup,  *)
(* or the scheme for Authorization alone; no extractor is an error.         *)
EachLookup(lookups, scheme) ==
    LET got == CreateExtractors(lookups, scheme)
    IN  got # NoExtractor =>
          /\ lookups # <<>> => got # <<>>
          /\ \A i, j \in DOMAIN lookups : i < j /\ {lookups[i].src, lookups[j].src} \subseteq Sources =>
               \E a, b \in DOMAIN got : a < b /\ got[a].name = lookups[i].name /\ got[b].name = lookups[j].name
          /\ \A a \in DOMAIN got : got[a].prefix = scheme /\ scheme # "" =>
               got[a].src = "header" /\ got[a].name = "Authorization"

-----------------------------------------------------------------------------
(* middleware.go: a path is the sequence of its characters.                 *)
TrimRight(path) ==
    LET keep == {i \in DOMAIN path : path[i] # "/"}
    IN  IF keep = {} THEN <<>> ELSE SubSeq(path, 1, CHOOSE i \in keep : \A j \in keep : j <= i)

PathSkip(pm, path) ==
    LET src == TrimRight(path)
    IN  (IF src = <<>> \/ src[1] # "/" THEN <<"/">> \o src ELSE src) \in pm
StringsToMap(list) == {list[i] : i \in DOMAIN list}
PathSkipper(exclude, path) == exclude # <<>> /\ PathSkip(StringsToMap(exclude), path)

(* A path is excluded with and without a "/" at its end, when Exclude names *)
(* it without one.                                                          *)
SkipsBothForms(exclude, path) ==
    LET bare == TrimRight(path)
    IN  path # <<>> /\ path[1] = "/" =>
          /\ PathSkipper(exclude, path) = PathSkipper(exclude, path \o <<"/">>)
          /\ PathSkipper(exclude, path) <=> (IF bare = <<>> THEN <<"/">> ELSE bare) \in StringsToMap(exclude)

-----------------------------------------------------------------------------
(* auth/jwt.go.  A token is [alg, kid, key]: the key that signed it.  The   *)
(* methods of golang-jwt are external: RS needs an rsa key, ES and PS refuse*)
(* the bytes that ParseSigningKeyFromString makes of their keys.            *)
ParseSigningKeyFromString(key, method) ==
    IF method \in {"RS256", "HS256", "ES256", "PS256"} /\ (method = "RS256" => key \in {"rsa"})
    THEN <<method, key>> ELSE Failure
JWTInit(opts) ==
    IF opts.key = "" /\ opts.keys = {} THEN Failure
    ELSE IF opts.key = "" THEN <<"ok", <<>>>>
    ELSE LET k == ParseSigningKeyFromString(opts.key, opts.method)
         IN  IF k = Failure THEN Failure ELSE <<"ok", k>>

(* opts.keys is a set of pairs <<kid, key>>.                                *)
defaultKeyFunc(opts, t) ==
    IF t.alg # opts.method THEN {}
    ELSE IF opts.keys # {} THEN {p[2] : p \in {q \in opts.keys : q[1] = t.kid}}
    ELSE {opts.key}
defaultParseToken(opts, t) ==
    \E key \in defaultKeyFunc(opts, t) : key = t.key /\ t.alg \notin {"ES256", "PS256"}

(* A token is accepted only if it was signed with the configured method and *)
(* with a configured key, the one its kid names when there are several.     *)
AcceptsOnlyConfigured(opts, t) ==
    JWTInit(opts) # Failure /\ defaultParseToken(opts, t) =>
        /\ t.alg = opts.method
        /\ opts.keys = {} => t.key = opts.key
        /\ opts.keys # {} => <<t.kid, t.key>> \in opts.keys

-----------------------------------------------------------------------------
(* handler_mgr.go and router.go.  A manager is the names that have a new    *)
(* function and the keys of the middlewares made; a group of the            *)
(* configuration is [name, basePath, middlewares].                          *)
Integration == {"recovery", "jwt", "accessLog", "errorHandle", "gzip", "keyAuth", "cors"}
Register(mgr, name) == [mgr EXCEPT !.newFuncs = @ \cup {name}]
GetMiddlewareKey(group, name) == <<IF group = "/" THEN "default" ELSE group, name>>

RegisterMiddleware(mgr, key) ==
    IF key \in mgr.middlewares THEN [mgr EXCEPT !.panics = TRUE]
    ELSE [mgr EXCEPT !.middlewares = @ \cup {key}]
Shutdown(mgr) == [mgr EXCEPT !.middlewares = {}]
NewHandlerManager == [newFuncs |-> Integration, middlewares |-> {}, panics |-> FALSE]

BasePath(g) == IF g.name = "default" /\ g.basePath = "" THEN "/" ELSE g.basePath
(* The base path of the gin group, which is "/" for an empty one too.       *)
GinPath(g) == IF g.name = "default" \/ g.basePath = "" THEN "/" ELSE g.basePath
Known(mgr, g) == SelectSeq(g.middlewares, LAMBDA n : n \in mgr.newFuncs)
(* One group: a middleware no new function is known for is left out without *)
(* a word, and the error of a group without a base path is not returned.    *)
(* The default group is the engine itself, and gin copies to every other    *)
(* group, as it is made, the handlers that the engine has by then.          *)
ApplyGroup(router, g) ==
    LET names == Known(router.mgr, g)
    IN  [mgr    |-> FoldLeft(LAMBDA m, n : RegisterMiddleware(m, GetMiddlewareKey(GinPath(g), n)),
                             router.mgr, names),
         engine |-> IF g.name = "default" THEN router.engine \o names ELSE router.engine,
         groups |-> Append(router.groups, [basePath |-> BasePath(g), engine |-> g.name = "default",
                                           handlers |-> router.engine \o names])]
RouterApply(mgr, groups) == FoldLeft(ApplyGroup, [mgr |-> mgr, engine |-> <<>>, groups |-> <<>>], groups)
(* The handlers of the group that is found for a base path.                 *)
FindGroup(router, basePath) ==
    LET wanted == IF basePath = "" THEN "/" ELSE basePath
        found == {i \in DOMAIN router.groups : router.groups[i].basePath = wanted}
        first == router.groups[CHOOSE i \in found : \A j \in found : i <= j]
    IN  IF found = {} THEN <<>> ELSE IF first.engine THEN router.engine ELSE first.handlers

(* Unless the set-up panics, every group with a base path of its own is     *)
(* found by it and runs the middlewares configured for it, in their order,  *)
(* after those of the default groups that are listed before it and of no    *)
(* other; every one of these is registered under a key of its own.          *)
GroupsFound(groups) ==
    LET r == RouterApply(NewHandlerManager, groups)
        own(i) == Known(NewHandlerManager, groups[i])
        default(i) == groups[i].name = "default"
        before(n) == FlattenSeq([j \in 1..n |-> IF default(j) THEN own(j) ELSE <<>>])
        alone(i) == \A j \in DOMAIN groups : BasePath(groups[j]) = BasePath(groups[i]) => i = j
    IN  ~r.mgr.panics =>
          /\ \A i \in DOMAIN groups : BasePath(groups[i]) # "" /\ alone(i) =>
               FindGroup(r, BasePath(groups[i])) =
                 IF default(i) THEN before(Len(groups)) ELSE before(i - 1) \o own(i)
          /\ Cardinality(r.mgr.middlewares) =
               FoldLeft(LAMBDA n, g : n + Len(Known(NewHandlerManager, g)), 0, groups)
          /\ Shutdown(r.mgr).middlewares = {}

-----------------------------------------------------------------------------
(* cache/global.go: the drivers by name and the default one, "" when none.  *)
NewManager == [drivers |-> {}, default |-> ""]
SetDefault(m, name) == [m EXCEPT !.default = IF name \in m.drivers THEN name ELSE ""]

RegisterCache(m, name) ==
    IF name = "" \/ name \in m.drivers THEN m
    ELSE LET added == [m EXCEPT !.drivers = @ \cup {name}]
         IN  IF Cardinality(added.drivers) = 1 THEN SetDefault(added, name) ELSE added
UnRegisterCache(m, name) == [m EXCEPT !.drivers = @ \ {name}]
GetCache(m, name) == name \in m.drivers
ManagerOp(m, op) ==
    CASE op[1] = "register" -> RegisterCache(m, op[2])
      [] op[1] = "unregister" -> UnRegisterCache(m, op[2])
      [] op[1] = "default" -> SetDefault(m, op[2])

(* While nothing was unregistered, the default is a registered driver as    *)
(* soon as there is one, unless SetDefault was given an unknown name.       *)
DefaultUsable(ops) ==
    LET m == FoldLeft(ManagerOp, NewManager, ops)
        misnamed == \E i \in DOMAIN ops : ops[i][1] = "default" /\
                       ~GetCache(FoldLeft(ManagerOp, NewManager, SubSeq(ops, 1, i - 1)), ops[i][2])
    IN  m.drivers # {} /\ ~misnamed /\ (\A i \in DOMAIN ops : ops[i][1] # "unregister")
        => GetCache(m, m.default)
=============================================================================
