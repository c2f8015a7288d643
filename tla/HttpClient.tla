----------------------------- MODULE HttpClient -----------------------------
(***************************************************************************)
(* pkg/httpx/client.go and option.go: how an http.Client is made from its  *)
(* configuration.  A transport is the sequence of its round trippers, the  *)
(* outermost first; a round tripper is <<kind, value>>.  A configuration   *)
(* is [basic, tls, oauth, storeKey, auth, base, ts, storage, err].         *)
(***************************************************************************)
EXTENDS Sequences, SequencesExt

NoBase == <<>>
Default == <<"transport", "default">>     \* http.DefaultTransport
NewTransport(cfg) == <<<<"transport", IF cfg.tls THEN "tls" ELSE "plain">>>>
chain(base, middlewares) == Reverse(middlewares) \o (IF base = NoBase THEN <<Default>> ELSE base)

(* Validate: the header's name and prefix have a default together.         *)
NoAuth == [name |-> "none", prefix |-> ""]
Bearer == [name |-> "Authorization", prefix |-> "Bearer"]
ValidateClient(cfg) == [cfg EXCEPT !.auth = IF @.name = "" THEN Bearer ELSE @]

(* The options: a base transport, a middleware, a token source or storage. *)
(* A source or storage without OAuth2 configuration panics.                *)
Option(cfg, o) ==
    CASE o = "base" -> [cfg EXCEPT !.base = <<<<"transport", "given">>>>]
      [] o = "middleware" -> [cfg EXCEPT !.base = chain(@, <<<<"middleware", "m">>>>)]
      [] o = "source" /\ cfg.oauth -> [cfg EXCEPT !.ts = <<"given", "unstored">>]
      [] o = "storage" /\ cfg.oauth -> [cfg EXCEPT !.storage = "given"]
      [] OTHER -> [cfg EXCEPT !.err = TRUE]

(* NewClientConfig: basic authentication wraps what the options gave, and  *)
(* the cache of the store key replaces a storage they gave.                *)
NewClientConfig(cfg, options) ==
    LET c == FoldLeft(Option, ValidateClient(cfg), options)
        b == IF c.basic THEN [c EXCEPT !.base = chain(@, <<<<"basic", "user">>>>)] ELSE c
    IN  IF b.oauth /\ b.storeKey THEN [b EXCEPT !.storage = "cache"] ELSE b

(* A token source is <<base source, storage>>.                             *)
NoSource == <<"none", "unstored">>
DefaultTokenSource(cfg) == IF cfg.ts # NoSource THEN cfg.ts ELSE <<"grant", cfg.storage>>
SetTokenSource(cfg, ts) == [cfg EXCEPT !.ts = <<ts, cfg.storage>>]

(* NewClient, and Client with a token, which becomes the source if there   *)
(* is none.  useCustomAuth: another header or prefix than the standard.    *)
useCustomAuth(auth) ==
    auth # NoAuth /\ ((auth.name \notin {"", "Authorization"}) \/ (auth.prefix \notin {"", "Bearer"}))
NewHttpClient(cfg) ==
    LET based == IF cfg.base = NoBase THEN [cfg EXCEPT !.base = NewTransport(cfg)] ELSE cfg
        c == IF cfg.oauth THEN [based EXCEPT !.ts = DefaultTokenSource(based)] ELSE based
        oauth == <<"oauth2", IF useCustomAuth(c.auth) THEN c.auth ELSE Bearer>>
    IN  [c EXCEPT !.client = IF c.oauth THEN <<oauth>> \o c.base ELSE c.base]
ClientWithToken(cfg) ==
    NewHttpClient(IF cfg.ts = NoSource THEN [cfg EXCEPT !.ts = <<"token", "unstored">>] ELSE cfg)

(* What a request carries when it leaves: a round tripper sets its header  *)
(* over what those outside it set.                                         *)
Sent(transport) ==
    FoldLeft(LAMBDA h, rt : CASE rt[1] = "basic" -> [h EXCEPT !["Authorization"] = "Basic"]
                              [] rt[1] = "oauth2" -> [h EXCEPT ![rt[2].name] = IF rt[2].prefix = "" THEN "raw" ELSE rt[2].prefix]
                              [] OTHER -> h,
             [n \in {"Authorization", "X"} |-> "none"], transport)

-----------------------------------------------------------------------------
(* The token leaves under the configured name and prefix, with two         *)
(* exceptions: the default header cannot go without "Bearer", and basic    *)
(* authentication takes the Authorization header from the token.           *)
TokenHeader(cfg, options) ==
    LET c == NewHttpClient(NewClientConfig(cfg, options))
        auth == c.auth
    IN  c.oauth =>
          IF auth \in {NoAuth, Bearer} \/ auth = [name |-> "Authorization", prefix |-> ""]
          THEN Sent(c.client)["Authorization"] = IF c.basic THEN "Basic" ELSE "Bearer"
          ELSE Sent(c.client)[auth.name] = (IF auth.name = "Authorization" /\ c.basic THEN "Basic"
                                            ELSE IF auth.prefix = "" THEN "raw" ELSE auth.prefix)

(* Requests use the transport that TLS and proxy configure, unless a base  *)
(* transport is given; basic authentication and middlewares without one    *)
(* fall back to the default transport, without the configured TLS.         *)
TransportUsed(cfg, options) ==
    LET inner == Last(NewHttpClient(NewClientConfig(cfg, options)).client)
        given == {i \in DOMAIN options : options[i] = "base"}
        wrapped == cfg.basic \/ \E i \in DOMAIN options : options[i] = "middleware"
    IN  inner[2] = IF given # {} THEN "given" ELSE IF wrapped THEN "default" ELSE IF cfg.tls THEN "tls" ELSE "plain"

(* The source of the tokens is the one set last, else the first that a     *)
(* client needed: a token handed to a later client is not used.  A source  *)
(* set or made uses the storage there was; one given as an option does not.*)
SourceStays(cfg, options, ops) ==
    LET c0 == NewClientConfig(cfg, options)
        step(c, o) == CASE o = "set" -> SetTokenSource(c, "set")
                        [] o = "client" -> NewHttpClient(c)
                        [] o = "token" -> ClientWithToken(c)
        after == FoldLeft(step, c0, ops)
        sets == {i \in DOMAIN ops : ops[i] = "set"}
    IN  cfg.oauth /\ ~c0.err /\ ops # <<>> =>
          after.ts = IF sets # {} THEN <<"set", c0.storage>>
                     ELSE IF c0.ts # NoSource THEN <<"given", "unstored">>
                     ELSE IF ops[1] = "client" THEN <<"grant", c0.storage>> ELSE <<"token", "unstored">>
=============================================================================
