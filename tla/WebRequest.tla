----------------------------- MODULE WebRequest -----------------------------
(***************************************************************************)
(* Requests on their way through the middlewares of web/handler: recovery, *)
(* accessLog, errorHandle, gzip, jwt, keyAuth, sign, csrf and authz, in    *)
(* the order a route configures them, around the application's handler.    *)
(* A middleware that calls c.Next is left again on the way out; a panic    *)
(* unwinds to the deferred calls only (recovery and gzip).                 *)
(*                                                                         *)
(* What gin does is external: Abort ends the way in, c.Error records an    *)
(* error of type private, AbortWithStatus also sends the header, and a     *)
(* header that is sent no longer changes.  The tokens, the keys and what   *)
(* the handler does are inputs.                                            *)
(***************************************************************************)
EXTENDS SignReplay, Sequences, FiniteSetsExt, TLC

CONSTANTS Routes,   \* [chain, acts]: the middlewares in their order, and
                    \* what the handlers behind them do
          Writer,   \* the response writers of gzip's pool
          Token,    \* the jwt tokens that parse
          NoToken,  \* no token
          Clears    \* whether an ErrorHandler of jwt drops the error

VARIABLES route,    \* the route of the requests
          ctx,      \* ctx[r]: the gin.Context of r
          resp,     \* resp[r]: what r's connection was given
          gw,       \* gw[w]: a gzip.ResponseWriter
          pool,     \* the writers in gwPool
          tokens    \* the tokenStore of jwt

chain == route.chain
webVars == <<route, ctx, resp, gw, pool, tokens>>
vars == <<webVars, signVars>>

Direct == "direct"
Wrapping == {"recovery", "accessLog", "errorHandle", "gzip"}  \* call c.Next
Deferring == {"recovery", "gzip"}                             \* in a defer
Guards == {"jwt", "keyAuth", "sign", "csrf", "authz"}

(* Errors have a type, of gin or a code ("odd", with the bit of private    *)
(* set; "known", one that errorHandle has a message for), and a text       *)
(* (errorHandle has a message for "mapped").  Acts: see Handler.           *)
Types == {"private", "public", "odd", "known"}
Texts == {"own", "mapped", "token", "key", "signature", "replayed", "csrf", "authz", "panic",
          "format"}
Errors == Seq([type : Types, text : Texts])
Acts == [size : {"none", "small", "large"}, errors : Errors, fields : SUBSET {"error", "panic"},
         dir : {"out", "panic"}]

(* gin runs the handler after all middlewares of its route.                *)
ASSUME RouteAssumption ==
    \A rt \in Routes :
        /\ rt.chain \in Seq(Wrapping \cup Guards \cup {"handler"}) /\ rt.chain # <<>>
        /\ \A i \in DOMAIN rt.chain : rt.chain[i] = "handler" <=> i = Len(rt.chain)
        /\ rt.acts \subseteq Acts
ASSUME NamesAssumption ==
    Direct \notin Writer /\ NoSig \notin Request /\ NoToken \notin Token /\ Clears \subseteq BOOLEAN

NewContext ==
    [dir |-> "idle", at |-> 0, excluded |-> FALSE, writer |-> Direct, carrier |-> FALSE,
     fields |-> {}, errors |-> <<>>, late |-> FALSE, passed |-> {}, silent |-> FALSE,
     principal |-> NoToken, live |-> {}, paniced |-> FALSE, ran |-> FALSE, log |-> "none"]
NewResponse ==
    [status |-> 200, sent |-> FALSE, hdr |-> {}, wire |-> {}, bare |-> FALSE, body |-> <<>>,
     closed |-> TRUE]

Init ==
    /\ SignInit
    /\ route \in Routes
    /\ ctx = [r \in Request |-> NewContext]
    /\ resp = [r \in Request |-> NewResponse]
    /\ gw = [w \in Writer |-> [target |-> NoSig, open |-> FALSE, useZip |-> FALSE]]
    /\ pool = {} /\ tokens = Token

-----------------------------------------------------------------------------
(* gin: the header, the body and the errors of a request.                  *)
Target(r) == IF ctx[r].writer = Direct THEN r ELSE gw[ctx[r].writer].target

WriteHeaderNow(rs, q) ==
    IF rs[q].sent THEN rs
    ELSE [rs EXCEPT ![q].sent = TRUE, ![q].wire = rs[q].hdr, ![q].bare = TRUE]
Status(rs, q, code) == IF rs[q].sent THEN rs ELSE [rs EXCEPT ![q].status = code]
Emit(rs, q, chunk) ==
    [rs EXCEPT ![q].sent = TRUE, ![q].wire = IF rs[q].sent THEN @ ELSE rs[q].hdr,
               ![q].body = Append(@, chunk)]

Error(k, e) == [k EXCEPT !.errors = Append(@, e)]
Private(text) == [type |-> "private", text |-> text]

(* The next middleware that is left on the way out, or that a panic meets. *)
Out(k, dir) ==
    LET J == {j \in 1..(k.at - 1) : chain[j] \in IF dir = "panic" THEN Deferring ELSE Wrapping}
    IN  IF J = {} THEN [k EXCEPT !.dir = "done", !.at = 0]
        ELSE [k EXCEPT !.dir = dir, !.at = Max(J)]
Forward(k) == [k EXCEPT !.at = @ + 1]
Passed(k, g) == [Forward(k) EXCEPT !.passed = @ \cup {g}]

(* c.AbortWithError of gin, and AbortWithError of errorhandle.go, which    *)
(* leaves the header to be sent later.                                     *)
GinAbort(r, k, code, errs) ==
    /\ ctx' = [ctx EXCEPT ![r] = Out([k EXCEPT !.errors = @ \o errs], "out")]
    /\ resp' = WriteHeaderNow(Status(resp, Target(r), code), Target(r))
AbortWithError(r, k, code, err) ==
    /\ ctx' = [ctx EXCEPT ![r] = Out(Error(k, err), "out")]
    /\ resp' = Status(resp, Target(r), code)

At(r, name) == ctx[r].dir = "in" /\ chain[ctx[r].at] = name
Leaving(r, name) == ctx[r].dir = "out" /\ chain[ctx[r].at] = name

(* PathSkip: the request's path, less its trailing "/", is one of Exclude. *)
Skipper(k) == k.excluded

-----------------------------------------------------------------------------

(* The pooled writer of gzip.  Each Write decides anew whether to compress;*)
(* the compressed bytes go to the connection gw was made for.              *)
Write(r, rs, size, chunk) ==
    LET w == ctx[r].writer
        q == Target(r)
    IN  IF w = Direct THEN [rs |-> Emit(rs, q, chunk), gw |-> gw, ok |-> TRUE]
        ELSE IF size = "small"
        THEN [rs |-> Emit(rs, q, chunk), gw |-> [gw EXCEPT ![w].useZip = FALSE], ok |-> TRUE]
        ELSE [rs |-> IF gw[w].open
                     THEN Emit([rs EXCEPT ![q].hdr = @ \cup {"gzip"}, ![q].closed = FALSE], q,
                               [chunk EXCEPT !.kind = "zip"])
                     ELSE [rs EXCEPT ![q].hdr = @ \cup {"gzip"}],
              gw |-> [gw EXCEPT ![w].useZip = TRUE], ok |-> gw[w].open]

\* Mutant: the writer is in the pool again at once.
MutantGzipEnter(r) ==
    /\ At(r, "gzip")
    /\ \E w \in Writer :
         /\ w \in pool \/ \A q \in Request : ctx[q].writer # w
         /\ gw' = [gw EXCEPT ![w] = [@ EXCEPT !.target = r, !.open = TRUE]]
         /\ pool' = pool \cup {w}
         /\ ctx' = [ctx EXCEPT ![r] = [Forward(@) EXCEPT !.writer = w]]
    /\ UNCHANGED <<route, resp, tokens, signVars>>

(* shouldCompress, then a writer of the pool, or a new one: minSize, the   *)
(* target and the compressor are set, useZip is as it was left.            *)
GzipEnter(r) ==
    /\ At(r, "gzip")
    /\ \/ /\ ctx' = [ctx EXCEPT ![r] = Forward(@)] /\ UNCHANGED <<gw, pool>>
       \/ \E w \in Writer :
            /\ w \in pool \/ \A q \in Request : ctx[q].writer # w
            /\ gw' = [gw EXCEPT ![w] = [@ EXCEPT !.target = r, !.open = TRUE]]
            /\ pool' = pool \ {w}
            /\ ctx' = [ctx EXCEPT ![r] = [Forward(@) EXCEPT !.writer = w]]
    /\ UNCHANGED <<route, resp, tokens, signVars>>

(* The deferred call: Close ends the compressed stream if the last Write   *)
(* compressed, and c.Writer stays the writer that goes back to the pool.   *)
GzipLeave(r) ==
    LET w == ctx[r].writer
        q == Target(r)
        frame == [from |-> r, kind |-> "frame", shows |-> {}]
    IN  /\ ctx[r].dir \in {"out", "panic"} /\ chain[ctx[r].at] = "gzip"
        /\ ctx' = [ctx EXCEPT ![r] = Out(@, @.dir)]
        /\ IF w = Direct THEN UNCHANGED <<resp, gw, pool>>
           ELSE /\ gw' = [gw EXCEPT ![w].open = FALSE]
                /\ pool' = pool \cup {w}
                /\ resp' = IF ~gw[w].useZip THEN resp
                           ELSE IF resp[q].closed THEN Emit(resp, q, frame)
                           ELSE [resp EXCEPT ![q].closed = TRUE]
        /\ UNCHANGED <<route, tokens, signVars>>

-----------------------------------------------------------------------------
(* errorHandle                                                             *)
LookupErrorCode(code, err) ==
    IF code = "known" \/ err.text = "mapped" THEN {"customer"} ELSE {}
FormatResponseError(code, err, public) ==
    LET found == LookupErrorCode(code, err)
    IN  IF found # {} THEN found ELSE IF public # {} THEN public ELSE {err.text}

\* Mutant: an error is formatted without the Message.
MutantParserMessage(k, status) ==
    [code  |-> IF status = 200 THEN 500 ELSE status,
     shows |-> UNION {FormatResponseError(k.errors[i].type, k.errors[i], {}) : i \in DOMAIN k.errors}]

(* DefaultErrorParser with a Message, which masks all but public errors.   *)
DefaultErrorParser(k, status) ==
    [code  |-> IF status = 200 THEN 500 ELSE status,
     shows |-> UNION {FormatResponseError(k.errors[i].type, k.errors[i],
                          IF k.errors[i].type = "public" THEN {} ELSE {"message"}) :
                      i \in DOMAIN k.errors}]

(* NegotiateResponse: the status of the response if it is set, or the      *)
(* parser's; 406 when no format the client accepts is offered.             *)
NegotiateResponse(r, code, shows) ==
    LET k == ctx[r]
        q == Target(r)
        status == IF resp[q].sent \/ resp[q].status # 200 THEN resp[q].status ELSE code
        none == Private("format")
    IN  \/ \E size \in {"small", "large"} :
             LET rs == [Status(resp, q, status) EXCEPT ![q].hdr = @ \cup {"json"}]
                 w  == Write(r, rs, size, [from |-> r, kind |-> "plain", shows |-> shows])
             IN  /\ resp' = w.rs /\ gw' = w.gw
                 /\ ctx' = [ctx EXCEPT ![r] = Out(k, IF w.ok THEN "out" ELSE "panic")]
       \/ /\ gw' = gw
          /\ IF resp[q].sent
             THEN ctx' = [ctx EXCEPT ![r] = Out(Error(k, none), "out")] /\ UNCHANGED resp
             ELSE GinAbort(r, k, 406, <<none>>)

\* Mutant: a request without errors is not left.
MutantErrorHandleLeave(r) ==
    LET parsed == DefaultErrorParser(ctx[r], resp[Target(r)].status)
    IN  /\ Leaving(r, "errorHandle") /\ ctx[r].errors # <<>>
        /\ NegotiateResponse(r, parsed.code, parsed.shows)
        /\ UNCHANGED <<route, pool, tokens, signVars>>

ErrorHandleLeave(r) ==
    LET k == ctx[r]
        parsed == DefaultErrorParser(k, resp[Target(r)].status)
    IN  /\ Leaving(r, "errorHandle")
        /\ IF k.errors = <<>>
           THEN ctx' = [ctx EXCEPT ![r] = Out(k, "out")] /\ UNCHANGED <<resp, gw>>
           ELSE NegotiateResponse(r, parsed.code, parsed.shows)
        /\ UNCHANGED <<route, pool, tokens, signVars>>

(* recovery: the error of the panic, or ErrRecovery; the log entry goes to *)
(* the carrier of accessLog when there is one.                             *)
HandleRecoverError(r) ==
    LET k == ctx[r]
        e == Private("panic")
        logged == IF k.carrier THEN [k EXCEPT !.fields = @ \cup {"panic"}]
                  ELSE [k EXCEPT !.log = "error"]
    IN  /\ k.dir = "panic" /\ chain[k.at] = "recovery"
        /\ AbortWithError(r, logged, 500, e)
        /\ UNCHANGED <<route, gw, pool, tokens, signVars>>

(* accessLog: with Exclude, a path of it is not logged unless it failed.   *)
IsType(e, flag) == e.type = flag \/ (flag = "private" /\ e.type = "odd")

\* Mutant: an excluded path is not logged though it failed.
MutantAccessLogLeave(r) ==
    LET k == ctx[r]
        private == \E i \in DOMAIN k.errors : IsType(k.errors[i], "private")
    IN  /\ Leaving(r, "accessLog")
        /\ ctx' = [ctx EXCEPT ![r] =
              Out([k EXCEPT !.log = IF Skipper(k) THEN @ ELSE IF private THEN "error" ELSE "info"], "out")]
        /\ UNCHANGED <<route, resp, gw, pool, tokens, signVars>>

AccessLogLeave(r) ==
    LET k == ctx[r]
        skip == Skipper(k) /\ k.errors = <<>>
        private == \E i \in DOMAIN k.errors : IsType(k.errors[i], "private")
    IN  /\ Leaving(r, "accessLog")
        /\ ctx' = [ctx EXCEPT ![r] =
              Out([k EXCEPT !.log = IF skip THEN @
                                    ELSE IF private \/ "error" \in k.fields THEN "error" ELSE "info"],
                  "out")]
        /\ UNCHANGED <<route, resp, gw, pool, tokens, signVars>>

(* The way in of the middlewares that only call c.Next; accessLog puts a   *)
(* carrier in the context first.                                           *)
Enter(r) ==
    /\ \E m \in {"recovery", "accessLog", "errorHandle"} : At(r, m)
    /\ ctx' = [ctx EXCEPT ![r] = [Forward(ctx[r]) EXCEPT
                  !.carrier = @ \/ chain[ctx[r].at] = "accessLog"]]
    /\ UNCHANGED <<route, resp, gw, pool, tokens, signVars>>
RecoveryLeave(r) ==
    /\ Leaving(r, "recovery")
    /\ ctx' = [ctx EXCEPT ![r] = Out(@, "out")]
    /\ UNCHANGED <<route, resp, gw, pool, tokens, signVars>>

-----------------------------------------------------------------------------

\* Mutant: the store is not asked for a token that parses.
MutantHandleToken(t) == CASE t = "bad" -> "error" [] t = "nojti" -> "panic" [] OTHER -> "ok"

(* jwt.  HandleToken: a value that does not parse or whose token is not in *)
(* the store is an error; a token without a jti panics in GetTokenIDFunc.  *)
HandleToken(t) ==
    CASE t = "bad" -> "error"
      [] t = "nojti" -> "panic"
      [] OTHER -> IF t \in tokens THEN "ok" ELSE "error"

(* The values the extractors find, in their order; "missing" is that of an *)
(* extractor that found none.  The first that is no error decides.         *)
JWT(r) ==
    LET k == ctx[r]
    IN  /\ At(r, "jwt")
        /\ IF Skipper(k)
           THEN ctx' = [ctx EXCEPT ![r] = Forward(k)] /\ UNCHANGED resp
           ELSE \E auths \in {"missing", "bad"} \X (Token \cup {"missing", "nojti"}) :
                  LET hits == {i \in {1, 2} :
                                 auths[i] # "missing" /\ HandleToken(auths[i]) # "error"}
                      t == auths[Min(hits)]
                  IN  IF hits = {}
                      THEN \E cleared \in Clears :
                             IF cleared
                             THEN ctx' = [ctx EXCEPT ![r] = [Forward(k) EXCEPT !.silent = TRUE]]
                                  /\ UNCHANGED resp
                             ELSE GinAbort(r, k, 401, <<Private("token")>>)
                      ELSE /\ ctx' = [ctx EXCEPT ![r] =
                                IF HandleToken(t) = "panic"
                                THEN Out([k EXCEPT !.paniced = TRUE], "panic")
                                ELSE [Passed(k, "jwt") EXCEPT !.principal = t]]
                           /\ UNCHANGED resp
        /\ UNCHANGED <<route, gw, pool, tokens, signVars>>

(* keyAuth: the validator accepts, refuses or fails on each key.  Keys it  *)
(* only refuses leave no error, and the request goes on.                   *)
KeyAuth(r) ==
    LET k == ctx[r]
    IN  /\ At(r, "keyAuth")
        /\ IF Skipper(k)
           THEN ctx' = [ctx EXCEPT ![r] = Forward(k)] /\ UNCHANGED resp
           ELSE \E keys \in SUBSET {"accepted", "refused", "failed", "missing"} \ {{}} :
                  IF "accepted" \in keys
                  THEN ctx' = [ctx EXCEPT ![r] = Passed(k, "keyAuth")] /\ UNCHANGED resp
                  ELSE IF keys \cap {"failed", "missing"} = {}
                  THEN ctx' = [ctx EXCEPT ![r] = [Forward(k) EXCEPT !.silent = TRUE]]
                       /\ UNCHANGED resp
                  ELSE GinAbort(r, k, 401, <<Private("key")>>)
        /\ UNCHANGED <<route, gw, pool, tokens, signVars>>

\* Mutant: the time stamp of the signature is not looked at.
MutantSignVerify(r) ==
    /\ At(r, "sign") /\ pending[r] = None
    /\ \E s \in Sig : pending' = [pending EXCEPT ![r] = [sig |-> s, at |-> now]]
    /\ UNCHANGED <<route, ctx, resp, gw, pool, tokens, now, seen, accepted>>

(* sign, in two steps: the signature and the time stamp are checked, then  *)
(* the signature is stored.                                                *)
SignVerify(r) ==
    LET k == ctx[r]
    IN  /\ At(r, "sign") /\ pending[r] = None
        /\ \/ /\ Skipper(k)
              /\ ctx' = [ctx EXCEPT ![r] = Forward(k)] /\ UNCHANGED <<resp, signVars>>
           \/ /\ ~Skipper(k)
              /\ GinAbort(r, k, 401, <<Private("signature")>>) /\ UNCHANGED signVars
           \/ /\ ~Skipper(k)
              /\ \E s \in Sig : Check(r, s)
              /\ UNCHANGED <<ctx, resp>>
        /\ UNCHANGED <<route, gw, pool, tokens>>

signatureValidate(r) ==
    LET k == ctx[r]
    IN  /\ At(r, "sign") /\ SetNX(r)
        /\ IF accepted'[r] # NoSig
           THEN ctx' = [ctx EXCEPT ![r] = Passed(k, "sign")] /\ UNCHANGED resp
           ELSE GinAbort(r, k, 401, <<Private("replayed")>>)
        /\ UNCHANGED <<route, gw, pool, tokens>>

(* csrf and authz: let through, refused with an error (403), or, by authz  *)
(* alone, refused without one.                                             *)
Csrf(r) ==
    /\ At(r, "csrf")
    /\ \/ /\ ctx' = [ctx EXCEPT ![r] = IF Skipper(@) THEN Forward(@) ELSE Passed(@, "csrf")]
          /\ UNCHANGED resp
       \/ ~Skipper(ctx[r]) /\ GinAbort(r, ctx[r], 403, <<Private("csrf")>>)
    /\ UNCHANGED <<route, gw, pool, tokens, signVars>>
Authz(r) ==
    /\ At(r, "authz")
    /\ \/ ctx' = [ctx EXCEPT ![r] = Passed(@, "authz")] /\ UNCHANGED resp
       \/ GinAbort(r, ctx[r], 403, <<Private("authz")>>)
       \/ GinAbort(r, ctx[r], 403, <<>>)
    /\ UNCHANGED <<route, gw, pool, tokens, signVars>>

-----------------------------------------------------------------------------
(* The application's handler: it may write, report an error (c.Error,      *)
(* SetContextError with a code), attach a field to the log, panic, or log  *)
(* the token's owner out (LogoutHandler).  What it does is an act: the     *)
(* size it writes, the errors and the log fields it adds, how it ends.     *)
Handler(r) ==
    LET k == [ctx[r] EXCEPT !.ran = TRUE]
        chunk == [from |-> r, kind |-> "plain", shows |-> {}]
    IN  /\ At(r, "handler")
        /\ \E act \in route.acts :
             LET w == IF act.size = "none" THEN [rs |-> resp, gw |-> gw, ok |-> TRUE]
                      ELSE Write(r, resp, act.size, chunk)
             IN  /\ resp' = w.rs /\ gw' = w.gw
                 /\ ctx' = [ctx EXCEPT ![r] =
                       Out([k EXCEPT !.errors = @ \o act.errors, !.late = w.rs[Target(r)].sent,
                                     !.paniced = act.dir = "panic" \/ ~w.ok,
                                     !.fields = IF k.carrier THEN @ \cup act.fields ELSE @],
                           IF w.ok THEN act.dir ELSE "panic")]
        /\ UNCHANGED <<route, pool, tokens, signVars>>
LogoutHandler(r) ==
    /\ At(r, "handler") /\ ctx[r].principal # NoToken
    /\ tokens' = tokens \ {ctx[r].principal}
    /\ ctx' = [ctx EXCEPT ![r] = Out([@ EXCEPT !.ran = TRUE], "out")]
    /\ UNCHANGED <<route, resp, gw, pool, signVars>>

Start(r) ==
    /\ ctx[r].dir = "idle"
    /\ \E x \in BOOLEAN :
         ctx' = [ctx EXCEPT ![r] = [@ EXCEPT !.dir = "in", !.at = 1, !.excluded = x, !.live = tokens]]
    /\ UNCHANGED <<route, resp, gw, pool, tokens, signVars>>
Time == Tick /\ "sign" \in {chain[i] : i \in DOMAIN chain} /\ UNCHANGED webVars
Expire(s) == Evict(s) /\ UNCHANGED webVars

Step(r) ==
    \/ Enter(r) \/ GzipEnter(r) \/ JWT(r) \/ KeyAuth(r) \/ SignVerify(r) \/ signatureValidate(r)
    \/ Csrf(r) \/ Authz(r) \/ Handler(r) \/ LogoutHandler(r)
    \/ GzipLeave(r) \/ ErrorHandleLeave(r) \/ HandleRecoverError(r) \/ AccessLogLeave(r)
    \/ RecoveryLeave(r)
Next ==
    \/ \E r \in Request : Start(r) \/ Step(r)
    \/ Time
    \/ \E s \in Sig : Expire(s)
Spec == Init /\ [][Next]_vars /\ \A r \in Request : WF_vars(Step(r))

-----------------------------------------------------------------------------
Middlewares == {chain[i] : i \in DOMAIN chain}
Done(r) == ctx[r].dir = "done"

TypeOK ==
    /\ route \in Routes /\ pool \subseteq Writer /\ tokens \subseteq Token
    /\ \A r \in Request :
         /\ ctx[r].dir \in {"idle", "in", "out", "panic", "done"}
         /\ ctx[r].at \in 0..Len(chain) /\ (ctx[r].at = 0 <=> ctx[r].dir \in {"idle", "done"})
         /\ ctx[r].writer \in Writer \cup {Direct}
         /\ resp[r].status \in {200, 401, 403, 406, 500}
    /\ SignTypeOK

(* The handler runs only for a request that every guard of its route let   *)
(* through: its path is excluded, or the guard accepted what it presented. *)
(* The one way around is a keyAuth validator that refuses without an error *)
(* (or a jwt ErrorHandler that drops it).                                  *)
Guarded ==
    \A r \in Request : ctx[r].ran =>
        \A g \in Guards \cap Middlewares :
           \/ g \in ctx[r].passed
           \/ g # "authz" /\ ctx[r].excluded
           \/ g \in {"keyAuth", "jwt"} /\ ctx[r].silent

(* A token that was logged out before a request began does not bring that  *)
(* request to the handler, whatever the requests running beside it do.     *)
LoggedOutStaysOut ==
    \A r \in Request : ctx[r].ran /\ ctx[r].principal # NoToken => ctx[r].principal \in ctx[r].live

(* A request that recorded an error is answered 200 only if the handler    *)
(* had sent the header itself.                                             *)
ErrorIsNotOK ==
    \A r \in Request :
        Done(r) /\ "errorHandle" \in Middlewares /\ ctx[r].errors # <<>> /\ resp[r].status = 200
        => ctx[r].late

(* The text of an error that is not public stays out of the response when  *)
(* a Message is configured.                                                *)
Masked ==
    \A r \in Request : \A i \in DOMAIN resp[r].body :
        \A text \in resp[r].body[i].shows :
           (\E j \in DOMAIN ctx[r].errors : ctx[r].errors[j].text = text)
           => \E j \in DOMAIN ctx[r].errors :
                 ctx[r].errors[j] = [type |-> "public", text |-> text]

(* Each connection is given what its own request wrote, though the writers *)
(* are pooled and a context keeps its writer after giving it back.         *)
OwnBody == \A r \in Request : \A i \in DOMAIN resp[r].body : resp[r].body[i].from = r

(* A response that was written in one piece, before which no header was    *)
(* sent, can be read: it says gzip exactly when it is compressed, and the  *)
(* compressed stream is complete.                                          *)
Readable ==
    \A r \in Request :
        LET b == resp[r].body
        IN  Done(r) /\ Len(b) = 1 /\ ~resp[r].bare /\ b[1].kind # "frame"
            => /\ b[1].kind = "zip" <=> "gzip" \in resp[r].wire
               /\ resp[r].closed

(* A panic, and an error that is not public, is in the log at error level. *)
FailureLogged ==
    \A r \in Request :
        /\ Done(r) /\ "accessLog" \in Middlewares
        /\ ctx[r].paniced \/ \E i \in DOMAIN ctx[r].errors : ctx[r].errors[i].type = "private"
        => ctx[r].log = "error"

(* Every request that began is answered.                                   *)
Answered == \A r \in Request : ctx[r].dir = "in" ~> Done(r)

(* Only requests with valid credentials reach the handler.                 *)
Admission == Guarded /\ LoggedOutStaysOut

(* Errors become answers that say there was one, and no more than allowed. *)
ErrorAnswers == ErrorIsNotOK /\ Masked

(* Every connection gets the response of its own request, and can read it. *)
Bodies == TypeOK /\ OwnBody /\ Readable
=============================================================================
