---------------------------- MODULE Interceptors ----------------------------
(***************************************************************************)
(* rpc/grpcx/interceptor: a call through a chain of the server's           *)
(* interceptors accessLog, recovery and jwt, unary or stream.  A call is   *)
(* [stream, method, tokens, handler], handler the outcome of its handler:  *)
(* a code, or <<"panic", code>>, the code of the panic's value.  A carrier *)
(* of log fields (pkg/log/carrier.go) is the index of the accessLog that   *)
(* put it into the context, 0 for none.                                    *)
(***************************************************************************)
EXTENDS Integers, Sequences, SequencesExt

Panics(out) == Len(out) = 2

(* The tokens of the metadata key that have the configured scheme; the     *)
(* first valid one is the principal, else the last error is returned.      *)
valuesFromMetadata(call, options) ==
    SelectSeq(call.tokens, LAMBDA t : options.scheme = "" \/ t.scheme = options.scheme)
withToken(call, options) ==
    LET values == valuesFromMetadata(call, options)
        valid == {i \in DOMAIN values : values[i].valid}
    IN  IF valid # {} THEN [err |-> "", principal |-> values[Min(valid)].name]
        ELSE [err |-> IF values = <<>> THEN "missing" ELSE values[Len(values)].name, principal |-> ""]

DefaultCodeToLevel(code) ==
    CASE code \in {"OK", "Canceled", "InvalidArgument", "NotFound", "AlreadyExists", "Unauthenticated"} -> "info"
      [] code \in {"DeadlineExceeded", "PermissionDenied", "ResourceExhausted", "FailedPrecondition", "Aborted",
                   "OutOfRange", "Unavailable"} -> "warn"
      [] OTHER -> "error"

-----------------------------------------------------------------------------
(* Going in: the context each interceptor is called with, and how far the  *)
(* call gets.  A stream is wrapped once; the interceptors after that share *)
(* the wrapper, and each new context replaces the one in it.               *)
NewCall == [given |-> <<>>, ctx |-> [carrier |-> 0, principal |-> ""], wrapped |-> FALSE, stop |-> ""]
newLoggerForCall(ctx, i) == [ctx EXCEPT !.carrier = i]
WrapServerStream(s, call, ctx) == [s EXCEPT !.ctx = ctx, !.wrapped = call.stream]
Enter(s, name, call, options) ==
    LET g == [s EXCEPT !.given = Append(@, [ctx |-> s.ctx, shared |-> s.wrapped])]
        auth == withToken(call, options)
    IN  CASE s.stop # "" -> s
          [] name = "accessLog" -> WrapServerStream(g, call, newLoggerForCall(s.ctx, Len(g.given)))
          [] name = "jwt" /\ call.method \notin options.exclude ->
                IF auth.err # "" THEN [g EXCEPT !.stop = auth.err]
                ELSE WrapServerStream(g, call, [s.ctx EXCEPT !.principal = auth.principal])
          [] OTHER -> g
Inward(chain, call, options) == FoldLeft(LAMBDA s, name : Enter(s, name, call, options), NewCall, chain)


(* Coming out, the innermost first.  recovery turns a panic into an error, *)
(* hands it to the carrier of its context or else logs it; accessLog logs  *)
(* unless a panic passes it.                                               *)
handleRecoverError(r, carrier, code) ==
    [r EXCEPT !.out = <<code>>,
              !.panicIn = IF carrier # 0 THEN @ \cup {carrier} ELSE @,
              !.log = IF carrier = 0 THEN @ \cup {[by |-> "recovery", level |-> "error", panic |-> TRUE]} ELSE @]
RecoverySees(given, s) == IF given.shared THEN s.ctx.carrier ELSE given.ctx.carrier
Recovery(r, given, s) ==
    IF Panics(r.out) THEN handleRecoverError(r, RecoverySees(given, s), r.out[2]) ELSE r
AccessLog(r, i) ==
    IF Panics(r.out) THEN r
    ELSE [r EXCEPT !.log = @ \cup {[by |-> "accessLog", level |-> DefaultCodeToLevel(r.out[1]), panic |-> i \in r.panicIn]}]
Leave(r, chain, i, s) ==
    CASE chain[i] = "recovery" -> Recovery(r, s.given[i], s)
      [] chain[i] = "accessLog" -> AccessLog(r, i)
      [] OTHER -> r
Call(chain, call, options) ==
    LET s == Inward(chain, call, options)
        inner == [out |-> IF s.stop # "" THEN <<"Unknown">> ELSE call.handler, panicIn |-> {}, log |-> {}]
        out == FoldRight(LAMBDA i, r : Leave(r, chain, i, s), [i \in DOMAIN s.given |-> i], inner)
    IN  [reached |-> s.stop = "", principal |-> s.ctx.principal, err |-> s.stop, out |-> out.out, log |-> out.log]

-----------------------------------------------------------------------------
(* With jwt in the chain, a handler runs only for an excluded method or    *)
(* with the principal of the first valid token of the scheme, wherever the *)
(* other interceptors are.                                                 *)
Authenticated(chain, call, options) ==
    LET c == Call(chain, call, options)
        ok == {i \in DOMAIN call.tokens : call.tokens[i].valid /\ options.scheme \in {"", call.tokens[i].scheme}}
    IN  IF \E i \in DOMAIN chain : chain[i] = "jwt"
        THEN /\ c.reached <=> call.method \in options.exclude \/ ok # {}
             /\ c.reached /\ call.method \notin options.exclude => c.principal = call.tokens[Min(ok)].name
        ELSE c.reached

(* A panic that recovery meets becomes an error, and is logged, at error   *)
(* level when its value is no status.  The exception is a stream that was  *)
(* wrapped before recovery, with accessLog after it: the panic goes to the *)
(* carrier of an accessLog that it has already passed, and is lost.        *)
PanicLogged(chain, call, options) ==
    LET c == Call(chain, call, options)
        recs == {i \in DOMAIN chain : chain[i] = "recovery"}
        r == IF recs = {} THEN 0 ELSE CHOOSE i \in recs : \A j \in recs : j <= i
        wraps(i) == chain[i] = "accessLog" \/ (chain[i] = "jwt" /\ call.method \notin options.exclude)
        lost == /\ call.stream
                /\ \E i \in 1..(r - 1) : wraps(i)
                /\ \E i \in (r + 1)..Len(chain) : chain[i] = "accessLog"
    IN  c.reached /\ Panics(call.handler) /\ r # 0 =>
          /\ ~Panics(c.out)
          /\ (\E e \in c.log : e.panic) <=> ~lost
          /\ call.handler[2] \in {"Internal", "Unknown"} => \A e \in c.log : e.panic => e.level = "error"
=============================================================================
