------------------------------- MODULE Graphql -------------------------------
(* contrib/gql: GraphQL servers are bound to router groups, the web          *)
(* middlewares of a group run around GraphQL operations and responses, and   *)
(* errors are presented through the maps of the web error handler. A gin     *)
(* context lives as long as the connection: one operation of a request, any  *)
(* number of a websocket.                                                    *)
EXTENDS Sequences, Naturals, Folds, SequencesExt

NoServer == "none"
HasGraphql(groups, path) == \E i \in DOMAIN groups : groups[i].path = path /\ groups[i].gql

(* RegisterGraphqlServer: each server takes the next group that has the      *)
(* middleware, found by the base path of the group.                          *)
TakeGroup(groups, st, server) ==
    LET free == {j \in DOMAIN groups : j > st.index /\ HasGraphql(groups, groups[j].path)}
        j == CHOOSE j \in free : \A i \in free : j <= i
    IN  IF server = NoServer \/ free = {} THEN st
        ELSE [index |-> j, bound |-> [st.bound EXCEPT ![j] = server]]
RegisterGraphqlServer(groups, servers) ==
    FoldLeft(LAMBDA st, s : TakeGroup(groups, st, s),
             [index |-> 0, bound |-> [j \in DOMAIN groups |-> NoServer]], servers).bound

(* ApplyFunc of every group in turn: the message of the last one, the error  *)
(* of the last one that has a message.                                       *)
ApplyMessage(public, msg) == [msg |-> msg, err |-> IF msg = "" THEN public.err ELSE msg]
ApplyGroups(msgs) == FoldLeft(ApplyMessage, [msg |-> "", err |-> ""], msgs)

(* The connection: useStream is set when the transports of the server could  *)
(* stream at the time of its registration and the request asks for it.       *)
SupportStream(transports) == transports \cap {"websocket", "sse"} # {}
NewConn(transports, streaming) ==
    [stream |-> SupportStream(transports) /\ streaming, errors |-> <<>>, fields |-> <<>>, logs |-> <<>>]

(* The texts the client may see of an error: a customer's text of the maps,  *)
(* the public message, or the error's own.                                   *)
LookupErrorText(e) == IF e.type = "known" \/ e.text = "mapped" THEN "customer" ELSE ""
MaskedText(public, e) == IF public.err # "" THEN public.msg ELSE e.text
PresentedText(public, e) ==
    IF LookupErrorText(e) # "" THEN LookupErrorText(e)
    ELSE IF e.gin /\ e.type = "public" THEN e.text ELSE MaskedText(public, e)
ErrorPresenter(conn, public, e) ==
    [conn |-> [conn EXCEPT !.fields = Append(@, e.text)], text |-> PresentedText(public, e)]

(* clear(gctx.Errors) of SetRecoverFunc keeps the length of the list.        *)
NilError == [gin |-> TRUE, type |-> "nil", text |-> "nil"]
Plain(text) == [gin |-> FALSE, type |-> "plain", text |-> text]
AnsweredWith(conn, texts) == [conn |-> conn, done |-> TRUE, ran |-> FALSE, thrown |-> FALSE, shows |-> texts]
PassedOn(conn) == [conn |-> conn, done |-> FALSE, ran |-> FALSE, thrown |-> FALSE, shows |-> {}]
SetRecoverFunc(conn, public, text) ==
    LET cleared == [conn EXCEPT !.fields = Append(@, text),
                                !.errors = [i \in 1..Len(@) + 1 |-> NilError]]
        p == ErrorPresenter(cleared, public, Plain(text))
    IN  [AnsweredWith(p.conn, {p.text}) EXCEPT !.thrown = TRUE]

(* envResponseError and the tail of doWebHandler: a stream starts its next   *)
(* operation without the errors of this one.                                 *)
Forget(conn) == IF conn.stream THEN [conn EXCEPT !.errors = <<>>] ELSE conn

(* doWebHandler: the middleware ran on the gin context; any error the        *)
(* context holds is the answer. Presenting a nil error panics.               *)
HandlerErrors(conn, mw) ==
    IF mw.err = {} THEN conn
    ELSE [conn EXCEPT !.errors = Append(@, CHOOSE e \in mw.err : TRUE)]
doWebHandler(conn, public, mw) ==
    LET c == HandlerErrors(conn, mw)
        shown == [c EXCEPT !.fields = @ \o [i \in DOMAIN c.errors |-> c.errors[i].text]]
    IN  IF c.errors = <<>> THEN PassedOn(c)
        ELSE IF \E i \in DOMAIN c.errors : c.errors[i] = NilError
        THEN SetRecoverFunc(c, public, "nil")
        ELSE AnsweredWith(Forget(shown), {PresentedText(public, c.errors[i]) : i \in DOMAIN c.errors})

(* CheckPermissions: every top-level field, but for introspection, must be   *)
(* allowed; a selection that is not a field fails the type assertion.        *)
Introspection == {"__type", "__schema"}
CheckPermissions(conn, public, policy, op) ==
    LET asked == {op.fields[i] : i \in DOMAIN op.fields} \ Introspection
        denied == {f \in asked : policy[f] # "allow"}
    IN  IF "fragment" \in asked THEN SetRecoverFunc(conn, public, "assertion")
        ELSE IF denied # {} THEN AnsweredWith(Forget(conn), {IF policy[f] = "error" THEN "authorizer" ELSE "denied" : f \in denied})
        ELSE PassedOn(conn)

(* The operation's own answer: its resolver's, with the panic of a resolver  *)
(* recovered.                                                                *)
Resolve(conn, public, op) ==
    LET e == Plain("resolver")
        p == ErrorPresenter(conn, public, e)
    IN  CASE op.resolver = "ok"    -> [PassedOn(conn) EXCEPT !.ran = TRUE]
          [] op.resolver = "error" -> [AnsweredWith(p.conn, {p.text}) EXCEPT !.ran = TRUE]
          [] op.resolver = "panic" -> [SetRecoverFunc(conn, public, "panic") EXCEPT !.ran = TRUE, !.thrown = FALSE]

(* The stream logger, outermost, logs the answer of a stream with the fields *)
(* gathered on the connection so far; a middleware's panic passes it by.     *)
StreamLogger(res) ==
    IF res.conn.stream /\ ~res.thrown
    THEN [res EXCEPT !.conn.logs = Append(@, [error |-> res.done, fields |-> res.conn.fields])]
    ELSE res

(* buildGraphqlServer: operation middlewares, then CheckPermissions, then    *)
(* the response middlewares around the resolver. An unknown name is passed   *)
(* over.                                                                     *)
Through(mws, public, conn) ==
    FoldLeft(LAMBDA res, mw : IF res.done THEN res ELSE doWebHandler(res.conn, public, mw), PassedOn(conn), mws)
doOperationHandler(srv, conn, op) ==
    LET res == Through(srv.operation, srv.public, conn)
    IN  IF res.done \/ ~srv.authorization THEN res
        ELSE CheckPermissions(res.conn, srv.public, srv.policy, op)
doResponseHandler(srv, conn, op) ==
    LET res == Through(srv.response, srv.public, conn)
    IN  IF res.done THEN res ELSE Resolve(res.conn, srv.public, op)
Operate(srv, conn, op) ==
    LET before == doOperationHandler(srv, conn, op)
        res == doResponseHandler(srv, before.conn, op)
    IN  IF before.done THEN before ELSE IF srv.logger THEN StreamLogger(res) ELSE res
(* The answers to the operations of a connection, in order.                  *)
Converse(srv, conn, ops) ==
    FoldLeft(LAMBDA st, op : LET res == Operate(srv, st.conn, op)
                             IN  [conn |-> res.conn, answers |-> Append(st.answers, res)],
             [conn |-> conn, answers |-> <<>>], ops)

-----------------------------------------------------------------------------
(* Servers go to the groups that have the middleware, in the order of both,  *)
(* when base paths differ; servers too many are bound nowhere.               *)
BoundInOrder(groups, servers) ==
    LET bound == RegisterGraphqlServer(groups, servers)
        given == SelectSeq(servers, LAMBDA s : s # NoServer)
        places == SelectSeq([j \in DOMAIN groups |-> j], LAMBDA j : groups[j].gql)
    IN  (\A i, j \in DOMAIN groups : i # j => groups[i].path # groups[j].path) =>
          /\ \A i \in DOMAIN places : bound[places[i]] = IF i <= Len(given) THEN given[i] ELSE NoServer
          /\ \A j \in DOMAIN groups : ~groups[j].gql => bound[j] = NoServer

(* With authorization a resolver runs only for fields that are allowed, and  *)
(* whatever ran before on the connection.                                    *)
OnlyAllowedRuns(srv, conn, ops) ==
    LET answers == Converse(srv, conn, ops).answers
    IN  \A i \in DOMAIN ops : srv.authorization /\ answers[i].ran =>
          \A k \in DOMAIN ops[i].fields :
            ops[i].fields[k] \in Introspection \/ (ops[i].fields[k] # "fragment" /\ srv.policy[ops[i].fields[k]] = "allow")

(* Once some group has a public message, the text of a resolver's error, of  *)
(* its panic or of a private error is not shown, only logged.                *)
MessageMasks(srv, msgs, conn, ops) ==
    LET s == [srv EXCEPT !.public = ApplyGroups(msgs)]
        all == Converse(s, conn, ops)
    IN  (\E i \in DOMAIN msgs : msgs[i] # "") =>
          \A i \in DOMAIN ops :
            /\ all.answers[i].shows \cap {"resolver", "panic", "nil", "assertion", "secret"} = {}
            /\ all.answers[i].ran /\ ops[i].resolver = "panic" =>
                 "panic" \in {all.conn.fields[k] : k \in DOMAIN all.conn.fields}

(* On a stream an operation is answered as if it were the first of its       *)
(* connection until one panics; from then on, if there is a middleware of    *)
(* operations, it meets the cleared errors and none is resolved any more.    *)
AnsweredAfresh(srv, conn, ops) ==
    LET answers == Converse(srv, conn, ops).answers
        panicked(k) == answers[k].thrown \/ (answers[k].ran /\ ops[k].resolver = "panic")
        alone(i) == Operate(srv, conn, ops[i])
    IN  conn.stream =>
          \A i \in DOMAIN ops :
            IF \E k \in 1..i - 1 : panicked(k)
            THEN srv.operation # <<>> => ~answers[i].ran /\ answers[i].thrown
            ELSE answers[i].shows = alone(i).shows /\ answers[i].ran = alone(i).ran

(* Every answer of a resolver on a stream is logged once, as an error when   *)
(* it is one.                                                                *)
StreamLogged(srv, conn, ops) ==
    LET all == Converse(srv, conn, ops)
        ran == SelectSeq(all.answers, LAMBDA a : a.ran)
        expected == [i \in DOMAIN ran |-> ran[i].done]
    IN  conn.stream /\ srv.logger /\ (\A i \in DOMAIN srv.response : srv.response[i].err = {}) =>
          [i \in DOMAIN all.conn.logs |-> all.conn.logs[i].error] = expected
=============================================================================
