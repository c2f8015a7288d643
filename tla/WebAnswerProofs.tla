--------------------------- MODULE WebAnswerProofs ---------------------------
(****************************************************************************)
(* Proofs about what the middlewares of web/handler answer and log: that a  *)
(* response can be read, that an error becomes an answer that says so and   *)
(* shows no more than it may, and that a failure is in the access log, each *)
(* for every route whose middlewares stand in the order it needs.           *)
(****************************************************************************)
EXTENDS WebProofs

-----------------------------------------------------------------------------
(* The way out.  l stands at the last middleware before n that a request    *)
(* (or its panic) meets, or is done if there is none.                       *)
Met(dir) == IF dir = "panic" THEN Deferring ELSE Wrapping
OutTo(l, n, dir) ==
    /\ l.at \in 0..(n - 1)
    /\ l.dir = IF l.at = 0 THEN "done" ELSE dir
    /\ \A j \in 1..(n - 1) : chain[j] \in Met(dir) => j <= l.at

(* l has the errors, the panic and the log of k.                            *)
Carries(k, l) ==
    /\ l.errors = k.errors /\ l.late = k.late /\ l.paniced = k.paniced /\ l.log = k.log

LEMMA OutWay ==
    ASSUME route \in Routes, NEW k \in Context, k.at \in 1..Len(chain),
           NEW dir \in {"out", "panic"}
    PROVE  OutTo(Out(k, dir), k.at, dir) /\ Carries(k, Out(k, dir)) /\ Out(k, dir).writer = k.writer
<1> DEFINE J == {j \in 1..(k.at - 1) : chain[j] \in Met(dir)}
<1>1. Len(chain) \in Nat /\ k.at - 1 \in Nat
  BY RouteAssumption DEF chain
<1>2. CASE J = {}
  <2>1. Out(k, dir) = [k EXCEPT !.dir = "done", !.at = 0]
    BY <1>2 DEF Out, Met
  <2>2. Out(k, dir).dir = "done" /\ Out(k, dir).at = 0 /\ Carries(k, Out(k, dir))
        /\ Out(k, dir).writer = k.writer
    BY <2>1 DEF Context, Carries
  <2> QED BY <1>1, <1>2, <2>2 DEF OutTo
<1>3. CASE J # {}
  <2>1. Max(J) \in J /\ \A j \in J : j <= Max(J)
    BY <1>1, <1>3, Greatest
  <2>2. Out(k, dir) = [k EXCEPT !.dir = dir, !.at = Max(J)]
    BY <1>3 DEF Out, Met
  <2>3. Max(J) \in 1..(k.at - 1) /\ \A j \in 1..(k.at - 1) : chain[j] \in Met(dir) => j <= Max(J)
    BY <2>1
  <2> HIDE DEF J
  <2>4. Out(k, dir).dir = dir /\ Out(k, dir).at = Max(J) /\ Carries(k, Out(k, dir))
        /\ Out(k, dir).writer = k.writer
    BY <2>2 DEF Context, Carries
  <2> QED BY <1>1, <2>3, <2>4 DEF OutTo
<1> QED BY <1>2, <1>3

-----------------------------------------------------------------------------
(* What the calls of gin do to the response they are made on, field by      *)
(* field; no other response changes.                                        *)
SameHeader(p, s) == s.sent = p.sent /\ s.hdr = p.hdr /\ s.wire = p.wire /\ s.bare = p.bare
SameBody(p, s) == s.body = p.body /\ s.closed = p.closed
OnlyOne(rs, new, q) == \A p \in Request \ {q} : new[p] = rs[p]

LEMMA StatusEffect ==
    ASSUME NEW rs \in [Request -> Response], NEW q \in Request, NEW code \in Code
    PROVE  LET s == Status(rs, q, code)[q] IN
           /\ s.status = IF rs[q].sent THEN rs[q].status ELSE code
           /\ SameHeader(rs[q], s) /\ SameBody(rs[q], s)
           /\ OnlyOne(rs, Status(rs, q, code), q)
<1>1. PICK p : p = rs[q]
  OBVIOUS
<1>2. p \in Response
  BY <1>1
<1>3. CASE p.sent
  BY <1>1, <1>3 DEF Status, SameHeader, SameBody, OnlyOne
<1>4. CASE ~p.sent
  <2>1. PICK s : s = [p EXCEPT !.status = code]
    OBVIOUS
  <2>2. s.status = code /\ SameHeader(p, s) /\ SameBody(p, s)
    BY <1>2, <2>1 DEF Response, SameHeader, SameBody
  <2>3. Status(rs, q, code) = [rs EXCEPT ![q] = s]
    BY <1>1, <1>4, <2>1 DEF Status
  <2> QED BY <1>1, <1>4, <2>2, <2>3 DEF OnlyOne
<1> QED BY <1>3, <1>4

LEMMA HeaderEffect ==
    ASSUME NEW rs \in [Request -> Response], NEW q \in Request
    PROVE  LET s == WriteHeaderNow(rs, q)[q] IN
           /\ s.status = rs[q].status /\ s.sent /\ s.hdr = rs[q].hdr /\ SameBody(rs[q], s)
           /\ IF rs[q].sent THEN s.bare = rs[q].bare /\ s.wire = rs[q].wire
                            ELSE s.bare /\ s.wire = rs[q].hdr
           /\ OnlyOne(rs, WriteHeaderNow(rs, q), q)
<1>1. PICK p : p = rs[q]
  OBVIOUS
<1>2. p \in Response
  BY <1>1
<1>3. CASE p.sent
  BY <1>1, <1>3 DEF WriteHeaderNow, SameBody, OnlyOne
<1>4. CASE ~p.sent
  <2>1. PICK s : s = [p EXCEPT !.sent = TRUE, !.wire = p.hdr, !.bare = TRUE]
    OBVIOUS
  <2>2. /\ s.status = p.status /\ s.sent /\ s.hdr = p.hdr /\ SameBody(p, s)
        /\ s.bare /\ s.wire = p.hdr
    BY <1>2, <2>1 DEF Response, SameBody
  <2>3. WriteHeaderNow(rs, q) = [rs EXCEPT ![q] = s]
    BY <1>1, <1>4, <2>1 DEF WriteHeaderNow
  <2> QED BY <1>1, <1>4, <2>2, <2>3 DEF OnlyOne
<1> QED BY <1>3, <1>4

LEMMA EmitEffect ==
    ASSUME NEW rs \in [Request -> Response], NEW q \in Request, NEW chunk \in Chunk
    PROVE  LET s == Emit(rs, q, chunk)[q] IN
           /\ s.status = rs[q].status /\ s.sent /\ s.hdr = rs[q].hdr
           /\ s.wire = IF rs[q].sent THEN rs[q].wire ELSE rs[q].hdr
           /\ s.bare = rs[q].bare /\ s.closed = rs[q].closed
           /\ s.body = Append(rs[q].body, chunk)
           /\ OnlyOne(rs, Emit(rs, q, chunk), q)
<1>1. PICK p : p = rs[q]
  OBVIOUS
<1>2. p \in Response
  BY <1>1
<1>3. PICK wire : wire = IF p.sent THEN p.wire ELSE p.hdr
  OBVIOUS
<1>4. PICK body : body = Append(p.body, chunk)
  OBVIOUS
<1>5. PICK s : s = [p EXCEPT !.sent = TRUE, !.wire = wire, !.body = body]
  OBVIOUS
<1>6. /\ s.status = p.status /\ s.sent /\ s.hdr = p.hdr /\ s.wire = wire /\ s.bare = p.bare
      /\ s.closed = p.closed /\ s.body = body
  BY <1>2, <1>5 DEF Response
<1>7. Emit(rs, q, chunk) = [rs EXCEPT ![q] = s]
  BY <1>1, <1>2, <1>3, <1>4, <1>5 DEF Emit, Response
<1> QED BY <1>1, <1>3, <1>4, <1>6, <1>7 DEF OnlyOne

-----------------------------------------------------------------------------
(* The kinds of steps a request takes, told by what becomes of its context  *)
(* (k, then l), its response (p, then s) and its pooled writer (g, then h). *)
Backs(k, l, dir) == OutTo(l, k.at, dir) /\ l.writer = k.writer
Grew(k, l) ==
    \A j \in DOMAIN k.errors : j \in DOMAIN l.errors /\ l.errors[j] = k.errors[j]
HasPrivate(errs) == \E i \in DOMAIN errs : errs[i].type = "private"

(* The header is sent with the status code, unless it was sent before; a    *)
(* chunk is written, as it is or compressed.                                *)
Sends(p, s, code) ==
    /\ s.status = IF p.sent THEN p.status ELSE code
    /\ s.sent /\ s.hdr = p.hdr /\ SameBody(p, s)
    /\ IF p.sent THEN s.bare = p.bare /\ s.wire = p.wire ELSE s.bare /\ s.wire = p.hdr
Adds(p, s, c) ==
    /\ s.sent /\ s.bare = p.bare /\ s.body = Append(p.body, c)
    /\ s.wire = IF p.sent THEN p.wire ELSE s.hdr
Writes(k, p, s, g, h, shows) ==
    /\ h.open = g.open
    /\ \E c \in Chunk :
         /\ Adds(p, s, c) /\ c.shows = shows
         /\ \/ /\ c.kind = "plain" /\ s.closed = p.closed
               /\ "gzip" \in s.hdr <=> "gzip" \in p.hdr
            \/ /\ c.kind = "zip" /\ ~s.closed /\ "gzip" \in s.hdr /\ Inside(k) /\ h.useZip

(* On the way in: at the first, one middleware further, or waiting.         *)
Goes(k, l, p, s, h) ==
    /\ k.dir \in {"idle", "in"} /\ l.dir = "in" /\ Carries(k, l) /\ s = p
    /\ Inside(l) => h.open
(* A guard refuses, or jwt panics.                                          *)
Refused(k, l, p, s, g, h) ==
    /\ k.dir = "in" /\ chain[k.at] \in Guards /\ Backs(k, l, "out") /\ Grew(k, l)
    /\ l.late = k.late /\ l.paniced = k.paniced /\ l.log = k.log
    /\ h = g /\ \E code \in Code \ {200} : Sends(p, s, code)
Panics(k, l, p, s, g, h) ==
    /\ k.dir = "in" /\ chain[k.at] = "jwt" /\ Backs(k, l, "panic")
    /\ l.errors = k.errors /\ l.late = k.late /\ l.log = k.log /\ s = p /\ h = g
(* The handler ran.                                                         *)
Handled(k, l, p, s, g, h) ==
    /\ k.dir = "in" /\ chain[k.at] = "handler" /\ Grew(k, l)
    /\ \E dir \in {"out", "panic"} : Backs(k, l, dir) /\ (l.paniced => dir = "panic")
    /\ l.late = s.sent /\ l.log = k.log
    /\ \/ s = p /\ h = g
       \/ s.status = p.status /\ Writes(k, p, s, g, h, {})
(* A middleware with nothing to say is left; accessLog is, and has logged.  *)
Left(k, l, p, s, g, h) ==
    /\ k.dir = "out" /\ chain[k.at] \in {"recovery", "accessLog", "errorHandle"}
    /\ Backs(k, l, "out") /\ l.errors = k.errors /\ l.late = k.late /\ l.paniced = k.paniced
    /\ chain[k.at] = "errorHandle" => k.errors = <<>>
    /\ IF chain[k.at] = "accessLog" THEN HasPrivate(k.errors) => l.log = "error"
                                    ELSE l.log = k.log
    /\ s = p /\ h = g
(* errorHandle answers with the errors, or with 406.                        *)
Shows(k, shows) ==
    \A t \in shows :
        \/ t \in {"customer", "message"}
        \/ \E j \in DOMAIN k.errors : k.errors[j] = [type |-> "public", text |-> t]
Negotiated(k, l, p, s, g, h) ==
    /\ k.dir = "out" /\ chain[k.at] = "errorHandle" /\ k.errors # <<>>
    /\ Backs(k, l, "out") /\ Grew(k, l)
    /\ l.late = k.late /\ l.paniced = k.paniced /\ l.log = k.log
    /\ \/ /\ IF p.sent THEN s.status = p.status ELSE s.status # 200
          /\ \E shows : Shows(k, shows) /\ Writes(k, p, s, g, h, shows)
       \/ p.sent /\ s = p /\ h = g
       \/ ~p.sent /\ Sends(p, s, 406) /\ h = g
(* recovery turns a panic into an error; the status is that of the request  *)
(* its writer was made for.                                                 *)
Recovered(k, l, p, s, g, h) ==
    /\ k.dir = "panic" /\ chain[k.at] = "recovery" /\ Backs(k, l, "out")
    /\ Grew(k, l) /\ HasPrivate(l.errors)
    /\ l.late = k.late /\ l.paniced = k.paniced
    /\ SameHeader(p, s) /\ SameBody(p, s) /\ h = g
(* gzip is left: Close ends the stream, or writes an empty one.             *)
Closed(k, l, p, s, g, h) ==
    /\ k.dir \in {"out", "panic"} /\ chain[k.at] = "gzip" /\ Backs(k, l, k.dir)
    /\ Carries(k, l) /\ s.status = p.status
    /\ \/ s = p /\ ~(Inside(k) /\ g.useZip)
       \/ /\ p.closed /\ s.closed /\ s.hdr = p.hdr
          /\ \E c \in Chunk : Adds(p, s, c) /\ c.kind = "frame" /\ c.shows = {}
       \/ SameHeader(p, s) /\ s.body = p.body /\ s.closed
TurnsBack(k, l, p, s, g, h) ==
    \/ Refused(k, l, p, s, g, h) \/ Panics(k, l, p, s, g, h) \/ Handled(k, l, p, s, g, h)
    \/ Left(k, l, p, s, g, h) \/ Negotiated(k, l, p, s, g, h)
    \/ Recovered(k, l, p, s, g, h) \/ Closed(k, l, p, s, g, h)

(* Nothing happened yet to a request on its way in.                         *)
Untouched(k, p) ==
    k.dir \in {"idle", "in"} =>
        /\ k.errors = <<>> /\ ~k.paniced /\ ~k.late
        /\ ~p.sent /\ ~p.bare /\ p.closed /\ p.hdr = {} /\ p.body = <<>>
(* The header that was sent fits the first chunk of the body; a stream that *)
(* is not ended yet will be, unless something plain came after it.          *)
Fits(p) ==
    /\ ~p.sent => p.body = <<>> /\ ~p.bare
    /\ p.body = <<>> => "gzip" \notin p.hdr
    /\ p.sent /\ ~p.bare => p.body # <<>>
    /\ p.body # <<>> /\ ~p.bare => (p.body[1].kind = "zip" <=> "gzip" \in p.wire)
WillEnd(k, p, g) ==
    /\ ~p.closed => p.body # <<>> /\ (Len(p.body) >= 2 \/ (Inside(k) /\ g.useZip))
    /\ Inside(k) => g.open
(* What the body shows of the errors is meant for the client.               *)
MaskedBody(k, p) == \A i \in DOMAIN p.body : Shows(k, p.body[i].shows)

Whole(k, p, g) == Untouched(k, p) /\ Fits(p) /\ WillEnd(k, p, g) /\ MaskedBody(k, p)

-----------------------------------------------------------------------------
(* A request is inside gzip until it leaves it.                             *)
LEMMA StaysInside ==
    ASSUME route \in Routes, NEW k, k.at \in 1..Len(chain), k.dir \in {"in", "out", "panic"},
           chain[k.at] # "gzip", NEW l, NEW dir \in {"out", "panic"}, Backs(k, l, dir)
    PROVE  Inside(l) <=> Inside(k)
<1>1. DOMAIN chain = 1..Len(chain) /\ Len(chain) \in Nat
  BY RouteAssumption DEF chain
<1>2. /\ l.at \in 0..(k.at - 1) /\ l.dir = (IF l.at = 0 THEN "done" ELSE dir)
      /\ \A j \in 1..(k.at - 1) : chain[j] = "gzip" => j <= l.at
  BY DEF Backs, OutTo, Met, Deferring, Wrapping
<1>3. ASSUME Inside(k) PROVE Inside(l)
  <2>1. PICK i \in DOMAIN chain : chain[i] = "gzip" /\ (i < k.at \/ i = k.at)
    BY <1>3 DEF Inside
  <2>2. i \in 1..(k.at - 1)
    BY <1>1, <2>1
  <2>3. i <= l.at /\ l.at # 0 /\ l.dir = dir
    BY <1>2, <2>1, <2>2
  <2> QED BY <1>1, <1>2, <1>3, <2>1, <2>3 DEF Inside, Backs
<1>4. ASSUME Inside(l) PROVE Inside(k)
  <2>1. PICK i \in DOMAIN chain : chain[i] = "gzip" /\ (i < l.at \/ i = l.at)
    BY <1>4 DEF Inside
  <2>2. i < k.at
    BY <1>1, <1>2, <2>1
  <2> QED BY <1>4, <2>1, <2>2 DEF Inside, Backs
<1> QED BY <1>3, <1>4

LEMMA GoesOutside ==
    ASSUME GzipFirst, route \in Routes, NEW k, k.at \in 1..Len(chain), chain[k.at] = "gzip",
           NEW l, NEW dir \in {"out", "panic"}, Backs(k, l, dir)
    PROVE  ~Inside(l)
<1> SUFFICES ASSUME Inside(l) PROVE FALSE
  OBVIOUS
<1>1. DOMAIN chain = 1..Len(chain) /\ Len(chain) \in Nat /\ l.at \in 0..(k.at - 1)
  BY RouteAssumption DEF chain, Backs, OutTo
<1>2. PICK i \in DOMAIN chain : chain[i] = "gzip" /\ (i < l.at \/ i = l.at)
  BY DEF Inside
<1>3. i = k.at
  BY <1>1, <1>2, OneGzip
<1> QED BY <1>1, <1>2, <1>3

(* What a step does to a response that fits, and to the end of its stream.  *)
LEMMA AddFits ==
    ASSUME NEW p \in Response, NEW s \in Response, NEW c \in Chunk, Fits(p), Adds(p, s, c),
           \/ c.kind # "zip" /\ ("gzip" \in s.hdr <=> "gzip" \in p.hdr)
           \/ c.kind = "zip" /\ "gzip" \in s.hdr
    PROVE  Fits(s) /\ Len(s.body) = Len(p.body) + 1 /\ s.body # <<>>
<1>1. PICK b, d : b = p.body /\ d = s.body
  OBVIOUS
<1>2. b \in Seq(Chunk) /\ d = Append(b, c)
  BY <1>1 DEF Response, Adds
<1>3. d # <<>> /\ Len(d) = Len(b) + 1 /\ (b = <<>> => d[1] = c) /\ (b # <<>> => d[1] = b[1])
  BY <1>2, AppendProperties
<1>4. s.sent /\ s.bare = p.bare /\ s.wire = (IF p.sent THEN p.wire ELSE s.hdr)
  BY DEF Adds
<1> QED BY <1>1, <1>3, <1>4 DEF Fits

LEMMA SendFits ==
    ASSUME NEW p \in Response, NEW s \in Response, NEW code, Fits(p), Sends(p, s, code)
    PROVE  Fits(s)
BY DEF Fits, Sends, SameBody

(* What was shown stays allowed when there are more errors.                 *)
LEMMA ShowsMore ==
    ASSUME NEW k, NEW l, Grew(k, l), NEW shows, Shows(k, shows) PROVE Shows(l, shows)
BY DEF Grew, Shows

LEMMA MaskedSame ==
    ASSUME NEW k, NEW l, Grew(k, l), NEW p, NEW s, s.body = p.body, MaskedBody(k, p)
    PROVE  MaskedBody(l, s)
BY ShowsMore DEF MaskedBody

LEMMA MaskedAdd ==
    ASSUME NEW k, NEW l, Grew(k, l), NEW p \in Response, NEW s, NEW c \in Chunk, Adds(p, s, c),
           Shows(k, c.shows), MaskedBody(k, p)
    PROVE  MaskedBody(l, s)
<1>1. PICK b : b = p.body
  OBVIOUS
<1>2. b \in Seq(Chunk) /\ s.body = Append(b, c) /\ \A i \in DOMAIN b : Shows(k, b[i].shows)
  BY <1>1 DEF Response, Adds, MaskedBody
<1>3. ASSUME NEW i \in DOMAIN Append(b, c) PROVE Shows(k, Append(b, c)[i].shows)
  <2>1. CASE i = Len(b) + 1
    BY <1>2, <2>1, AppendProperties
  <2>2. CASE i # Len(b) + 1
    <3>1. i \in DOMAIN b /\ Append(b, c)[i] = b[i]
      BY <1>2, <1>3, <2>2, AppendProperties
    <3> QED BY <1>2, <3>1
  <2> QED BY <2>1, <2>2
<1> QED BY <1>2, <1>3, ShowsMore DEF MaskedBody

(* A chunk written from inside of what the writer was made for.             *)
LEMMA WriteWhole ==
    ASSUME NEW k, NEW l, NEW p \in Response, NEW s \in Response, NEW g, NEW h, NEW shows,
           Fits(p), WillEnd(k, p, g), MaskedBody(k, p), Grew(k, l), Shows(k, shows),
           Inside(l) <=> Inside(k), Writes(k, p, s, g, h, shows)
    PROVE  Fits(s) /\ WillEnd(l, s, h) /\ MaskedBody(l, s)
<1>1. PICK c \in Chunk :
        /\ Adds(p, s, c) /\ c.shows = shows
        /\ \/ /\ c.kind = "plain" /\ s.closed = p.closed
              /\ "gzip" \in s.hdr <=> "gzip" \in p.hdr
           \/ /\ c.kind = "zip" /\ ~s.closed /\ "gzip" \in s.hdr /\ Inside(k) /\ h.useZip
  BY DEF Writes
<1>2. Fits(s) /\ Len(s.body) = Len(p.body) + 1 /\ s.body # <<>>
  <2>1. \/ c.kind # "zip" /\ ("gzip" \in s.hdr <=> "gzip" \in p.hdr)
        \/ c.kind = "zip" /\ "gzip" \in s.hdr
    BY <1>1
  <2> QED BY <1>1, <2>1, AddFits
<1>3. MaskedBody(l, s)
  BY <1>1, MaskedAdd
<1>4. h.open = g.open
  BY DEF Writes
<1>5. Inside(l) => h.open
  BY <1>4 DEF WillEnd
<1>6. ~s.closed => Len(s.body) >= 2 \/ (Inside(l) /\ h.useZip)
  <2>1. CASE s.closed = p.closed
    <3>1. p.body # <<>> => Len(p.body) \in Nat \ {0}
      BY DEF Response
    <3> QED BY <1>2, <2>1, <3>1 DEF WillEnd
  <2>2. CASE Inside(k) /\ h.useZip
    BY <2>2
  <2> QED BY <1>1, <2>1, <2>2
<1> QED BY <1>2, <1>3, <1>5, <1>6 DEF WillEnd

LEMMA GoesWhole ==
    ASSUME NEW k, NEW l, NEW p, NEW s, NEW g, NEW h, Whole(k, p, g), Goes(k, l, p, s, h)
    PROVE  Whole(l, s, h)
<1>1. Untouched(l, s) /\ Fits(s) /\ p.body = <<>> /\ p.closed
  BY DEF Whole, Goes, Untouched, Carries
<1>2. WillEnd(l, s, h)
  BY <1>1 DEF Goes, WillEnd
<1>3. Grew(k, l)
  BY DEF Goes, Carries, Grew
<1>4. MaskedBody(l, s)
  BY <1>3, MaskedSame DEF Goes, Whole
<1> QED BY <1>1, <1>2, <1>4 DEF Whole

LEMMA TurnsBackWhole ==
    ASSUME GzipFirst, route \in Routes, NEW k \in Context, k.at \in 1..Len(chain), NEW l,
           NEW p \in Response, NEW s \in Response, NEW g, NEW h, Whole(k, p, g),
           TurnsBack(k, l, p, s, g, h)
    PROVE  Whole(l, s, h)
<1>1. PICK dir \in {"out", "panic"} : Backs(k, l, dir)
  BY DEF TurnsBack, Refused, Panics, Handled, Left, Negotiated, Recovered, Closed
<1>2. Untouched(l, s)
  <2>1. l.dir \in {"out", "panic", "done"}
    BY <1>1 DEF Backs, OutTo
  <2> QED BY <2>1 DEF Untouched
<1>3. Grew(k, l)
  BY DEF TurnsBack, Refused, Panics, Handled, Left, Negotiated, Recovered, Closed, Carries, Grew
<1>4. k.dir \in {"in", "out", "panic"} /\ Fits(p) /\ WillEnd(k, p, g) /\ MaskedBody(k, p)
  BY DEF TurnsBack, Refused, Panics, Handled, Left, Negotiated, Recovered, Closed, Whole
<1>5. ASSUME chain[k.at] # "gzip" PROVE Inside(l) <=> Inside(k)
  BY <1>1, <1>4, <1>5, StaysInside
<1>6. CASE s = p /\ h = g /\ chain[k.at] # "gzip"
  <2>1. WillEnd(l, s, h)
    BY <1>4, <1>5, <1>6 DEF WillEnd
  <2>2. MaskedBody(l, s)
    BY <1>3, <1>4, <1>6, MaskedSame
  <2> QED BY <1>2, <1>4, <1>6, <2>1, <2>2 DEF Whole
<1>7. ASSUME NEW shows, Shows(k, shows), Writes(k, p, s, g, h, shows), chain[k.at] # "gzip"
      PROVE  Whole(l, s, h)
  BY <1>2, <1>3, <1>4, <1>5, <1>7, WriteWhole DEF Whole
<1>8. ASSUME NEW code, Sends(p, s, code), h = g, chain[k.at] # "gzip" PROVE Whole(l, s, h)
  <2>1. Fits(s)
    BY <1>4, <1>8, SendFits
  <2>2. SameBody(p, s)
    BY <1>8 DEF Sends
  <2>3. WillEnd(l, s, h)
    BY <1>4, <1>5, <1>8, <2>2 DEF WillEnd, SameBody
  <2>4. MaskedBody(l, s)
    BY <1>3, <1>4, <2>2, MaskedSame DEF SameBody
  <2> QED BY <1>2, <2>1, <2>3, <2>4 DEF Whole
<1>9. CASE Refused(k, l, p, s, g, h)
  <2>1. chain[k.at] # "gzip"
    BY <1>9 DEF Refused, Guards
  <2> QED BY <1>8, <1>9, <2>1 DEF Refused
<1>10. CASE Panics(k, l, p, s, g, h) \/ Left(k, l, p, s, g, h)
  BY <1>6, <1>10 DEF Panics, Left
<1>11. CASE Handled(k, l, p, s, g, h)
  <2>1. Shows(k, {}) /\ chain[k.at] # "gzip"
    BY <1>11 DEF Shows, Handled
  <2> QED BY <1>6, <1>7, <1>11, <2>1 DEF Handled
<1>12. CASE Negotiated(k, l, p, s, g, h)
  <2>1. chain[k.at] # "gzip"
    BY <1>12 DEF Negotiated
  <2> QED BY <1>6, <1>7, <1>8, <1>12, <2>1 DEF Negotiated
<1>13. CASE Recovered(k, l, p, s, g, h)
  <2>1. Fits(s)
    BY <1>4, <1>13 DEF Recovered, SameHeader, SameBody, Fits
  <2>2. WillEnd(l, s, h)
    BY <1>4, <1>5, <1>13 DEF Recovered, SameBody, WillEnd
  <2>3. MaskedBody(l, s)
    BY <1>3, <1>4, <1>13, MaskedSame DEF Recovered, SameBody
  <2> QED BY <1>2, <2>1, <2>2, <2>3 DEF Whole
<1>14. CASE Closed(k, l, p, s, g, h)
  <2>1. ~Inside(l)
    BY <1>1, <1>14, GoesOutside DEF Closed
  <2>2. CASE s = p /\ ~(Inside(k) /\ g.useZip)
    <3>1. WillEnd(l, s, h)
      BY <1>4, <2>1, <2>2 DEF WillEnd
    <3>2. MaskedBody(l, s)
      BY <1>3, <1>4, <2>2, MaskedSame
    <3> QED BY <1>2, <1>4, <2>2, <3>1, <3>2 DEF Whole
  <2>3. ASSUME NEW c \in Chunk, Adds(p, s, c), c.kind = "frame", c.shows = {}, s.closed,
               s.hdr = p.hdr
        PROVE  Whole(l, s, h)
    <3>1. Fits(s)
      BY <1>4, <2>3, AddFits
    <3>2. WillEnd(l, s, h)
      BY <2>1, <2>3 DEF WillEnd
    <3>3. Shows(k, c.shows)
      BY <2>3 DEF Shows
    <3>4. MaskedBody(l, s)
      BY <1>3, <1>4, <2>3, <3>3, MaskedAdd
    <3> QED BY <1>2, <3>1, <3>2, <3>4 DEF Whole
  <2>4. CASE SameHeader(p, s) /\ s.body = p.body /\ s.closed
    <3>1. Fits(s)
      BY <1>4, <2>4 DEF SameHeader, Fits
    <3>2. WillEnd(l, s, h)
      BY <2>1, <2>4 DEF WillEnd
    <3>3. MaskedBody(l, s)
      BY <1>3, <1>4, <2>4, MaskedSame
    <3> QED BY <1>2, <3>1, <3>2, <3>3 DEF Whole
  <2> QED BY <1>14, <2>2, <2>3, <2>4 DEF Closed
<1> QED BY <1>9, <1>10, <1>11, <1>12, <1>13, <1>14 DEF TurnsBack

-----------------------------------------------------------------------------
(* The order in which errors become answers: recovery does not stand        *)
(* outside of gzip, whose Close would send the header before a panic has    *)
(* its status, and a route with errorHandle has a recovery.                 *)
RecoveryInside ==
    \A rt \in Routes :
        /\ \A i, j \in DOMAIN rt.chain :
              rt.chain[i] = "gzip" /\ rt.chain[j] = "recovery" => i <= j
        /\ \A i \in DOMAIN rt.chain : rt.chain[i] = "errorHandle" =>
              \E j \in DOMAIN rt.chain : rt.chain[j] = "recovery"

(* The order in which failures are logged: accessLog stands before whatever *)
(* reports an error, and a recovery between it and what may panic.          *)
LogFirst ==
    \A rt \in Routes : \A i \in DOMAIN rt.chain : rt.chain[i] = "accessLog" =>
        /\ \A j \in DOMAIN rt.chain :
              rt.chain[j] \in Guards \cup {"recovery", "errorHandle"} => i < j
        /\ \E j \in DOMAIN rt.chain : /\ rt.chain[j] = "recovery"
                                      /\ \A m \in DOMAIN rt.chain : rt.chain[m] = "jwt" => j < m

(* The request of k still has to leave a middleware of that name.           *)
Ahead(k, name) == \E j \in 1..k.at : chain[j] = name

(* An answer that says 200 though the handler did not send it is changed by *)
(* a middleware ahead, or there is no error and none to come.               *)
ErrorAhead(k, p) ==
    "errorHandle" \in Middlewares /\ ~k.late /\ p.status = 200 =>
        \/ /\ ~p.sent
           /\ k.errors # <<>> => \/ k.dir = "out" /\ Ahead(k, "errorHandle")
                                 \/ k.dir = "panic" /\ Ahead(k, "recovery")
        \/ /\ k.errors = <<>> /\ k.dir \in {"out", "panic", "done"}
           /\ ~Ahead(k, "recovery") /\ ~Ahead(k, "errorHandle")
(* A panic meets recovery, which makes it an error, and an error is in the  *)
(* log or meets accessLog.                                                  *)
LogAhead(k) ==
    "accessLog" \in Middlewares =>
        /\ k.dir = "panic" => Ahead(k, "recovery")
        /\ k.dir \in {"out", "done"} =>
              /\ k.paniced => HasPrivate(k.errors)
              /\ HasPrivate(k.errors) => k.log = "error" \/ Ahead(k, "accessLog")

(* What lies before n on the way out lies ahead after the step, if it is    *)
(* met at all; and nothing lies ahead that did not before.                  *)
LEMMA StaysAhead ==
    ASSUME route \in Routes, NEW k, k.at \in 1..Len(chain), NEW l,
           NEW dir \in {"out", "panic"}, Backs(k, l, dir), NEW name
    PROVE  /\ (\E j \in DOMAIN chain : chain[j] = name /\ j < k.at) /\ name \in Met(dir)
              => Ahead(l, name) /\ l.dir = dir
           /\ Ahead(l, name) => \E j \in 1..(k.at - 1) : chain[j] = name /\ j <= l.at
           /\ l.dir \in {dir, "done"} /\ l.at \in 0..(k.at - 1)
           /\ Ahead(k, name) /\ chain[k.at] # name /\ name \in Met(dir)
              => Ahead(l, name) /\ l.dir = dir
<1>1. DOMAIN chain = 1..Len(chain) /\ Len(chain) \in Nat
  BY RouteAssumption DEF chain
<1>2. /\ l.at \in 0..(k.at - 1) /\ l.dir = (IF l.at = 0 THEN "done" ELSE dir)
      /\ \A j \in 1..(k.at - 1) : chain[j] \in Met(dir) => j <= l.at
  BY DEF Backs, OutTo
<1>3. ASSUME NEW j \in DOMAIN chain, chain[j] = name, name \in Met(dir), j < k.at
      PROVE  Ahead(l, name) /\ l.dir = dir
  <2>1. j \in 1..(k.at - 1)
    BY <1>1, <1>3
  <2>2. j <= l.at
    BY <1>2, <1>3, <2>1
  <2> QED BY <1>1, <1>2, <1>3, <2>1, <2>2 DEF Ahead
<1>4. Ahead(l, name) => \E j \in 1..(k.at - 1) : chain[j] = name /\ j <= l.at
  BY <1>1, <1>2 DEF Ahead
<1>5. ASSUME Ahead(k, name), chain[k.at] # name, name \in Met(dir)
      PROVE  Ahead(l, name) /\ l.dir = dir
  <2>1. PICK j \in 1..k.at : chain[j] = name
    BY <1>5 DEF Ahead
  <2>2. j \in DOMAIN chain /\ j < k.at
    BY <1>1, <1>5, <2>1
  <2> QED BY <1>3, <1>5, <2>1, <2>2
<1> QED BY <1>1, <1>2, <1>3, <1>4, <1>5

LEMMA MetNames ==
    /\ {"recovery", "accessLog", "errorHandle", "gzip"} = Met("out")
    /\ {"recovery", "gzip"} = Met("panic")
BY DEF Met, Wrapping, Deferring

(* The handler is the last of the chain.                                    *)
LEMMA HandlerLast ==
    ASSUME route \in Routes, NEW i \in DOMAIN chain, chain[i] = "handler",
           NEW j \in DOMAIN chain, chain[j] # "handler"
    PROVE  j < i
<1>1. DOMAIN chain = 1..Len(chain) /\ Len(chain) \in Nat
  BY RouteAssumption DEF chain
<1>2. i = Len(chain) /\ j # Len(chain)
  BY RouteAssumption DEF chain
<1> QED BY <1>1, <1>2

LEMMA TurnsBackLog ==
    ASSUME LogFirst, route \in Routes, NEW k \in Context, k.at \in 1..Len(chain), NEW l,
           NEW p, NEW s, NEW g, NEW h, Untouched(k, p), LogAhead(k),
           TurnsBack(k, l, p, s, g, h)
    PROVE  LogAhead(l)
<1> SUFFICES ASSUME "accessLog" \in Middlewares
             PROVE  /\ l.dir = "panic" => Ahead(l, "recovery")
                    /\ l.dir \in {"out", "done"} =>
                          /\ l.paniced => HasPrivate(l.errors)
                          /\ HasPrivate(l.errors) => l.log = "error" \/ Ahead(l, "accessLog")
  BY DEF LogAhead
<1>1. DOMAIN chain = 1..Len(chain) /\ Len(chain) \in Nat /\ k.at \in DOMAIN chain
  BY RouteAssumption DEF chain
<1>2. PICK a \in DOMAIN chain : chain[a] = "accessLog"
  BY DEF Middlewares
<1>3. /\ \A j \in DOMAIN chain : chain[j] \in Guards \cup {"recovery", "errorHandle"} => a < j
      /\ \E j \in DOMAIN chain : /\ chain[j] = "recovery"
                                 /\ \A m \in DOMAIN chain : chain[m] = "jwt" => j < m
  BY <1>2 DEF LogFirst, chain
<1>4. PICK j \in DOMAIN chain : /\ chain[j] = "recovery"
                                /\ \A m \in DOMAIN chain : chain[m] = "jwt" => j < m
  BY <1>3
<1>5. HasPrivate(k.errors) /\ Grew(k, l) => HasPrivate(l.errors)
  BY DEF HasPrivate, Grew
<1>6. ASSUME Backs(k, l, "out"), a < k.at PROVE Ahead(l, "accessLog") /\ l.dir = "out"
  BY <1>2, <1>6, StaysAhead, MetNames
<1>7. ASSUME Backs(k, l, "panic"), j < k.at PROVE Ahead(l, "recovery") /\ l.dir = "panic"
  BY <1>4, <1>7, StaysAhead, MetNames
<1>8. CASE Refused(k, l, p, s, g, h)
  <2>1. a < k.at
    BY <1>1, <1>3, <1>8 DEF Refused
  <2> QED BY <1>6, <1>8, <2>1 DEF Refused, Untouched
<1>9. CASE Panics(k, l, p, s, g, h)
  BY <1>1, <1>4, <1>7, <1>9 DEF Panics
<1>10. CASE Handled(k, l, p, s, g, h)
  <2>1. a < k.at /\ j < k.at
    BY <1>1, <1>2, <1>4, <1>10, HandlerLast DEF Handled
  <2>2. PICK dir \in {"out", "panic"} : Backs(k, l, dir) /\ (l.paniced => dir = "panic")
    BY <1>10 DEF Handled
  <2> QED BY <1>6, <1>7, <2>1, <2>2
<1>11. CASE Left(k, l, p, s, g, h)
  <2>1. /\ Backs(k, l, "out") /\ l.errors = k.errors /\ l.paniced = k.paniced /\ k.dir = "out"
        /\ IF chain[k.at] = "accessLog" THEN HasPrivate(k.errors) => l.log = "error"
                                        ELSE l.log = k.log
    BY <1>11 DEF Left
  <2>2. l.dir \in {"out", "done"}
    BY <2>1, StaysAhead
  <2>3. Ahead(k, "accessLog") /\ chain[k.at] # "accessLog" => Ahead(l, "accessLog")
    BY <2>1, StaysAhead, MetNames
  <2> QED BY <2>1, <2>2, <2>3 DEF LogAhead
<1>12. CASE Negotiated(k, l, p, s, g, h)
  <2>1. a < k.at /\ Backs(k, l, "out")
    BY <1>1, <1>3, <1>12 DEF Negotiated
  <2> QED BY <1>5, <1>6, <1>12, <2>1 DEF Negotiated, LogAhead
<1>13. CASE Recovered(k, l, p, s, g, h)
  <2>1. a < k.at /\ Backs(k, l, "out")
    BY <1>1, <1>3, <1>13 DEF Recovered
  <2> QED BY <1>6, <1>13, <2>1 DEF Recovered
<1>14. CASE Closed(k, l, p, s, g, h)
  <2>1. /\ chain[k.at] = "gzip" /\ Backs(k, l, k.dir) /\ k.dir \in {"out", "panic"}
        /\ l.errors = k.errors /\ l.paniced = k.paniced /\ l.log = k.log
    BY <1>14 DEF Closed, Carries
  <2>2. CASE k.dir = "panic"
    BY <2>1, <2>2, StaysAhead, MetNames DEF LogAhead
  <2>3. CASE k.dir = "out"
    <3>1. l.dir \in {"out", "done"} /\ (Ahead(k, "accessLog") => Ahead(l, "accessLog"))
      BY <2>1, <2>3, StaysAhead, MetNames
    <3> QED BY <2>1, <2>3, <3>1 DEF LogAhead
  <2> QED BY <2>1, <2>2, <2>3
<1> QED BY <1>8, <1>9, <1>10, <1>11, <1>12, <1>13, <1>14 DEF TurnsBack

(* Under that order, no header is sent before an error has its status.      *)
LEMMA TurnsBackError ==
    ASSUME GzipFirst, RecoveryInside, route \in Routes, NEW k \in Context,
           k.at \in 1..Len(chain), NEW l, NEW p \in Response, NEW s \in Response, NEW g, NEW h,
           Untouched(k, p), ErrorAhead(k, p), TurnsBack(k, l, p, s, g, h),
           Recovered(k, l, p, s, g, h) => s.status = IF p.sent THEN p.status ELSE 500
    PROVE  ErrorAhead(l, s)
<1> SUFFICES ASSUME "errorHandle" \in Middlewares, ~l.late, s.status = 200
             PROVE  \/ /\ ~s.sent
                       /\ l.errors # <<>> => \/ l.dir = "out" /\ Ahead(l, "errorHandle")
                                             \/ l.dir = "panic" /\ Ahead(l, "recovery")
                    \/ /\ l.errors = <<>> /\ l.dir \in {"out", "panic", "done"}
                       /\ ~Ahead(l, "recovery") /\ ~Ahead(l, "errorHandle")
  BY DEF ErrorAhead
<1>1. DOMAIN chain = 1..Len(chain) /\ Len(chain) \in Nat /\ k.at \in DOMAIN chain
  BY RouteAssumption DEF chain
<1>2. PICK e \in DOMAIN chain : chain[e] = "errorHandle"
  BY DEF Middlewares
<1>3. PICK c \in DOMAIN chain : chain[c] = "recovery"
  BY <1>2 DEF RecoveryInside, chain
<1>4. ASSUME ~k.late, p.status = 200
      PROVE  \/ /\ ~p.sent
                /\ k.errors # <<>> => \/ k.dir = "out" /\ Ahead(k, "errorHandle")
                                      \/ k.dir = "panic" /\ Ahead(k, "recovery")
             \/ /\ k.errors = <<>> /\ k.dir \in {"out", "panic", "done"}
                /\ ~Ahead(k, "recovery") /\ ~Ahead(k, "errorHandle")
  BY <1>4 DEF ErrorAhead
<1>5. CASE Refused(k, l, p, s, g, h)
  <2>1. ~p.sent /\ \E code \in Code \ {200} : Sends(p, s, code)
    BY <1>5 DEF Refused, Untouched
  <2> QED BY <2>1 DEF Sends
<1>6. CASE Panics(k, l, p, s, g, h)
  BY <1>6 DEF Panics, Untouched
<1>7. CASE Handled(k, l, p, s, g, h)
  <2>1. e < k.at /\ c < k.at
    BY <1>1, <1>2, <1>3, <1>7, HandlerLast DEF Handled
  <2>2. PICK dir \in {"out", "panic"} : Backs(k, l, dir)
    BY <1>7 DEF Handled
  <2>3. dir = "out" => l.dir = "out" /\ Ahead(l, "errorHandle")
    BY <1>2, <2>1, <2>2, StaysAhead, MetNames
  <2>4. dir = "panic" => l.dir = "panic" /\ Ahead(l, "recovery")
    BY <1>3, <2>1, <2>2, StaysAhead, MetNames
  <2>5. ~s.sent
    BY <1>7 DEF Handled
  <2> QED BY <2>2, <2>3, <2>4, <2>5
<1>8. CASE Left(k, l, p, s, g, h)
  <2>1. /\ Backs(k, l, "out") /\ l.errors = k.errors /\ l.late = k.late /\ s = p
        /\ k.dir = "out" /\ (chain[k.at] = "errorHandle" => k.errors = <<>>)
    BY <1>8 DEF Left
  <2>2. /\ Ahead(k, "errorHandle") /\ chain[k.at] # "errorHandle"
           => Ahead(l, "errorHandle") /\ l.dir = "out"
        /\ l.dir \in {"out", "done"} /\ l.at \in 0..(k.at - 1)
    BY <2>1, StaysAhead, MetNames
  <2>3. ASSUME NEW name, Ahead(l, name) PROVE Ahead(k, name)
    BY <1>1, <2>2, <2>3 DEF Ahead
  <2> QED BY <1>4, <2>1, <2>2, <2>3
<1>9. CASE Negotiated(k, l, p, s, g, h)
  <2>1. /\ k.dir = "out" /\ k.errors # <<>> /\ l.late = k.late
        /\ \/ IF p.sent THEN s.status = p.status ELSE s.status # 200
           \/ p.sent /\ s = p
           \/ ~p.sent /\ Sends(p, s, 406)
    BY <1>9 DEF Negotiated
  <2>2. p.sent /\ p.status = 200
    BY <2>1 DEF Sends
  <2> QED BY <1>4, <2>1, <2>2
<1>10. CASE Recovered(k, l, p, s, g, h)
  <2>1. p.sent /\ p.status = 200 /\ l.late = k.late /\ chain[k.at] = "recovery"
    BY <1>10 DEF Recovered
  <2>2. Ahead(k, "recovery")
    BY <1>1, <2>1 DEF Ahead
  <2> QED BY <1>4, <2>1, <2>2
<1>11. CASE Closed(k, l, p, s, g, h)
  <2>1. /\ k.dir \in {"out", "panic"} /\ chain[k.at] = "gzip" /\ Backs(k, l, k.dir)
        /\ l.errors = k.errors /\ l.late = k.late /\ s.status = p.status
    BY <1>11 DEF Closed, Carries
  <2>2. /\ \A i \in DOMAIN chain : chain[i] = "errorHandle" => k.at <= i
        /\ \A i \in DOMAIN chain : chain[i] = "recovery" => k.at <= i
    BY <1>1, <2>1 DEF GzipFirst, RecoveryInside, chain
  <2>3. ~Ahead(k, "errorHandle") /\ ~Ahead(k, "recovery")
    BY <1>1, <2>1, <2>2 DEF Ahead
  <2>4. l.dir \in {k.dir, "done"} /\ l.at \in 0..(k.at - 1)
    BY <2>1 DEF Backs, OutTo
  <2>5. ~Ahead(l, "errorHandle") /\ ~Ahead(l, "recovery")
    BY <1>1, <2>3, <2>4 DEF Ahead
  <2> QED BY <1>4, <2>1, <2>3, <2>4, <2>5
<1> QED BY <1>5, <1>6, <1>7, <1>8, <1>9, <1>10, <1>11 DEF TurnsBack

-----------------------------------------------------------------------------
(* What a step of r is to r, and to the other requests.                     *)
AnswerInv == \A r \in Request : Whole(ctx[r], resp[r], gw[ctx[r].writer])
Others(r) ==
    \A q \in Request \ {r} :
        /\ ctx'[q] = ctx[q] /\ SameHeader(resp[q], resp'[q]) /\ SameBody(resp[q], resp'[q])
        /\ Target(r) = r \/ chain[ctx[r].at] # "recovery" => resp'[q] = resp[q]
        /\ Inside(ctx[q]) => gw'[ctx[q].writer] = gw[ctx[q].writer]
Effect(r) ==
    /\ Others(r)
    /\ \/ Goes(ctx[r], ctx'[r], resp[r], resp'[r], gw'[ctx'[r].writer])
       \/ /\ TurnsBack(ctx[r], ctx'[r], resp[r], resp'[r], gw[ctx[r].writer],
                       gw'[ctx'[r].writer])
          /\ ctx[r].at \in 1..Len(chain)

LEMMA OthersQuiet ==
    ASSUME WebInv, NEW r \in Request, NEW l, ctx' = [ctx EXCEPT ![r] = l],
           OnlyOne(resp, resp', r), UNCHANGED gw
    PROVE  Others(r) /\ ctx'[r] = l
BY DEF Others, OnlyOne, SameHeader, SameBody, WebInv, Contexts

(* The writers of two requests inside gzip are not the same.                *)
LEMMA OthersWriter ==
    ASSUME WebInv, PoolInv, NEW r \in Request, NEW l, ctx' = [ctx EXCEPT ![r] = l],
           OnlyOne(resp, resp', r), Target(r) = r,
           \A v \in Writer : v # ctx[r].writer => gw'[v] = gw[v]
    PROVE  Others(r) /\ ctx'[r] = l
<1>1. ctx'[r] = l /\ \A q \in Request \ {r} : ctx'[q] = ctx[q] /\ resp'[q] = resp[q]
  BY DEF OnlyOne, WebInv, Contexts
<1>2. ASSUME NEW q \in Request \ {r}, Inside(ctx[q])
      PROVE  gw'[ctx[q].writer] = gw[ctx[q].writer]
  <2>1. gw[ctx[q].writer].target = q /\ ctx[q].writer # Direct /\ ctx[q].writer \in Writer
    BY <1>2 DEF PoolInv, Exclusive, Inside, WebInv, Contexts, Context
  <2>2. ctx[q].writer # ctx[r].writer
    BY <1>2, <2>1 DEF Target
  <2> QED BY <2>1, <2>2
<1> QED BY <1>1, <1>2 DEF Others, SameHeader, SameBody

(* The writer of a request on its way in is its own.                        *)
LEMMA InTarget ==
    ASSUME WebInv, PoolInv, NEW r \in Request, ctx[r].dir = "in"
    PROVE  Target(r) = r
<1>1. CASE ctx[r].writer = Direct
  BY <1>1 DEF Target
<1>2. CASE ctx[r].writer # Direct
  <2>1. route \in Routes /\ ctx[r].at \in 1..Len(chain)
    BY UnderWay
  <2>2. DOMAIN chain = 1..Len(chain) /\ Len(chain) \in Nat
    BY <2>1, RouteAssumption DEF chain
  <2>3. PICK i \in 1..(ctx[r].at - 1) : chain[i] = "gzip"
    BY <1>2 DEF PoolInv, Wrapped
  <2>4. i \in DOMAIN chain /\ i < ctx[r].at
    BY <2>1, <2>2, <2>3
  <2>5. Inside(ctx[r])
    BY <1>2, <2>3, <2>4 DEF Inside
  <2> QED BY <1>2, <2>5 DEF PoolInv, Exclusive, Target
<1> QED BY <1>1, <1>2

(* A step further in, or none.                                              *)
LEMMA GoesEffect ==
    ASSUME WebInv, AnswerInv, NEW r \in Request, ctx[r].dir = "in",
           chain[ctx[r].at] # "gzip", NEW l \in Context, l.dir = "in",
           l.at \in {ctx[r].at, ctx[r].at + 1}, l.writer = ctx[r].writer,
           Carries(ctx[r], l), ctx' = [ctx EXCEPT ![r] = l], UNCHANGED <<resp, gw>>
    PROVE  Effect(r)
<1>1. Others(r) /\ ctx'[r] = l
  BY OthersQuiet DEF OnlyOne
<1>2. DOMAIN chain = 1..Len(chain) /\ Len(chain) \in Nat /\ ctx[r].at \in 1..Len(chain)
  BY UnderWay, RouteAssumption DEF chain
<1>3. Inside(l) => Inside(ctx[r])
  <2> SUFFICES ASSUME Inside(l) PROVE Inside(ctx[r])
    OBVIOUS
  <2>1. PICK i \in DOMAIN chain : chain[i] = "gzip" /\ i < l.at
    BY DEF Inside
  <2>2. i < ctx[r].at
    BY <1>2, <2>1
  <2> QED BY <2>1, <2>2 DEF Inside
<1>4. Inside(l) => gw'[l.writer].open
  BY <1>3 DEF AnswerInv, Whole, WillEnd
<1> QED BY <1>1, <1>4 DEF Effect, Goes

LEMMA ForwardCarries ==
    ASSUME NEW k \in Context PROVE Carries(k, Forward(k))
<1>1. Forward(k) = [k EXCEPT !.at = k.at + 1]
  BY DEF Forward
<1> QED BY <1>1 DEF Context, Carries

LEMMA PassedCarries ==
    ASSUME NEW k \in Context, NEW g PROVE Carries(k, Passed(k, g))
<1>1. PICK l : l = Forward(k)
  OBVIOUS
<1>2. l \in Context /\ Carries(k, l)
  BY <1>1, ForwardContext, ForwardCarries
<1>3. PICK passed : passed = l.passed \cup {g}
  OBVIOUS
<1>4. Passed(k, g) = [l EXCEPT !.passed = passed]
  BY <1>1, <1>3 DEF Passed
<1> QED BY <1>2, <1>4 DEF Context, Carries

(* The errors of an act, a guard or a middleware come after those there     *)
(* were.                                                                    *)
LEMMA ErrorsGrow ==
    ASSUME NEW k \in Context, NEW l, NEW errs \in Errors, l.errors = k.errors \o errs
    PROVE  Grew(k, l)
<1>1. PICK a : a = k.errors
  OBVIOUS
<1>2. a \in Seq([type : Types, text : Texts]) /\ errs \in Seq([type : Types, text : Texts])
  BY <1>1 DEF Context, Errors
<1>3. \A j \in DOMAIN a : j \in DOMAIN (a \o errs) /\ (a \o errs)[j] = a[j]
  BY <1>2
<1> QED BY <1>1, <1>3 DEF Grew

LEMMA OneError ==
    ASSUME NEW k \in Context, NEW l, NEW e \in [type : Types, text : Texts],
           l.errors = Append(k.errors, e)
    PROVE  Grew(k, l) /\ (e.type = "private" => HasPrivate(l.errors))
<1>1. PICK a : a = k.errors
  OBVIOUS
<1>2. a \in Seq([type : Types, text : Texts])
  BY <1>1 DEF Context, Errors
<1>3. \A j \in DOMAIN a : j \in DOMAIN Append(a, e) /\ Append(a, e)[j] = a[j]
  BY <1>2
<1>4. Len(a) + 1 \in DOMAIN Append(a, e) /\ Append(a, e)[Len(a) + 1] = e
  BY <1>2
<1> QED BY <1>1, <1>3, <1>4 DEF Grew, HasPrivate

(* AbortWithError of gin.                                                   *)
LEMMA AbortEffect ==
    ASSUME WebInv, NEW r \in Request, ctx[r].dir \in {"in", "out"}, Target(r) = r,
           NEW code \in Code, NEW errs \in Errors, GinAbort(r, ctx[r], code, errs), UNCHANGED gw
    PROVE  /\ Others(r) /\ Backs(ctx[r], ctx'[r], "out") /\ Grew(ctx[r], ctx'[r])
           /\ ctx'[r].late = ctx[r].late /\ ctx'[r].paniced = ctx[r].paniced
           /\ ctx'[r].log = ctx[r].log
           /\ Sends(resp[r], resp'[r], code)
<1>1. /\ ctx[r] \in Context /\ resp \in [Request -> Response] /\ route \in Routes
      /\ ctx[r].at \in 1..Len(chain)
  BY UnderWay DEF WebInv, Connections
<1>2. PICK k : k = [ctx[r] EXCEPT !.errors = @ \o errs]
  OBVIOUS
<1>3. k \in Context /\ k.at = ctx[r].at /\ Same(ctx[r], k)
  BY <1>1, <1>2, ErrorsType
<1>4. /\ k.errors = ctx[r].errors \o errs /\ k.late = ctx[r].late
      /\ k.paniced = ctx[r].paniced /\ k.log = ctx[r].log
  <2>1. PICK all : all = ctx[r].errors \o errs
    OBVIOUS
  <2>2. k = [ctx[r] EXCEPT !.errors = all]
    BY <1>2, <2>1
  <2> QED BY <1>1, <2>1, <2>2 DEF Context
<1>5. PICK l : l = Out(k, "out")
  OBVIOUS
<1>6. OutTo(l, k.at, "out") /\ Carries(k, l) /\ l.writer = k.writer
  BY <1>1, <1>3, <1>5, OutWay
<1>7. ctx' = [ctx EXCEPT ![r] = l]
  BY <1>2, <1>5 DEF GinAbort
<1>8. PICK rs : rs = Status(resp, r, code)
  OBVIOUS
<1>9. /\ rs \in [Request -> Response] /\ OnlyOne(resp, rs, r)
      /\ rs[r].status = (IF resp[r].sent THEN resp[r].status ELSE code)
      /\ SameHeader(resp[r], rs[r]) /\ SameBody(resp[r], rs[r])
  BY <1>1, <1>8, StatusEffect, StatusType
<1>10. resp' = WriteHeaderNow(rs, r)
  BY <1>8 DEF GinAbort
<1>11. /\ OnlyOne(rs, resp', r) /\ resp'[r].status = rs[r].status /\ resp'[r].sent
       /\ resp'[r].hdr = rs[r].hdr /\ SameBody(rs[r], resp'[r])
       /\ IF rs[r].sent THEN resp'[r].bare = rs[r].bare /\ resp'[r].wire = rs[r].wire
                        ELSE resp'[r].bare /\ resp'[r].wire = rs[r].hdr
  BY <1>9, <1>10, HeaderEffect
<1>12. Sends(resp[r], resp'[r], code)
  BY <1>9, <1>11 DEF Sends, SameHeader, SameBody
<1>13. OnlyOne(resp, resp', r)
  BY <1>9, <1>11 DEF OnlyOne
<1>14. Others(r) /\ ctx'[r] = l
  BY <1>7, <1>13, OthersQuiet
<1>15. Grew(ctx[r], l)
  BY <1>1, <1>4, <1>6, ErrorsGrow DEF Carries
<1> QED BY <1>3, <1>4, <1>6, <1>12, <1>14, <1>15 DEF Backs, Carries, Same

-----------------------------------------------------------------------------
(* The guards.                                                              *)
LEMMA RefuseEffect ==
    ASSUME WebInv, PoolInv, NEW r \in Request, ctx[r].dir = "in", chain[ctx[r].at] \in Guards,
           NEW code \in Code \ {200}, NEW errs \in Errors, GinAbort(r, ctx[r], code, errs),
           UNCHANGED gw
    PROVE  Effect(r)
<1>1. Target(r) = r
  BY InTarget
<1>2. /\ Others(r) /\ Backs(ctx[r], ctx'[r], "out") /\ Grew(ctx[r], ctx'[r])
      /\ ctx'[r].late = ctx[r].late /\ ctx'[r].paniced = ctx[r].paniced
      /\ ctx'[r].log = ctx[r].log /\ Sends(resp[r], resp'[r], code)
  BY <1>1, AbortEffect
<1>3. gw'[ctx'[r].writer] = gw[ctx[r].writer]
  BY <1>2 DEF Backs
<1>4. Refused(ctx[r], ctx'[r], resp[r], resp'[r], gw[ctx[r].writer], gw'[ctx'[r].writer])
  BY <1>2, <1>3 DEF Refused
<1> QED BY <1>2, <1>4, UnderWay DEF Effect, TurnsBack

LEMMA PassEffect ==
    ASSUME WebInv, AnswerInv, NEW r \in Request, NEW g \in Guards, At(r, g),
           ctx' = [ctx EXCEPT ![r] = Passed(ctx[r], g)], UNCHANGED <<resp, gw>>
    PROVE  Effect(r)
<1>1. ctx[r] \in Context /\ ctx[r].dir = "in" /\ chain[ctx[r].at] # "gzip"
  BY UnderWay DEF At, Guards
<1>2. PICK l : l = Passed(ctx[r], g)
  OBVIOUS
<1>3. /\ l \in Context /\ l.dir = "in" /\ l.at = ctx[r].at + 1 /\ l.writer = ctx[r].writer
      /\ Carries(ctx[r], l)
  BY <1>1, <1>2, PassedContext, PassedCarries
<1> QED BY <1>1, <1>2, <1>3, GoesEffect

LEMMA SkipEffect ==
    ASSUME WebInv, AnswerInv, NEW r \in Request, ctx[r].dir = "in", chain[ctx[r].at] # "gzip",
           ctx' = [ctx EXCEPT ![r] = Forward(ctx[r])], UNCHANGED <<resp, gw>>
    PROVE  Effect(r)
<1>1. ctx[r] \in Context
  BY UnderWay
<1>2. PICK l : l = Forward(ctx[r])
  OBVIOUS
<1>3. /\ l \in Context /\ l.dir = "in" /\ l.at = ctx[r].at + 1 /\ Same(ctx[r], l)
      /\ Carries(ctx[r], l)
  BY <1>1, <1>2, ForwardContext, ForwardCarries
<1> QED BY <1>1, <1>2, <1>3, GoesEffect DEF Same

LEMMA SilentEffect ==
    ASSUME WebInv, AnswerInv, NEW r \in Request, ctx[r].dir = "in", chain[ctx[r].at] # "gzip",
           ctx' = [ctx EXCEPT ![r] = [Forward(ctx[r]) EXCEPT !.silent = TRUE]],
           UNCHANGED <<resp, gw>>
    PROVE  Effect(r)
<1>1. ctx[r] \in Context
  BY UnderWay
<1>2. PICK k : k = Forward(ctx[r])
  OBVIOUS
<1>3. /\ k \in Context /\ k.dir = "in" /\ k.at = ctx[r].at + 1 /\ Same(ctx[r], k)
      /\ Carries(ctx[r], k)
  BY <1>1, <1>2, ForwardContext, ForwardCarries
<1>4. PICK l : l = [k EXCEPT !.silent = TRUE]
  OBVIOUS
<1>5. l \in Context
  BY <1>3, <1>4 DEF Context
<1>6. l.dir = k.dir /\ l.at = k.at /\ l.writer = k.writer /\ Carries(k, l)
  BY <1>3, <1>4 DEF Context, Carries
<1>7. l.writer = ctx[r].writer /\ Carries(ctx[r], l) /\ ctx' = [ctx EXCEPT ![r] = l]
  BY <1>2, <1>3, <1>4, <1>6 DEF Carries, Same
<1> QED BY <1>3, <1>5, <1>6, <1>7, GoesEffect

LEMMA JWTEffect ==
    ASSUME WebInv, PoolInv, AnswerInv, NEW r \in Request, JWT(r) PROVE Effect(r)
<1>1. /\ At(r, "jwt") /\ ctx[r].dir = "in" /\ chain[ctx[r].at] = "jwt" /\ UNCHANGED gw
      /\ ctx[r] \in Context /\ route \in Routes /\ ctx[r].at \in 1..Len(chain)
      /\ tokens \subseteq Token
  BY UnderWay DEF JWT, At, WebInv, Contexts
<1>2. CASE Skipper(ctx[r])
  <2>1. ctx' = [ctx EXCEPT ![r] = Forward(ctx[r])] /\ UNCHANGED resp
    BY <1>2, Zenon DEF JWT
  <2> QED BY <1>1, <2>1, SkipEffect
<1>3. CASE GinAbort(r, ctx[r], 401, <<Private("token")>>)
  BY <1>1, <1>3, PrivateType, RefuseEffect DEF Code, Texts, Guards
<1>4. CASE /\ ctx' = [ctx EXCEPT ![r] = [Forward(ctx[r]) EXCEPT !.silent = TRUE]]
           /\ UNCHANGED resp
  BY <1>1, <1>4, SilentEffect
<1>5. CASE /\ ctx' = [ctx EXCEPT ![r] = Out([ctx[r] EXCEPT !.paniced = TRUE], "panic")]
           /\ UNCHANGED resp
  <2>1. PICK k : k = [ctx[r] EXCEPT !.paniced = TRUE]
    OBVIOUS
  <2>2. k \in Context
    BY <1>1, <2>1 DEF Context
  <2>3. /\ k.at = ctx[r].at /\ k.writer = ctx[r].writer /\ k.errors = ctx[r].errors
        /\ k.late = ctx[r].late /\ k.log = ctx[r].log
    BY <1>1, <2>1 DEF Context
  <2>4. PICK l : l = Out(k, "panic")
    OBVIOUS
  <2>5. OutTo(l, k.at, "panic") /\ Carries(k, l) /\ l.writer = k.writer
    BY <1>1, <2>2, <2>3, <2>4, OutWay
  <2>6. ctx' = [ctx EXCEPT ![r] = l]
    BY <1>5, <2>1, <2>4
  <2>7. Others(r) /\ ctx'[r] = l
    BY <1>1, <1>5, <2>6, OthersQuiet DEF OnlyOne
  <2>8. Panics(ctx[r], l, resp[r], resp'[r], gw[ctx[r].writer], gw'[l.writer])
    BY <1>1, <1>5, <2>3, <2>5 DEF Panics, Backs, Carries
  <2> QED BY <1>1, <2>7, <2>8 DEF Effect, TurnsBack
<1>6. ASSUME NEW t \in Token, UNCHANGED resp,
             ctx' = [ctx EXCEPT ![r] = [Passed(ctx[r], "jwt") EXCEPT !.principal = t]]
      PROVE  Effect(r)
  <2>1. PICK k : k = Passed(ctx[r], "jwt")
    OBVIOUS
  <2>2. /\ k \in Context /\ k.dir = "in" /\ k.at = ctx[r].at + 1 /\ k.writer = ctx[r].writer
        /\ Carries(ctx[r], k)
    BY <1>1, <2>1, PassedContext, PassedCarries DEF Guards
  <2>3. PICK l : l = [k EXCEPT !.principal = t]
    OBVIOUS
  <2>4. l \in Context
    BY <1>6, <2>2, <2>3 DEF Context
  <2>5. l.dir = k.dir /\ l.at = k.at /\ l.writer = k.writer /\ Carries(k, l)
    BY <2>2, <2>3 DEF Context, Carries
  <2>6. Carries(ctx[r], l) /\ ctx' = [ctx EXCEPT ![r] = l]
    BY <1>6, <2>1, <2>2, <2>3, <2>5 DEF Carries
  <2> QED BY <1>1, <1>6, <2>2, <2>4, <2>5, <2>6, GoesEffect
<1>7. CASE ~Skipper(ctx[r])
  <2> DEFINE H(auths) == {i \in {1, 2} :
                            auths[i] # "missing" /\ HandleToken(auths[i]) # "error"}
  <2>1. PICK auths \in {"missing", "bad"} \X (Token \cup {"missing", "nojti"}) :
          IF H(auths) = {}
          THEN \E cleared \in Clears :
                 IF cleared
                 THEN ctx' = [ctx EXCEPT ![r] = [Forward(ctx[r]) EXCEPT !.silent = TRUE]]
                      /\ UNCHANGED resp
                 ELSE GinAbort(r, ctx[r], 401, <<Private("token")>>)
          ELSE /\ ctx' = [ctx EXCEPT ![r] =
                    IF HandleToken(auths[Min(H(auths))]) = "panic"
                    THEN Out([ctx[r] EXCEPT !.paniced = TRUE], "panic")
                    ELSE [Passed(ctx[r], "jwt") EXCEPT !.principal = auths[Min(H(auths))]]]
               /\ UNCHANGED resp
    BY <1>7, Zenon DEF JWT
  <2>2. PICK hits : hits = H(auths)
    OBVIOUS
  <2>3. CASE hits = {}
    BY <1>3, <1>4, <2>1, <2>2, <2>3
  <2>4. CASE hits # {}
    <3>1. UNCHANGED resp
      BY <2>1, <2>2, <2>4, Zenon
    <3>2. PICK t : t = auths[Min(hits)]
      OBVIOUS
    <3>3. ctx' = [ctx EXCEPT ![r] =
                    IF HandleToken(t) = "panic"
                    THEN Out([ctx[r] EXCEPT !.paniced = TRUE], "panic")
                    ELSE [Passed(ctx[r], "jwt") EXCEPT !.principal = t]]
      BY <2>1, <2>2, <2>4, <3>2, Zenon
    <3>4. HandleToken(t) # "error"
      BY <2>2, <2>4, <3>2, FirstHit
    <3>5. HandleToken(t) # "panic" => t \in Token
      BY <1>1, <3>4 DEF HandleToken
    <3>6. CASE HandleToken(t) = "panic"
      BY <1>5, <3>1, <3>3, <3>6
    <3>7. CASE HandleToken(t) # "panic"
      BY <1>6, <3>1, <3>3, <3>5, <3>7
    <3> QED BY <3>6, <3>7
  <2> QED BY <2>3, <2>4
<1> QED BY <1>2, <1>7

LEMMA KeyAuthEffect ==
    ASSUME WebInv, PoolInv, AnswerInv, NEW r \in Request, KeyAuth(r) PROVE Effect(r)
<1>1. At(r, "keyAuth") /\ ctx[r].dir = "in" /\ chain[ctx[r].at] = "keyAuth" /\ UNCHANGED gw
  BY DEF KeyAuth, At
<1>2. CASE ctx' = [ctx EXCEPT ![r] = Forward(ctx[r])] /\ UNCHANGED resp
  BY <1>1, <1>2, SkipEffect
<1>3. CASE ctx' = [ctx EXCEPT ![r] = Passed(ctx[r], "keyAuth")] /\ UNCHANGED resp
  BY <1>1, <1>3, PassEffect DEF Guards
<1>4. CASE ctx' = [ctx EXCEPT ![r] = [Forward(ctx[r]) EXCEPT !.silent = TRUE]] /\ UNCHANGED resp
  BY <1>1, <1>4, SilentEffect
<1>5. CASE GinAbort(r, ctx[r], 401, <<Private("key")>>)
  BY <1>1, <1>5, PrivateType, RefuseEffect DEF Code, Texts, Guards
<1> QED BY <1>2, <1>3, <1>4, <1>5 DEF KeyAuth

LEMMA CsrfEffect ==
    ASSUME WebInv, PoolInv, AnswerInv, NEW r \in Request, Csrf(r) PROVE Effect(r)
<1>1. /\ At(r, "csrf") /\ ctx[r].dir = "in" /\ chain[ctx[r].at] = "csrf" /\ UNCHANGED gw
      /\ ctx \in [Request -> Context]
  BY DEF Csrf, At, WebInv, Contexts
<1>2. CASE ctx' = [ctx EXCEPT ![r] = Forward(ctx[r])] /\ UNCHANGED resp
  BY <1>1, <1>2, SkipEffect
<1>3. CASE ctx' = [ctx EXCEPT ![r] = Passed(ctx[r], "csrf")] /\ UNCHANGED resp
  BY <1>1, <1>3, PassEffect DEF Guards
<1>4. CASE GinAbort(r, ctx[r], 403, <<Private("csrf")>>)
  BY <1>1, <1>4, PrivateType, RefuseEffect DEF Code, Texts, Guards
<1> QED BY <1>1, <1>2, <1>3, <1>4 DEF Csrf

LEMMA AuthzEffect ==
    ASSUME WebInv, PoolInv, AnswerInv, NEW r \in Request, Authz(r) PROVE Effect(r)
<1>1. At(r, "authz") /\ ctx[r].dir = "in" /\ chain[ctx[r].at] = "authz" /\ UNCHANGED gw
  BY DEF Authz, At
<1>2. CASE ctx' = [ctx EXCEPT ![r] = Passed(ctx[r], "authz")] /\ UNCHANGED resp
  BY <1>1, <1>2, PassEffect DEF Guards
<1>3. CASE GinAbort(r, ctx[r], 403, <<Private("authz")>>)
  BY <1>1, <1>3, PrivateType, RefuseEffect DEF Code, Texts, Guards
<1>4. CASE GinAbort(r, ctx[r], 403, <<>>)
  <2>1. <<>> \in Errors /\ 403 \in Code \ {200} /\ chain[ctx[r].at] \in Guards
    BY <1>1 DEF Code, Errors, Guards
  <2> QED BY <1>1, <1>4, <2>1, RefuseEffect
<1> QED BY <1>2, <1>3, <1>4 DEF Authz

LEMMA SignVerifyEffect ==
    ASSUME WebInv, PoolInv, AnswerInv, NEW r \in Request, SignVerify(r) PROVE Effect(r)
<1>1. /\ At(r, "sign") /\ ctx[r].dir = "in" /\ chain[ctx[r].at] = "sign" /\ UNCHANGED gw
      /\ ctx[r] \in Context /\ ctx \in [Request -> Context]
  BY UnderWay DEF SignVerify, At, WebInv, Contexts
<1>2. CASE ctx' = [ctx EXCEPT ![r] = Forward(ctx[r])] /\ UNCHANGED resp
  BY <1>1, <1>2, SkipEffect
<1>3. CASE GinAbort(r, ctx[r], 401, <<Private("signature")>>)
  BY <1>1, <1>3, PrivateType, RefuseEffect DEF Code, Texts, Guards
<1>4. CASE UNCHANGED <<ctx, resp>>
  <2>1. PICK l : l = ctx[r]
    OBVIOUS
  <2>2. ctx' = [ctx EXCEPT ![r] = l] /\ Carries(ctx[r], l)
    BY <1>1, <1>4, <2>1 DEF Carries
  <2> QED BY <1>1, <1>4, <2>1, <2>2, GoesEffect
<1> QED BY <1>2, <1>3, <1>4 DEF SignVerify

LEMMA signatureValidateEffect ==
    ASSUME WebInv, PoolInv, AnswerInv, NEW r \in Request, signatureValidate(r) PROVE Effect(r)
<1>1. At(r, "sign") /\ ctx[r].dir = "in" /\ chain[ctx[r].at] = "sign" /\ UNCHANGED gw
  BY DEF signatureValidate, At
<1>2. CASE ctx' = [ctx EXCEPT ![r] = Passed(ctx[r], "sign")] /\ UNCHANGED resp
  BY <1>1, <1>2, PassEffect DEF Guards
<1>3. CASE GinAbort(r, ctx[r], 401, <<Private("replayed")>>)
  BY <1>1, <1>3, PrivateType, RefuseEffect DEF Code, Texts, Guards
<1> QED BY <1>2, <1>3 DEF signatureValidate

(* The middlewares that only call c.Next, on the way in.                    *)
LEMMA EnterEffect ==
    ASSUME WebInv, AnswerInv, NEW r \in Request, Enter(r) PROVE Effect(r)
<1>1. /\ ctx[r].dir = "in" /\ chain[ctx[r].at] # "gzip" /\ UNCHANGED <<resp, gw>>
      /\ ctx[r] \in Context
  BY UnderWay DEF Enter, At
<1>2. PICK k : k = Forward(ctx[r])
  OBVIOUS
<1>3. /\ k \in Context /\ k.dir = "in" /\ k.at = ctx[r].at + 1 /\ Same(ctx[r], k)
      /\ Carries(ctx[r], k)
  BY <1>1, <1>2, ForwardContext, ForwardCarries
<1>4. PICK carrier : carrier = (k.carrier \/ chain[ctx[r].at] = "accessLog")
  OBVIOUS
<1>5. PICK l : l = [k EXCEPT !.carrier = carrier]
  OBVIOUS
<1>6. l \in Context
  <2>1. carrier \in BOOLEAN
    BY <1>4
  <2> QED BY <1>3, <1>5, <2>1, Zenon DEF Context
<1>7. l.dir = k.dir /\ l.at = k.at /\ l.writer = k.writer /\ Carries(k, l)
  BY <1>3, <1>5 DEF Context, Carries
<1>8. ctx' = [ctx EXCEPT ![r] = l]
  <2>1. ctx' = [ctx EXCEPT ![r] = [Forward(ctx[r]) EXCEPT
                    !.carrier = Forward(ctx[r]).carrier \/ chain[ctx[r].at] = "accessLog"]]
    BY DEF Enter
  <2> QED BY <1>2, <1>4, <1>5, <2>1
<1>9. l.writer = ctx[r].writer /\ Carries(ctx[r], l)
  BY <1>3, <1>7 DEF Carries, Same
<1> QED BY <1>1, <1>3, <1>6, <1>7, <1>8, <1>9, GoesEffect

(* gzip takes a writer no request is inside of, and opens it.               *)
LEMMA GzipEnterEffect ==
    ASSUME GzipFirst, WebInv, PoolInv, AnswerInv, NEW r \in Request, GzipEnter(r)
    PROVE  Effect(r)
<1>1. /\ ctx[r].dir = "in" /\ chain[ctx[r].at] = "gzip" /\ UNCHANGED resp
      /\ ctx[r] \in Context /\ route \in Routes /\ ctx[r].at \in 1..Len(chain)
      /\ ctx \in [Request -> Context] /\ gw \in [Writer -> GzipWriter]
  BY UnderWay DEF GzipEnter, At, WebInv, Contexts, Connections
<1>2. PICK k : k = Forward(ctx[r])
  OBVIOUS
<1>3. /\ k \in Context /\ k.dir = "in" /\ k.at = ctx[r].at + 1 /\ k.writer = ctx[r].writer
      /\ Carries(ctx[r], k)
  BY <1>1, <1>2, ForwardContext, ForwardCarries DEF Same
<1>4. ctx[r].writer = Direct
  <2> SUFFICES ASSUME ctx[r].writer # Direct PROVE FALSE
    OBVIOUS
  <2>1. PICK i \in 1..(ctx[r].at - 1) : chain[i] = "gzip"
    BY <1>1 DEF PoolInv, Wrapped
  <2>2. i \in DOMAIN chain /\ ctx[r].at \in DOMAIN chain
    BY <1>1, <2>1, RouteAssumption DEF chain
  <2>3. i = ctx[r].at
    BY <1>1, <2>1, <2>2, OneGzip
  <2> QED BY <1>1, <2>1, <2>3
<1>5. CASE ctx' = [ctx EXCEPT ![r] = Forward(ctx[r])] /\ UNCHANGED gw
  <2>1. ctx' = [ctx EXCEPT ![r] = k]
    BY <1>2, <1>5
  <2>2. Others(r) /\ ctx'[r] = k
    BY <1>1, <1>5, <2>1, OthersQuiet DEF OnlyOne
  <2>3. ~Inside(k)
    BY <1>3, <1>4 DEF Inside
  <2> QED BY <1>1, <1>3, <2>2, <2>3 DEF Effect, Goes
<1>6. ASSUME NEW w \in Writer, w \in pool \/ \A q \in Request : ctx[q].writer # w,
             gw' = [gw EXCEPT ![w] = [gw[w] EXCEPT !.target = r, !.open = TRUE]],
             ctx' = [ctx EXCEPT ![r] = [Forward(ctx[r]) EXCEPT !.writer = w]]
      PROVE  Effect(r)
  <2>1. PICK l : l = [k EXCEPT !.writer = w]
    OBVIOUS
  <2>2. l.writer = w /\ l.dir = "in" /\ Carries(ctx[r], l)
    BY <1>3, <2>1 DEF Context, Carries
  <2>3. ctx'[r] = l /\ \A q \in Request \ {r} : ctx'[q] = ctx[q]
    BY <1>1, <1>2, <1>6, <2>1
  <2>4. gw'[w].open /\ \A v \in Writer \ {w} : gw'[v] = gw[v]
    BY <1>1, <1>6 DEF GzipWriter
  <2>5. ASSUME NEW q \in Request \ {r}, Inside(ctx[q])
        PROVE  gw'[ctx[q].writer] = gw[ctx[q].writer]
    <3>1. ctx[q].writer \notin pool /\ ctx[q].writer \in Writer
      BY <1>1, <2>5 DEF PoolInv, Exclusive, Inside, Context
    <3> QED BY <1>6, <2>4, <2>5, <3>1
  <2>6. Others(r)
    BY <1>1, <2>3, <2>5 DEF Others, SameHeader, SameBody
  <2> QED BY <1>1, <2>2, <2>3, <2>4, <2>6 DEF Effect, Goes
<1>7. \/ ctx' = [ctx EXCEPT ![r] = Forward(ctx[r])] /\ UNCHANGED gw
      \/ \E w \in Writer :
           /\ w \in pool \/ \A q \in Request : ctx[q].writer # w
           /\ gw' = [gw EXCEPT ![w] = [gw[w] EXCEPT !.target = r, !.open = TRUE]]
           /\ ctx' = [ctx EXCEPT ![r] = [Forward(ctx[r]) EXCEPT !.writer = w]]
  BY <1>1 DEF GzipEnter
<1> QED BY <1>5, <1>6, <1>7

-----------------------------------------------------------------------------
(* The handler and errorHandle write from inside of gzip, if their writer   *)
(* is of its pool at all.                                                   *)
LEMMA WriterIsOpen ==
    ASSUME GzipFirst, WebInv, PoolInv, AnswerInv, NEW r \in Request,
           ctx[r].dir \in {"in", "out", "panic"}, ctx[r].writer # Direct,
           \/ chain[ctx[r].at] \in {"handler", "errorHandle"}
           \/ chain[ctx[r].at] = "gzip" /\ ctx[r].dir # "in"
    PROVE  Inside(ctx[r]) /\ gw[ctx[r].writer].open /\ ctx[r].writer \in Writer
<1>1. route \in Routes /\ ctx[r].at \in 1..Len(chain) /\ ctx[r] \in Context
  BY UnderWay
<1>2. DOMAIN chain = 1..Len(chain) /\ Len(chain) \in Nat
  BY <1>1, RouteAssumption DEF chain
<1>3. PICK i \in DOMAIN chain : chain[i] = "gzip"
  BY DEF PoolInv, Wrapped
<1>4. i < ctx[r].at \/ (i = ctx[r].at /\ ctx[r].dir # "in")
  <2>1. CASE chain[ctx[r].at] = "handler"
    BY <1>1, <1>2, <1>3, <2>1, HandlerLast
  <2>2. CASE chain[ctx[r].at] = "errorHandle"
    BY <1>1, <1>2, <1>3, <2>2 DEF GzipFirst, chain
  <2>3. CASE chain[ctx[r].at] = "gzip" /\ ctx[r].dir # "in"
    BY <1>1, <1>2, <1>3, <2>3, OneGzip
  <2> QED BY <2>1, <2>2, <2>3
<1>5. Inside(ctx[r])
  BY <1>3, <1>4 DEF Inside
<1> QED BY <1>1, <1>5 DEF AnswerInv, Whole, WillEnd, Context

Wrote(r, rs, w, shows) ==
    /\ w.ok = TRUE /\ w.rs[r].status = rs[r].status
    /\ OnlyOne(rs, w.rs, r) /\ \A u \in Writer : u # ctx[r].writer => w.gw[u] = gw[u]
    /\ Writes(ctx[r], rs[r], w.rs[r], gw[ctx[r].writer], w.gw[ctx[r].writer], shows)
Writable(r) ==
    /\ Target(r) = r
    /\ ctx[r].writer # Direct
          => Inside(ctx[r]) /\ gw[ctx[r].writer].open /\ ctx[r].writer \in Writer

LEMMA WriteEffect ==
    ASSUME WebInv, NEW r \in Request, Writable(r), NEW rs \in [Request -> Response],
           NEW size \in {"small", "large"}, NEW chunk \in Chunk, chunk.kind = "plain"
    PROVE  Wrote(r, rs, Write(r, rs, size, chunk), chunk.shows)
<1> DEFINE v == ctx[r].writer
<1>0. /\ Target(r) = r
      /\ ctx[r].writer # Direct
            => Inside(ctx[r]) /\ gw[ctx[r].writer].open /\ ctx[r].writer \in Writer
  BY DEF Writable
<1>1. gw \in [Writer -> GzipWriter]
  BY DEF WebInv, Connections
<1>2. PICK w : w = Write(r, rs, size, chunk)
  OBVIOUS
<1>3. ASSUME w.rs = Emit(rs, r, chunk), w.gw[v].open = gw[v].open
      PROVE  /\ w.rs[r].status = rs[r].status /\ OnlyOne(rs, w.rs, r)
             /\ Writes(ctx[r], rs[r], w.rs[r], gw[v], w.gw[v], chunk.shows)
  <2>1. PICK s : s = Emit(rs, r, chunk)[r]
    OBVIOUS
  <2>2. /\ s.status = rs[r].status /\ s.sent /\ s.hdr = rs[r].hdr
        /\ s.wire = (IF rs[r].sent THEN rs[r].wire ELSE rs[r].hdr)
        /\ s.bare = rs[r].bare /\ s.closed = rs[r].closed /\ s.body = Append(rs[r].body, chunk)
        /\ OnlyOne(rs, Emit(rs, r, chunk), r)
    BY <2>1, EmitEffect
  <2>3. Adds(rs[r], s, chunk)
    BY <2>2 DEF Adds
  <2>4. Writes(ctx[r], rs[r], s, gw[v], w.gw[v], chunk.shows)
    BY <1>3, <2>2, <2>3 DEF Writes
  <2> QED BY <1>3, <2>1, <2>2, <2>4
<1>4. CASE v = Direct
  <2>1. w = [rs |-> Emit(rs, r, chunk), gw |-> gw, ok |-> TRUE]
    BY <1>0, <1>2, <1>4 DEF Write
  <2> QED BY <1>2, <1>3, <2>1 DEF Wrote
<1>5. CASE v # Direct /\ size = "small"
  <2>1. w = [rs |-> Emit(rs, r, chunk), gw |-> [gw EXCEPT ![v].useZip = FALSE], ok |-> TRUE]
    BY <1>0, <1>2, <1>5 DEF Write
  <2>2. w.gw = [gw EXCEPT ![v].useZip = FALSE] /\ w.ok = TRUE /\ w.rs = Emit(rs, r, chunk)
    BY <2>1
  <2>3. w.gw[v].open = gw[v].open /\ \A u \in Writer : u # v => w.gw[u] = gw[u]
    BY <1>1, <1>5, <2>2 DEF GzipWriter
  <2> QED BY <1>2, <1>3, <2>2, <2>3 DEF Wrote
<1>6. CASE v # Direct /\ size # "small"
  <2>0. v \in Writer /\ gw[v].open /\ Inside(ctx[r])
    BY <1>0, <1>6
  <2>1. PICK p, hdr : p = rs[r] /\ hdr = rs[r].hdr \cup {"gzip"}
    OBVIOUS
  <2>2. p \in Response /\ hdr \in SUBSET Header /\ "gzip" \in hdr
    BY <2>1 DEF Response, Header
  <2>3. PICK one : one = [p EXCEPT !.hdr = hdr, !.closed = FALSE]
    OBVIOUS
  <2>4. one \in Response
    BY <2>2, <2>3 DEF Response
  <2>5. /\ one.status = p.status /\ one.sent = p.sent /\ one.hdr = hdr /\ one.wire = p.wire
        /\ one.bare = p.bare /\ one.body = p.body /\ ~one.closed
    BY <2>2, <2>3 DEF Response
  <2>6. PICK base : base = [rs EXCEPT ![r] = one]
    OBVIOUS
  <2>7. base \in [Request -> Response] /\ base[r] = one /\ OnlyOne(rs, base, r)
    BY <2>4, <2>6 DEF OnlyOne
  <2>8. base = [rs EXCEPT ![r].hdr = @ \cup {"gzip"}, ![r].closed = FALSE]
    BY <2>1, <2>3, <2>6
  <2>9. PICK zip : zip = [chunk EXCEPT !.kind = "zip"]
    OBVIOUS
  <2>10. zip \in Chunk /\ zip.kind = "zip" /\ zip.shows = chunk.shows
    BY <2>9 DEF Chunk
  <2>11. /\ w.rs = Emit(base, r, zip) /\ w.gw = [gw EXCEPT ![v].useZip = TRUE]
         /\ w.ok = gw[v].open
    BY <1>0, <1>2, <1>6, <2>0, <2>8, <2>9 DEF Write
  <2>12. PICK s : s = Emit(base, r, zip)[r]
    OBVIOUS
  <2>13. /\ s.status = one.status /\ s.sent /\ s.hdr = hdr
         /\ s.wire = (IF one.sent THEN one.wire ELSE hdr)
         /\ s.bare = one.bare /\ ~s.closed /\ s.body = Append(one.body, zip)
         /\ OnlyOne(base, Emit(base, r, zip), r)
    BY <2>5, <2>7, <2>10, <2>12, EmitEffect
  <2>14. Adds(p, s, zip)
    BY <2>5, <2>13 DEF Adds
  <2>15. /\ w.gw[v].open = gw[v].open /\ w.gw[v].useZip
         /\ \A u \in Writer : u # v => w.gw[u] = gw[u]
    <3>1. PICK g, h : g = gw[v] /\ h = [g EXCEPT !.useZip = TRUE]
      OBVIOUS
    <3>2. g \in GzipWriter
      BY <1>1, <2>0, <3>1
    <3>3. h.open = g.open /\ h.useZip
      BY <3>1, <3>2 DEF GzipWriter
    <3>4. w.gw = [gw EXCEPT ![v] = h]
      BY <2>11, <3>1
    <3> HIDE DEF v
    <3> QED BY <1>1, <2>0, <3>1, <3>3, <3>4
  <2>16. Writes(ctx[r], p, s, gw[v], w.gw[v], chunk.shows)
    BY <2>0, <2>2, <2>10, <2>13, <2>14, <2>15 DEF Writes
  <2>17. OnlyOne(rs, w.rs, r)
    BY <2>7, <2>11, <2>13 DEF OnlyOne
  <2>18. w.ok = TRUE
    BY <1>1, <2>0, <2>11 DEF GzipWriter
  <2> QED BY <1>2, <2>1, <2>5, <2>11, <2>12, <2>13, <2>15, <2>16, <2>17, <2>18
     DEF Wrote
<1> QED BY <1>2, <1>4, <1>5, <1>6

(* The way out from where the request is.                                   *)
LEMMA BacksOut ==
    ASSUME WebInv, NEW r \in Request, ctx[r].dir \in {"in", "out", "panic"},
           NEW k \in Context, k.at = ctx[r].at, k.writer = ctx[r].writer,
           NEW dir \in {"out", "panic"}, NEW l, l = Out(k, dir)
    PROVE  Backs(ctx[r], l, dir) /\ Carries(k, l)
<1>1. route \in Routes /\ k.at \in 1..Len(chain)
  BY UnderWay
<1>2. OutTo(l, k.at, dir) /\ Carries(k, l) /\ l.writer = k.writer
  BY <1>1, OutWay
<1> QED BY <1>2 DEF Backs

LEMMA HandlerEffect ==
    ASSUME GzipFirst, WebInv, PoolInv, AnswerInv, NEW r \in Request, Handler(r) PROVE Effect(r)
<1> DEFINE chunk == [from |-> r, kind |-> "plain", shows |-> {}]
           W(act) == IF act.size = "none" THEN [rs |-> resp, gw |-> gw, ok |-> TRUE]
                     ELSE Write(r, resp, act.size, chunk)
           c == [ctx[r] EXCEPT !.ran = TRUE]
<1>1. PICK act \in route.acts :
        /\ resp' = W(act).rs /\ gw' = W(act).gw
        /\ ctx' = [ctx EXCEPT ![r] =
              Out([c EXCEPT !.errors = c.errors \o act.errors,
                            !.late = W(act).rs[Target(r)].sent,
                            !.paniced = act.dir = "panic" \/ ~W(act).ok,
                            !.fields = IF c.carrier THEN c.fields \cup act.fields
                                       ELSE c.fields],
                  IF W(act).ok THEN act.dir ELSE "panic")]
  BY Zenon DEF Handler
<1>2. /\ ctx[r] \in Context /\ route \in Routes /\ ctx[r].dir = "in"
      /\ chain[ctx[r].at] = "handler" /\ ctx[r].at \in 1..Len(chain)
      /\ resp \in [Request -> Response]
  BY UnderWay DEF Handler, At, WebInv, Connections
<1>3. Target(r) = r
  BY <1>2, InTarget
<1>4. act \in Acts
  BY <1>1, <1>2, RouteAssumption
<1>5. /\ act.errors \in Errors /\ act.dir \in {"out", "panic"}
      /\ act.fields \in SUBSET {"error", "panic"} /\ act.size \in {"none", "small", "large"}
  BY <1>4 DEF Acts
<1>6. chunk \in Chunk /\ chunk.kind = "plain" /\ chunk.shows = {}
  BY DEF Chunk
<1> HIDE DEF chunk, c
<1>7. PICK w, j : w = W(act) /\ j = c
  OBVIOUS
<1>8. /\ w.ok = TRUE /\ OnlyOne(resp, w.rs, r) /\ w.rs[r] \in Response
      /\ \A u \in Writer : u # ctx[r].writer => w.gw[u] = gw[u]
      /\ \/ w.rs[r] = resp[r] /\ w.gw[ctx[r].writer] = gw[ctx[r].writer]
         \/ /\ w.rs[r].status = resp[r].status
            /\ Writes(ctx[r], resp[r], w.rs[r], gw[ctx[r].writer], w.gw[ctx[r].writer], {})
  <2>1. CASE act.size = "none"
    BY <1>2, <1>7, <2>1 DEF OnlyOne
  <2>2. CASE act.size # "none"
    <3>1. w = Write(r, resp, act.size, chunk) /\ act.size \in {"small", "large"}
      BY <1>5, <1>7, <2>2
    <3>2. ctx[r].writer # Direct
            => Inside(ctx[r]) /\ gw[ctx[r].writer].open /\ ctx[r].writer \in Writer
      BY <1>2, WriterIsOpen
    <3>3. w.rs \in [Request -> Response]
      BY <1>2, <1>6, <3>1, WriteType
    <3>4. PICK size : size = act.size
      OBVIOUS
    <3>5. Wrote(r, resp, w, chunk.shows)
      <4>1. size \in {"small", "large"} /\ w = Write(r, resp, size, chunk)
        BY <3>1, <3>4
      <4>2. resp \in [Request -> Response] /\ Writable(r)
        BY <1>2, <1>3, <3>2 DEF Writable
      <4> QED BY <1>6, <4>1, <4>2, WriteEffect
    <3> QED BY <1>6, <3>3, <3>5 DEF Wrote
  <2> QED BY <2>1, <2>2
<1>9. /\ resp' = w.rs /\ gw' = w.gw
      /\ ctx' = [ctx EXCEPT ![r] =
            Out([j EXCEPT !.errors = j.errors \o act.errors, !.late = w.rs[r].sent,
                          !.paniced = act.dir = "panic" \/ ~w.ok,
                          !.fields = IF j.carrier THEN j.fields \cup act.fields
                                     ELSE j.fields],
                IF w.ok THEN act.dir ELSE "panic")]
  BY <1>1, <1>3, <1>7, Zenon
<1> HIDE DEF W
<1>10. j \in Context
  BY <1>2, <1>7 DEF Context, c
<1>11. PICK errs, late, paniced, fields :
         /\ errs = j.errors \o act.errors /\ late = w.rs[r].sent
         /\ paniced = (act.dir = "panic" \/ ~w.ok)
         /\ fields = IF j.carrier THEN j.fields \cup act.fields ELSE j.fields
  OBVIOUS
<1>12. errs \in Errors
  <2>1. j.errors \in Errors
    BY <1>10 DEF Context
  <2> QED BY <1>5, <1>11, <2>1 DEF Errors
<1>13. late \in BOOLEAN /\ paniced \in BOOLEAN
  BY <1>8, <1>11, Zenon DEF Response
<1>14. fields \in SUBSET {"error", "panic"}
  <2>1. j.fields \in SUBSET {"error", "panic"}
    BY <1>10 DEF Context
  <2> QED BY <1>5, <1>11, <2>1
<1>15. PICK k : k = [j EXCEPT !.errors = errs, !.late = late, !.paniced = paniced,
                             !.fields = fields]
  OBVIOUS
<1>16. k \in Context
  BY <1>10, <1>12, <1>13, <1>14, <1>15, ActContext
<1>17. /\ k.at = j.at /\ k.writer = j.writer /\ k.errors = errs /\ k.late = late
       /\ k.paniced = paniced /\ k.log = j.log
  BY <1>10, <1>15 DEF Context
<1>18. /\ j.at = ctx[r].at /\ j.writer = ctx[r].writer /\ j.errors = ctx[r].errors
       /\ j.log = ctx[r].log
  BY <1>2, <1>7 DEF Context, c
<1>19. PICK l : l = Out(k, act.dir)
  OBVIOUS
<1>20. ctx' = [ctx EXCEPT ![r] = l]
  BY <1>8, <1>9, <1>11, <1>15, <1>19
<1>21. Backs(ctx[r], l, act.dir) /\ Carries(k, l)
  BY <1>2, <1>5, <1>16, <1>17, <1>18, <1>19, BacksOut
<1>22. Others(r) /\ ctx'[r] = l
  BY <1>3, <1>8, <1>9, <1>20, OthersWriter
<1>23. Grew(ctx[r], l)
  <2>1. l.errors = ctx[r].errors \o act.errors
    BY <1>11, <1>17, <1>18, <1>21 DEF Carries
  <2> QED BY <1>2, <1>5, <2>1, ErrorsGrow
<1>24. l.paniced => act.dir = "panic"
  BY <1>8, <1>11, <1>17, <1>21 DEF Carries
<1>25. l.late = resp'[r].sent /\ l.log = ctx[r].log /\ l.writer = ctx[r].writer
  BY <1>9, <1>11, <1>17, <1>18, <1>21 DEF Carries, Backs
<1>26. Handled(ctx[r], l, resp[r], resp'[r], gw[ctx[r].writer], gw'[l.writer])
  BY <1>2, <1>5, <1>8, <1>9, <1>21, <1>23, <1>24, <1>25 DEF Handled
<1> QED BY <1>2, <1>22, <1>26 DEF Effect, TurnsBack

LEMMA LogoutHandlerEffect ==
    ASSUME WebInv, AnswerInv, NEW r \in Request, LogoutHandler(r) PROVE Effect(r)
<1>1. /\ ctx[r] \in Context /\ ctx[r].dir = "in" /\ chain[ctx[r].at] = "handler"
      /\ ctx[r].at \in 1..Len(chain) /\ ctx \in [Request -> Context] /\ UNCHANGED <<resp, gw>>
  BY UnderWay DEF LogoutHandler, At, WebInv, Contexts
<1>2. PICK k : k = [ctx[r] EXCEPT !.ran = TRUE]
  OBVIOUS
<1>3. k \in Context
  BY <1>1, <1>2 DEF Context
<1>4. k.at = ctx[r].at /\ k.writer = ctx[r].writer /\ Carries(ctx[r], k)
  BY <1>1, <1>2 DEF Context, Carries
<1>5. PICK l : l = Out(k, "out")
  OBVIOUS
<1>6. Backs(ctx[r], l, "out") /\ Carries(k, l)
  BY <1>1, <1>3, <1>4, <1>5, BacksOut
<1>7. ctx' = [ctx EXCEPT ![r] = l]
  BY <1>1, <1>2, <1>5 DEF LogoutHandler
<1>8. Others(r) /\ ctx'[r] = l
  BY <1>1, <1>7, OthersQuiet DEF OnlyOne
<1>9. ~ctx[r].paniced /\ ~ctx[r].late /\ ~resp[r].sent
  BY <1>1 DEF AnswerInv, Whole, Untouched
<1>10. /\ Grew(ctx[r], l) /\ l.late = ctx[r].late /\ ~l.paniced /\ l.log = ctx[r].log
       /\ l.writer = ctx[r].writer
  BY <1>4, <1>6, <1>9 DEF Carries, Grew, Backs
<1>11. l.late = resp[r].sent
  <2>1. ctx[r].late \in BOOLEAN /\ resp[r].sent \in BOOLEAN
    BY <1>1 DEF Context, WebInv, Connections, Response
  <2> QED BY <1>9, <1>10, <2>1
<1>12. Handled(ctx[r], l, resp[r], resp'[r], gw[ctx[r].writer], gw'[l.writer])
  BY <1>1, <1>6, <1>10, <1>11 DEF Handled
<1> QED BY <1>1, <1>8, <1>12 DEF Effect, TurnsBack

-----------------------------------------------------------------------------
(* The middlewares on the way out.                                          *)
LEMMA LeftEffect ==
    ASSUME WebInv, NEW r \in Request, ctx[r].dir = "out",
           chain[ctx[r].at] \in {"recovery", "accessLog", "errorHandle"},
           chain[ctx[r].at] = "errorHandle" => ctx[r].errors = <<>>,
           NEW k \in Context, k.at = ctx[r].at, k.writer = ctx[r].writer,
           k.errors = ctx[r].errors, k.late = ctx[r].late, k.paniced = ctx[r].paniced,
           IF chain[ctx[r].at] = "accessLog" THEN HasPrivate(k.errors) => k.log = "error"
                                             ELSE k.log = ctx[r].log,
           ctx' = [ctx EXCEPT ![r] = Out(k, "out")], UNCHANGED <<resp, gw>>
    PROVE  Effect(r)
<1>1. PICK l : l = Out(k, "out")
  OBVIOUS
<1>2. Backs(ctx[r], l, "out") /\ Carries(k, l)
  BY <1>1, BacksOut
<1>3. Others(r) /\ ctx'[r] = l
  BY <1>1, OthersQuiet DEF OnlyOne
<1>4. Left(ctx[r], l, resp[r], resp'[r], gw[ctx[r].writer], gw'[l.writer])
  BY <1>2 DEF Left, Carries, Backs
<1> QED BY <1>3, <1>4, UnderWay DEF Effect, TurnsBack

LEMMA RecoveryLeaveEffect ==
    ASSUME WebInv, NEW r \in Request, RecoveryLeave(r) PROVE Effect(r)
<1>1. PICK k : k = ctx[r]
  OBVIOUS
<1>2. /\ ctx[r].dir = "out" /\ chain[ctx[r].at] = "recovery" /\ UNCHANGED <<resp, gw>>
      /\ k \in Context /\ ctx \in [Request -> Context]
  BY <1>1, UnderWay DEF RecoveryLeave, Leaving, WebInv, Contexts
<1>3. ctx' = [ctx EXCEPT ![r] = Out(k, "out")]
  BY <1>1, <1>2 DEF RecoveryLeave
<1> QED BY <1>1, <1>2, <1>3, LeftEffect

LEMMA AccessLogLeaveEffect ==
    ASSUME WebInv, NEW r \in Request, AccessLogLeave(r) PROVE Effect(r)
<1> DEFINE private == \E i \in DOMAIN ctx[r].errors : IsType(ctx[r].errors[i], "private")
           skip == Skipper(ctx[r]) /\ ctx[r].errors = <<>>
<1>1. ctx[r].dir = "out" /\ chain[ctx[r].at] = "accessLog" /\ UNCHANGED <<resp, gw>>
      /\ ctx[r] \in Context
  BY UnderWay DEF AccessLogLeave, Leaving
<1>2. PICK log : log = IF skip THEN ctx[r].log
                       ELSE IF private \/ "error" \in ctx[r].fields THEN "error" ELSE "info"
  OBVIOUS
<1>3. PICK k : k = [ctx[r] EXCEPT !.log = log]
  OBVIOUS
<1>4. ctx' = [ctx EXCEPT ![r] = Out(k, "out")]
  BY <1>2, <1>3 DEF AccessLogLeave
<1>5. log \in {"none", "error", "info"}
  BY <1>1, <1>2 DEF Context
<1>6. HasPrivate(ctx[r].errors) => log = "error"
  BY <1>2 DEF HasPrivate, IsType
<1>7. k \in Context
  BY <1>1, <1>3, <1>5 DEF Context
<1>8. /\ k.at = ctx[r].at /\ k.writer = ctx[r].writer /\ k.errors = ctx[r].errors
      /\ k.late = ctx[r].late /\ k.paniced = ctx[r].paniced /\ k.log = log
  BY <1>1, <1>3 DEF Context
<1> QED BY <1>1, <1>4, <1>6, <1>7, <1>8, LeftEffect

LEMMA HandleRecoverErrorEffect ==
    ASSUME WebInv, NEW r \in Request, HandleRecoverError(r)
    PROVE  /\ Effect(r)
           /\ Target(r) = r =>
                resp'[r].status = IF resp[r].sent THEN resp[r].status ELSE 500
<1>1. /\ ctx[r].dir = "panic" /\ chain[ctx[r].at] = "recovery" /\ UNCHANGED gw
      /\ ctx[r] \in Context /\ ctx[r].at \in 1..Len(chain) /\ ctx \in [Request -> Context]
      /\ resp \in [Request -> Response] /\ Target(r) \in Request
  BY UnderWay, TargetType DEF HandleRecoverError, WebInv, Contexts, Connections
<1>2. PICK j : j = IF ctx[r].carrier THEN [ctx[r] EXCEPT !.fields = @ \cup {"panic"}]
                   ELSE [ctx[r] EXCEPT !.log = "error"]
  OBVIOUS
<1>3. /\ j \in Context /\ j.at = ctx[r].at /\ j.writer = ctx[r].writer
      /\ j.errors = ctx[r].errors /\ j.late = ctx[r].late /\ j.paniced = ctx[r].paniced
  <2>1. CASE ctx[r].carrier
    <3>1. PICK fields : fields = ctx[r].fields \cup {"panic"}
      OBVIOUS
    <3>2. j = [ctx[r] EXCEPT !.fields = fields] /\ fields \in SUBSET {"error", "panic"}
      BY <1>1, <1>2, <2>1, <3>1 DEF Context
    <3>3. j \in Context
      BY <1>1, <3>2, Zenon DEF Context
    <3> QED BY <1>1, <3>2, <3>3 DEF Context
  <2>2. CASE ~ctx[r].carrier
    <3>1. j = [ctx[r] EXCEPT !.log = "error"]
      BY <1>2, <2>2
    <3>2. j \in Context
      BY <1>1, <3>1 DEF Context
    <3> QED BY <1>1, <3>1, <3>2 DEF Context
  <2> QED BY <2>1, <2>2
<1>4. PICK e : e = Private("panic")
  OBVIOUS
<1>5. e \in [type : Types, text : Texts] /\ e.type = "private"
  BY <1>4, PrivateType DEF Private, Texts
<1>6. PICK k : k = Error(j, e)
  OBVIOUS
<1>7. k \in Context /\ Same(j, k) /\ k.at = j.at
  BY <1>3, <1>5, <1>6, ErrorType
<1>8. k.errors = Append(j.errors, e) /\ k.late = j.late /\ k.paniced = j.paniced
  <2>1. PICK errs : errs = Append(j.errors, e)
    OBVIOUS
  <2>2. k = [j EXCEPT !.errors = errs]
    BY <1>6, <2>1 DEF Error
  <2> QED BY <1>3, <2>1, <2>2 DEF Context
<1>9. PICK l : l = Out(k, "out")
  OBVIOUS
<1>10. Backs(ctx[r], l, "out") /\ Carries(k, l)
  BY <1>1, <1>3, <1>7, <1>9, BacksOut DEF Same
<1>11. ctx' = [ctx EXCEPT ![r] = l] /\ resp' = Status(resp, Target(r), 500)
  BY <1>2, <1>4, <1>6, <1>9 DEF HandleRecoverError, AbortWithError
<1>12. ctx'[r] = l /\ \A q \in Request \ {r} : ctx'[q] = ctx[q]
  BY <1>1, <1>11
<1>13. PICK t : t = Target(r)
  OBVIOUS
<1>14. /\ OnlyOne(resp, resp', t) /\ SameHeader(resp[t], resp'[t]) /\ SameBody(resp[t], resp'[t])
       /\ resp'[t].status = IF resp[t].sent THEN resp[t].status ELSE 500
  BY <1>1, <1>11, <1>13, StatusEffect DEF Code
<1>15. \A q \in Request : SameHeader(resp[q], resp'[q]) /\ SameBody(resp[q], resp'[q])
  <2> TAKE q \in Request
  <2>1. CASE q = t
    BY <1>14, <2>1
  <2>2. CASE q # t
    BY <1>14, <2>2 DEF OnlyOne, SameHeader, SameBody
  <2> QED BY <2>1, <2>2
<1>16. Others(r)
  BY <1>1, <1>12, <1>13, <1>14, <1>15 DEF Others, OnlyOne
<1>17. Grew(ctx[r], l) /\ HasPrivate(l.errors)
  <2>1. l.errors = Append(ctx[r].errors, e)
    BY <1>3, <1>8, <1>10 DEF Carries
  <2> QED BY <1>1, <1>5, <2>1, OneError
<1>18. l.late = ctx[r].late /\ l.paniced = ctx[r].paniced /\ l.writer = ctx[r].writer
  BY <1>3, <1>8, <1>10 DEF Carries, Backs
<1>19. Recovered(ctx[r], l, resp[r], resp'[r], gw[ctx[r].writer], gw'[l.writer])
  BY <1>1, <1>10, <1>15, <1>17, <1>18 DEF Recovered
<1> QED BY <1>1, <1>12, <1>13, <1>14, <1>16, <1>19 DEF Effect, TurnsBack

(* Close ends the stream of the request that leaves gzip.                   *)
LEMMA GzipLeaveEffect ==
    ASSUME GzipFirst, WebInv, PoolInv, AnswerInv, NEW r \in Request, GzipLeave(r)
    PROVE  Effect(r)
<1> DEFINE w == ctx[r].writer
           frame == [from |-> r, kind |-> "frame", shows |-> {}]
<1>1. /\ ctx[r].dir \in {"out", "panic"} /\ chain[ctx[r].at] = "gzip"
      /\ ctx[r] \in Context /\ ctx[r].at \in 1..Len(chain) /\ ctx \in [Request -> Context]
      /\ resp \in [Request -> Response] /\ gw \in [Writer -> GzipWriter]
  BY UnderWay DEF GzipLeave, WebInv, Contexts, Connections
<1>2. Target(r) = r
  BY <1>1, OwnTarget
<1>3. PICK k, dir : k = ctx[r] /\ dir = ctx[r].dir
  OBVIOUS
<1>4. PICK l : l = Out(k, dir)
  OBVIOUS
<1>5. Backs(ctx[r], l, dir) /\ Carries(k, l)
  BY <1>1, <1>3, <1>4, BacksOut
<1>6. ctx' = [ctx EXCEPT ![r] = l]
  BY <1>1, <1>3, <1>4 DEF GzipLeave
<1>7. CASE w = Direct
  <2>1. UNCHANGED <<resp, gw>>
    BY <1>7 DEF GzipLeave
  <2>2. Others(r) /\ ctx'[r] = l
    BY <1>6, <2>1, OthersQuiet DEF OnlyOne
  <2>3. ~Inside(ctx[r])
    BY <1>7 DEF Inside
  <2>4. Closed(ctx[r], l, resp[r], resp'[r], gw[ctx[r].writer], gw'[l.writer])
    BY <1>1, <1>3, <1>5, <2>1, <2>3 DEF Closed
  <2> QED BY <1>1, <2>2, <2>4 DEF Effect, TurnsBack
<1>8. CASE w # Direct
  <2>1. /\ gw' = [gw EXCEPT ![w].open = FALSE]
        /\ resp' = IF ~gw[w].useZip THEN resp
                   ELSE IF resp[r].closed THEN Emit(resp, r, frame)
                   ELSE [resp EXCEPT ![r].closed = TRUE]
    BY <1>2, <1>8 DEF GzipLeave
  <2>2. \A v \in Writer : v # ctx[r].writer => gw'[v] = gw[v]
    BY <1>1, <2>1
  <2>3. frame \in Chunk /\ frame.kind = "frame" /\ frame.shows = {}
    BY DEF Chunk
  <2> HIDE DEF frame
  <2>4. /\ OnlyOne(resp, resp', r) /\ resp'[r].status = resp[r].status
        /\ \/ resp'[r] = resp[r] /\ ~gw[w].useZip
           \/ /\ resp[r].closed /\ resp'[r].closed /\ resp'[r].hdr = resp[r].hdr
              /\ Adds(resp[r], resp'[r], frame)
           \/ /\ SameHeader(resp[r], resp'[r]) /\ resp'[r].body = resp[r].body
              /\ resp'[r].closed
    <3>1. CASE ~gw[w].useZip
      BY <2>1, <3>1 DEF OnlyOne
    <3>2. CASE gw[w].useZip /\ resp[r].closed
      <4>1. resp' = Emit(resp, r, frame)
        BY <2>1, <3>2
      <4>2. PICK s : s = Emit(resp, r, frame)[r]
        OBVIOUS
      <4>3. /\ s.status = resp[r].status /\ s.sent /\ s.hdr = resp[r].hdr
            /\ s.wire = (IF resp[r].sent THEN resp[r].wire ELSE resp[r].hdr)
            /\ s.bare = resp[r].bare /\ s.closed = resp[r].closed
            /\ s.body = Append(resp[r].body, frame)
            /\ OnlyOne(resp, Emit(resp, r, frame), r)
        BY <1>1, <2>3, <4>2, EmitEffect
      <4> QED BY <3>2, <4>1, <4>2, <4>3 DEF Adds
    <3>3. CASE gw[w].useZip /\ ~resp[r].closed
      <4>1. PICK p, s : p = resp[r] /\ s = [p EXCEPT !.closed = TRUE]
        OBVIOUS
      <4>2. p \in Response
        BY <1>1, <4>1
      <4>3. SameHeader(p, s) /\ s.body = p.body /\ s.closed /\ s.status = p.status
        BY <4>1, <4>2 DEF Response, SameHeader
      <4>4. resp' = [resp EXCEPT ![r] = s]
        BY <2>1, <3>3, <4>1
      <4> QED BY <1>1, <4>1, <4>3, <4>4 DEF OnlyOne
    <3> QED BY <3>1, <3>2, <3>3
  <2>5. Others(r) /\ ctx'[r] = l
    BY <1>2, <1>6, <2>2, <2>4, OthersWriter
  <2>6. Closed(ctx[r], l, resp[r], resp'[r], gw[ctx[r].writer], gw'[l.writer])
    BY <1>1, <1>3, <1>5, <2>3, <2>4 DEF Closed
  <2> QED BY <1>1, <2>5, <2>6 DEF Effect, TurnsBack
<1> QED BY <1>7, <1>8

(* DefaultErrorParser with a Message shows the text of public errors only.  *)
LEMMA ParserShows ==
    ASSUME NEW k \in Context, NEW status \in Code
    PROVE  /\ Shows(k, DefaultErrorParser(k, status).shows)
           /\ DefaultErrorParser(k, status).code # 200
<1>1. DefaultErrorParser(k, status).code # 200
  BY DEF DefaultErrorParser, Code
<1>2. ASSUME NEW i \in DOMAIN k.errors,
             NEW t \in FormatResponseError(k.errors[i].type, k.errors[i],
                          IF k.errors[i].type = "public" THEN {} ELSE {"message"})
      PROVE  \/ t \in {"customer", "message"}
             \/ k.errors[i] = [type |-> "public", text |-> t]
  <2>1. PICK e : e = k.errors[i]
    OBVIOUS
  <2>2. e \in [type : Types, text : Texts]
    <3>1. PICK errs : errs = k.errors
      OBVIOUS
    <3>2. errs \in Seq([type : Types, text : Texts])
      BY <3>1 DEF Context, Errors
    <3> QED BY <1>2, <2>1, <3>1, <3>2, SeqElement
  <2>3. t \in {"customer", "message"} \/ (t = e.text /\ e.type = "public")
    BY <1>2, <2>1 DEF FormatResponseError, LookupErrorCode
  <2> QED BY <2>1, <2>2, <2>3
<1>3. Shows(k, DefaultErrorParser(k, status).shows)
  <2>1. ASSUME NEW t \in DefaultErrorParser(k, status).shows
        PROVE  \E i \in DOMAIN k.errors :
                  t \in FormatResponseError(k.errors[i].type, k.errors[i],
                          IF k.errors[i].type = "public" THEN {} ELSE {"message"})
    BY <2>1 DEF DefaultErrorParser
  <2> QED BY <1>2, <2>1, Zenon DEF Shows
<1> QED BY <1>1, <1>3

LEMMA ErrorHandleLeaveEffect ==
    ASSUME GzipFirst, WebInv, PoolInv, AnswerInv, NEW r \in Request, ErrorHandleLeave(r)
    PROVE  Effect(r)
<1>1. /\ ctx[r].dir = "out" /\ chain[ctx[r].at] = "errorHandle"
      /\ ctx[r] \in Context /\ ctx[r].at \in 1..Len(chain) /\ ctx \in [Request -> Context]
      /\ resp \in [Request -> Response]
  BY UnderWay DEF ErrorHandleLeave, Leaving, WebInv, Contexts, Connections
<1>2. Writable(r) /\ Target(r) = r
  BY <1>1, OwnTarget, WriterIsOpen DEF Writable
<1>3. PICK k, p : k = ctx[r] /\ p = resp[r]
  OBVIOUS
<1>4. k \in Context /\ p \in Response
  BY <1>1, <1>3
<1>5. CASE ctx[r].errors = <<>>
  <2>1. ctx' = [ctx EXCEPT ![r] = Out(k, "out")] /\ UNCHANGED <<resp, gw>>
    BY <1>3, <1>5 DEF ErrorHandleLeave
  <2> QED BY <1>1, <1>3, <1>4, <1>5, <2>1, LeftEffect
<1>6. CASE ctx[r].errors # <<>>
  <2>1. PICK parsed : parsed = DefaultErrorParser(k, p.status)
    OBVIOUS
  <2>2. /\ parsed.code \in Code /\ parsed.code # 200 /\ parsed.shows \in SUBSET Shown
        /\ Shows(k, parsed.shows)
    <3>1. p.status \in Code
      BY <1>4 DEF Response
    <3> QED BY <1>4, <2>1, <3>1, ParserType, ParserShows
  <2>3. NegotiateResponse(r, parsed.code, parsed.shows)
    BY <1>2, <1>3, <1>6, <2>1 DEF ErrorHandleLeave
  <2> DEFINE status == IF p.sent \/ p.status # 200 THEN p.status ELSE parsed.code
             chunk == [from |-> r, kind |-> "plain", shows |-> parsed.shows]
             rs == [Status(resp, r, status) EXCEPT ![r].hdr = @ \cup {"json"}]
             none == Private("format")
  <2>4. status \in Code /\ (p.sent \/ status # 200)
    BY <1>4, <2>2 DEF Response
  <2>5. chunk \in Chunk /\ chunk.kind = "plain" /\ chunk.shows = parsed.shows
    BY <2>2 DEF Chunk
  <2>6. none \in [type : Types, text : Texts] /\ <<none>> \in Errors
    BY PrivateType DEF Texts
  <2>7. \/ \E size \in {"small", "large"} :
             /\ resp' = Write(r, rs, size, chunk).rs /\ gw' = Write(r, rs, size, chunk).gw
             /\ ctx' = [ctx EXCEPT ![r] =
                   Out(k, IF Write(r, rs, size, chunk).ok THEN "out" ELSE "panic")]
        \/ /\ UNCHANGED <<resp, gw>> /\ p.sent
           /\ ctx' = [ctx EXCEPT ![r] = Out(Error(k, none), "out")]
        \/ UNCHANGED gw /\ ~p.sent /\ GinAbort(r, ctx[r], 406, <<none>>)
    <3> DEFINE q == Target(r)
               given == IF resp[q].sent \/ resp[q].status # 200 THEN resp[q].status
                        ELSE parsed.code
               as == [Status(resp, q, given) EXCEPT ![q].hdr = @ \cup {"json"}]
    <3>1. \/ \E size \in {"small", "large"} :
               /\ resp' = Write(r, as, size, chunk).rs /\ gw' = Write(r, as, size, chunk).gw
               /\ ctx' = [ctx EXCEPT ![r] =
                     Out(ctx[r], IF Write(r, as, size, chunk).ok THEN "out" ELSE "panic")]
          \/ /\ gw' = gw
             /\ IF resp[q].sent
                THEN ctx' = [ctx EXCEPT ![r] = Out(Error(ctx[r], none), "out")] /\ UNCHANGED resp
                ELSE GinAbort(r, ctx[r], 406, <<none>>)
      BY <2>3, Zenon DEF NegotiateResponse
    <3>2. as = rs /\ resp[q] = p
      BY <1>2, <1>3
    <3> HIDE DEF q, as, rs, chunk, none
    <3> QED BY <1>3, <3>1, <3>2, Zenon
  <2> HIDE DEF status, chunk, rs, none
  <2>8. /\ rs \in [Request -> Response] /\ OnlyOne(resp, rs, r)
        /\ rs[r].status = (IF p.sent THEN p.status ELSE status)
        /\ rs[r].sent = p.sent /\ rs[r].bare = p.bare /\ rs[r].wire = p.wire
        /\ ("gzip" \in rs[r].hdr <=> "gzip" \in p.hdr) /\ SameBody(p, rs[r])
    <3>1. PICK base : base = Status(resp, r, status)
      OBVIOUS
    <3>2. /\ base \in [Request -> Response] /\ OnlyOne(resp, base, r)
          /\ base[r].status = (IF p.sent THEN p.status ELSE status)
          /\ SameHeader(p, base[r]) /\ SameBody(p, base[r])
      BY <1>1, <1>3, <2>4, <3>1, StatusType, StatusEffect
    <3>3. PICK b, hdr : b = base[r] /\ hdr = base[r].hdr \cup {"json"}
      OBVIOUS
    <3>4. b \in Response /\ hdr \in SUBSET Header /\ ("gzip" \in hdr <=> "gzip" \in b.hdr)
      BY <3>2, <3>3 DEF Response, Header
    <3>5. PICK new : new = [b EXCEPT !.hdr = hdr]
      OBVIOUS
    <3>6. new \in Response
      BY <3>4, <3>5 DEF Response
    <3>7. /\ new.status = b.status /\ new.sent = b.sent /\ new.bare = b.bare
          /\ new.wire = b.wire /\ new.hdr = hdr /\ SameBody(b, new)
      BY <3>4, <3>5 DEF Response, SameBody
    <3>8. rs = [base EXCEPT ![r] = new]
      BY <3>1, <3>3, <3>5 DEF rs
    <3>9. rs \in [Request -> Response] /\ rs[r] = new /\ OnlyOne(resp, rs, r)
      BY <3>2, <3>6, <3>8 DEF OnlyOne
    <3> QED BY <3>2, <3>3, <3>4, <3>7, <3>9 DEF SameHeader, SameBody
  <2>9. ASSUME NEW size \in {"small", "large"}, resp' = Write(r, rs, size, chunk).rs,
               gw' = Write(r, rs, size, chunk).gw,
               ctx' = [ctx EXCEPT ![r] =
                         Out(k, IF Write(r, rs, size, chunk).ok THEN "out" ELSE "panic")]
        PROVE  Effect(r)
    <3>1. PICK w : w = Write(r, rs, size, chunk)
      OBVIOUS
    <3>2. Wrote(r, rs, w, parsed.shows)
      BY <1>2, <2>5, <2>8, <2>9, <3>1, WriteEffect
    <3>3. PICK l, s : l = Out(k, "out") /\ s = w.rs[r]
      OBVIOUS
    <3>4. ctx' = [ctx EXCEPT ![r] = l] /\ resp' = w.rs /\ gw' = w.gw
      BY <2>9, <3>1, <3>2, <3>3 DEF Wrote
    <3>5. Backs(ctx[r], l, "out") /\ Carries(k, l)
      BY <1>1, <1>3, <1>4, <3>3, BacksOut
    <3>6. OnlyOne(resp, resp', r) /\ \A v \in Writer : v # ctx[r].writer => gw'[v] = gw[v]
      BY <2>8, <3>2, <3>4 DEF Wrote, OnlyOne
    <3>7. Others(r) /\ ctx'[r] = l
      BY <1>2, <3>4, <3>6, OthersWriter
    <3>8. PICK g, h : g = gw[ctx[r].writer] /\ h = gw'[ctx[r].writer]
      OBVIOUS
    <3>9. Writes(k, rs[r], s, g, h, parsed.shows) /\ s.status = rs[r].status
      BY <1>3, <3>2, <3>3, <3>4, <3>8 DEF Wrote
    <3>10. Writes(k, p, s, g, h, parsed.shows)
      BY <2>8, <3>9 DEF Writes, Adds, SameBody
    <3>11. IF p.sent THEN s.status = p.status ELSE s.status # 200
      BY <2>4, <2>8, <3>9
    <3>12. l.errors = k.errors /\ l.late = k.late /\ l.paniced = k.paniced /\ l.log = k.log
           /\ Grew(k, l)
      BY <3>5 DEF Carries, Grew
    <3>13. Negotiated(k, l, p, s, g, h)
      BY <1>1, <1>3, <1>6, <2>2, <3>5, <3>10, <3>11, <3>12 DEF Negotiated
    <3>14. l.writer = ctx[r].writer
      BY <3>5 DEF Backs
    <3> QED BY <1>1, <1>3, <3>3, <3>4, <3>7, <3>8, <3>13, <3>14 DEF Effect, TurnsBack
  <2>10. CASE /\ UNCHANGED <<resp, gw>> /\ p.sent
              /\ ctx' = [ctx EXCEPT ![r] = Out(Error(k, none), "out")]
    <3>1. PICK j, l : j = Error(k, none) /\ l = Out(j, "out")
      OBVIOUS
    <3>2. j \in Context /\ Same(k, j) /\ j.at = k.at
      BY <1>4, <2>6, <3>1, ErrorType
    <3>3. /\ j.errors = Append(k.errors, none) /\ j.late = k.late /\ j.paniced = k.paniced
          /\ j.log = k.log
      <4>1. PICK errs : errs = Append(k.errors, none)
        OBVIOUS
      <4>2. j = [k EXCEPT !.errors = errs]
        BY <3>1, <4>1 DEF Error
      <4> QED BY <1>4, <4>1, <4>2 DEF Context
    <3>4. Backs(ctx[r], l, "out") /\ Carries(j, l)
      BY <1>1, <1>3, <3>1, <3>2, BacksOut DEF Same
    <3>5. Grew(k, l)
      <4>1. l.errors = Append(k.errors, none)
        BY <3>3, <3>4 DEF Carries
      <4> QED BY <1>4, <2>6, <4>1, OneError
    <3>6. Others(r) /\ ctx'[r] = l
      BY <2>10, <3>1, OthersQuiet DEF OnlyOne
    <3>7. Negotiated(ctx[r], l, resp[r], resp'[r], gw[ctx[r].writer], gw'[l.writer])
      BY <1>1, <1>3, <1>6, <2>10, <3>3, <3>4, <3>5 DEF Negotiated, Carries, Backs
    <3> QED BY <1>1, <3>6, <3>7 DEF Effect, TurnsBack
  <2>11. CASE UNCHANGED gw /\ ~p.sent /\ GinAbort(r, ctx[r], 406, <<none>>)
    <3>1. /\ Others(r) /\ Backs(ctx[r], ctx'[r], "out") /\ Grew(ctx[r], ctx'[r])
          /\ ctx'[r].late = ctx[r].late /\ ctx'[r].paniced = ctx[r].paniced
          /\ ctx'[r].log = ctx[r].log /\ Sends(resp[r], resp'[r], 406)
      <4>1. 406 \in Code
        BY DEF Code
      <4> QED BY <1>1, <1>2, <2>6, <2>11, <4>1, AbortEffect
    <3>2. gw'[ctx'[r].writer] = gw[ctx[r].writer]
      BY <2>11, <3>1 DEF Backs
    <3>3. Negotiated(ctx[r], ctx'[r], resp[r], resp'[r], gw[ctx[r].writer],
                     gw'[ctx'[r].writer])
      BY <1>1, <1>3, <1>6, <2>11, <3>1, <3>2 DEF Negotiated
    <3> QED BY <1>1, <3>1, <3>3 DEF Effect, TurnsBack
  <2> QED BY <2>7, <2>9, <2>10, <2>11
<1> QED BY <1>5, <1>6

LEMMA StartEffect == ASSUME WebInv, PoolInv, NEW r \in Request, Start(r) PROVE Effect(r)
<1>1. PICK x \in BOOLEAN :
        ctx' = [ctx EXCEPT ![r] =
                  [ctx[r] EXCEPT !.dir = "in", !.at = 1, !.excluded = x, !.live = tokens]]
  BY Zenon DEF Start
<1>2. /\ ctx[r] \in Context /\ ctx[r].dir = "idle" /\ ctx[r].at = 0 /\ UNCHANGED <<resp, gw>>
  BY DEF Start, WebInv, Contexts, Sound, Placed
<1>3. ctx[r].writer = Direct
  BY <1>2 DEF PoolInv, Wrapped
<1>4. PICK l : l = [ctx[r] EXCEPT !.dir = "in", !.at = 1, !.excluded = x, !.live = tokens]
  OBVIOUS
<1>5. l.writer = Direct /\ l.dir = "in" /\ Carries(ctx[r], l)
  BY <1>2, <1>3, <1>4 DEF Context, Carries
<1>6. Others(r) /\ ctx'[r] = l
  BY <1>1, <1>2, <1>4, OthersQuiet DEF OnlyOne
<1>7. ~Inside(l)
  BY <1>5 DEF Inside
<1> QED BY <1>2, <1>5, <1>6, <1>7 DEF Effect, Goes

LEMMA StepEffect ==
    ASSUME GzipFirst, WebInv, PoolInv, AnswerInv, NEW r \in Request, Start(r) \/ Step(r)
    PROVE  Effect(r)
BY StartEffect, EnterEffect, GzipEnterEffect, JWTEffect, KeyAuthEffect, SignVerifyEffect,
   signatureValidateEffect, CsrfEffect, AuthzEffect, HandlerEffect, LogoutHandlerEffect,
   GzipLeaveEffect, ErrorHandleLeaveEffect, HandleRecoverErrorEffect, AccessLogLeaveEffect,
   RecoveryLeaveEffect
DEF Step

(* The parts of the invariant do not look at what else changes.             *)
LEMMA ChainKept ==
    ASSUME UNCHANGED route
    PROVE  /\ \A k, p, g : Whole(k, p, g)' <=> Whole(k, p, g)
           /\ \A k, p : ErrorAhead(k, p)' <=> ErrorAhead(k, p)
           /\ \A k : LogAhead(k)' <=> LogAhead(k)
<1>1. chain' = chain /\ Middlewares' = Middlewares
  BY DEF chain, Middlewares
<1> QED BY <1>1
    DEF Whole, Untouched, Fits, WillEnd, MaskedBody, Shows, Inside, ErrorAhead, LogAhead, Ahead

LEMMA RouteKept == ASSUME NEW r \in Request, Start(r) \/ Step(r) PROVE UNCHANGED route
BY DEF Start, Step, Enter, GzipEnter, JWT, KeyAuth, SignVerify, signatureValidate, Csrf, Authz,
       Handler, LogoutHandler, GzipLeave, ErrorHandleLeave, HandleRecoverError, AccessLogLeave,
       RecoveryLeave

LEMMA AnswerStep ==
    ASSUME GzipFirst, WebInv, WebInv', AnswerInv, NEW r \in Request, Effect(r), UNCHANGED route
    PROVE  AnswerInv'
<1>1. /\ route \in Routes /\ ctx[r] \in Context /\ resp[r] \in Response
      /\ resp'[r] \in Response
  BY DEF WebInv, Contexts, Connections
<1>2. Whole(ctx[r], resp[r], gw[ctx[r].writer])
  BY DEF AnswerInv
<1>3. PICK k, l, p, s, g, h :
        /\ k = ctx[r] /\ l = ctx'[r] /\ p = resp[r] /\ s = resp'[r]
        /\ g = gw[ctx[r].writer] /\ h = gw'[ctx'[r].writer]
  OBVIOUS
<1>4. Whole(l, s, h)
  <2>1. CASE Goes(k, l, p, s, h)
    BY <1>2, <1>3, <2>1, GoesWhole
  <2>2. CASE TurnsBack(k, l, p, s, g, h) /\ k.at \in 1..Len(chain)
    BY <1>1, <1>2, <1>3, <2>2, TurnsBackWhole
  <2> QED BY <1>3, <2>1, <2>2 DEF Effect
<1>5. ASSUME NEW q \in Request \ {r}
      PROVE  Whole(ctx'[q], resp'[q], gw'[ctx'[q].writer])
  <2>1. Whole(ctx[q], resp[q], gw[ctx[q].writer])
    BY <1>5 DEF AnswerInv
  <2>2. PICK j, o, n, f, e :
          /\ j = ctx[q] /\ o = resp[q] /\ n = resp'[q] /\ f = gw[ctx[q].writer]
          /\ e = gw'[ctx[q].writer]
    OBVIOUS
  <2>3. /\ ctx'[q] = j /\ SameHeader(o, n) /\ SameBody(o, n) /\ (Inside(j) => e = f)
    BY <1>5, <2>2 DEF Effect, Others
  <2>4. Untouched(j, n) /\ Fits(n)
    BY <2>1, <2>2, <2>3 DEF Whole, Untouched, Fits, SameHeader, SameBody
  <2>5. WillEnd(j, n, e)
    BY <2>1, <2>2, <2>3 DEF Whole, WillEnd, SameBody
  <2>6. MaskedBody(j, n)
    BY <2>1, <2>2, <2>3 DEF Whole, MaskedBody, SameBody
  <2> QED BY <2>2, <2>3, <2>4, <2>5, <2>6 DEF Whole
<1>6. \A q \in Request : Whole(ctx'[q], resp'[q], gw'[ctx'[q].writer])
  BY <1>3, <1>4, <1>5
<1>7. ASSUME NEW q \in Request PROVE Whole(ctx[q], resp[q], gw[ctx[q].writer])'
  <2>1. PICK j, n, e : j = ctx'[q] /\ n = resp'[q] /\ e = gw'[ctx'[q].writer]
    OBVIOUS
  <2>2. Whole(j, n, e)
    BY <1>6, <2>1
  <2>3. Whole(j, n, e)'
    BY <2>2, ChainKept
  <2> QED BY <2>1, <2>3 DEF Whole, Untouched, Fits, WillEnd, MaskedBody, Shows, Inside
<1> QED BY <1>7 DEF AnswerInv

LEMMA AnswerInductive ==
    GzipFirst /\ WebInv /\ PoolInv /\ AnswerInv /\ [Next]_vars => AnswerInv'
<1> SUFFICES ASSUME GzipFirst, WebInv, PoolInv, AnswerInv, [Next]_vars PROVE AnswerInv'
  OBVIOUS
<1>0. WebInv'
  BY WebInductive
<1>1. ASSUME NEW r \in Request, Start(r) \/ Step(r) PROVE AnswerInv'
  BY <1>0, <1>1, StepEffect, RouteKept, AnswerStep
<1>2. CASE UNCHANGED webVars
  <2>1. UNCHANGED <<route, ctx, resp, gw>> /\ chain' = chain
    BY <1>2 DEF webVars, chain
  <2> QED BY <2>1
      DEF AnswerInv, Whole, Untouched, Fits, WillEnd, MaskedBody, Shows, Inside
<1> QED BY <1>1, <1>2 DEF Next, Time, Expire, vars

LEMMA AnswerInitially == Init => AnswerInv
<1> SUFFICES ASSUME Init PROVE AnswerInv
  OBVIOUS
<1> SUFFICES ASSUME NEW r \in Request PROVE Whole(ctx[r], resp[r], gw[ctx[r].writer])
  BY DEF AnswerInv
<1>1. ctx[r] = NewContext /\ resp[r] = NewResponse
  BY DEF Init
<1>2. /\ ctx[r].errors = <<>> /\ ~ctx[r].paniced /\ ~ctx[r].late /\ ctx[r].writer = Direct
      /\ ctx[r].dir = "idle"
  BY <1>1 DEF NewContext
<1>3. /\ ~resp[r].sent /\ ~resp[r].bare /\ resp[r].closed /\ resp[r].hdr = {}
      /\ resp[r].body = <<>>
  BY <1>1 DEF NewResponse
<1> QED BY <1>2, <1>3 DEF Whole, Untouched, Fits, WillEnd, MaskedBody, Inside

(* What the invariant says of a request that is done.                       *)
LEMMA WholeIsReadable == ASSUME WebInv, AnswerInv PROVE Readable
<1> SUFFICES ASSUME NEW r \in Request, Done(r), Len(resp[r].body) = 1, ~resp[r].bare,
                    resp[r].body[1].kind # "frame"
             PROVE  /\ resp[r].body[1].kind = "zip" <=> "gzip" \in resp[r].wire
                    /\ resp[r].closed
  BY DEF Readable
<1>1. Fits(resp[r]) /\ WillEnd(ctx[r], resp[r], gw[ctx[r].writer])
  BY DEF AnswerInv, Whole
<1>2. ~Inside(ctx[r])
  BY DEF Inside, Done
<1>3. resp[r].body # <<>>
  OBVIOUS
<1> QED BY <1>1, <1>2, <1>3 DEF Fits, WillEnd

LEMMA WholeIsMasked == ASSUME WebInv, AnswerInv PROVE Masked
<1> SUFFICES ASSUME NEW r \in Request, NEW i \in DOMAIN resp[r].body,
                    NEW t \in resp[r].body[i].shows,
                    NEW j \in DOMAIN ctx[r].errors, ctx[r].errors[j].text = t
             PROVE  \E m \in DOMAIN ctx[r].errors :
                       ctx[r].errors[m] = [type |-> "public", text |-> t]
  BY DEF Masked
<1>1. Shows(ctx[r], resp[r].body[i].shows)
  BY DEF AnswerInv, Whole, MaskedBody
<1>2. t \notin {"customer", "message"}
  <2>1. PICK errs : errs = ctx[r].errors
    OBVIOUS
  <2>2. errs \in Seq([type : Types, text : Texts])
    BY <2>1 DEF WebInv, Contexts, Context, Errors
  <2>3. errs[j] \in [type : Types, text : Texts]
    BY <2>1, <2>2, SeqElement
  <2>4. t \in Texts
    BY <2>1, <2>3
  <2> QED BY <2>4 DEF Texts
<1> QED BY <1>1, <1>2 DEF Shows

(* Every connection is given the body of its own request; one written in a  *)
(* single piece, no header sent before it, says gzip exactly when it is     *)
(* compressed, and its stream is ended; if gzip stands at most once in a    *)
(* chain and before errorHandle.                                            *)
THEOREM BodiesArrive == ASSUME GzipFirst PROVE Spec => []Bodies
<1>1. Init => WebInv /\ PoolInv /\ AnswerInv
  BY WebInitially, PoolInitially, AnswerInitially
<1>2. WebInv /\ PoolInv /\ AnswerInv /\ [Next]_vars => (WebInv /\ PoolInv /\ AnswerInv)'
  BY WebInductive, PoolInductive, AnswerInductive
<1>3. WebInv /\ PoolInv /\ AnswerInv => OwnBody /\ Readable
  BY WholeIsReadable DEF PoolInv
<1>4. Spec => []TypeOK
  BY WebTyped
<1>5. TypeOK /\ OwnBody /\ Readable => Bodies
  BY DEF Bodies
<1> QED BY <1>1, <1>2, <1>3, <1>4, <1>5, PTL DEF Spec

-----------------------------------------------------------------------------
(* With recovery inside of gzip, the status it sets is its own request's.   *)
ErrorInv == \A r \in Request : ErrorAhead(ctx[r], resp[r])

LEMMA RecoveryTarget ==
    ASSUME RecoveryInside, WebInv, PoolInv, NEW r \in Request,
           ctx[r].dir \in {"in", "out", "panic"}, chain[ctx[r].at] = "recovery"
    PROVE  Target(r) = r
<1>1. CASE ctx[r].writer = Direct
  BY <1>1 DEF Target
<1>2. CASE ctx[r].writer # Direct
  <2>1. route \in Routes /\ ctx[r].at \in 1..Len(chain)
    BY UnderWay
  <2>2. DOMAIN chain = 1..Len(chain) /\ Len(chain) \in Nat
    BY <2>1, RouteAssumption DEF chain
  <2>3. PICK i \in DOMAIN chain : chain[i] = "gzip"
    BY <1>2 DEF PoolInv, Wrapped
  <2>4. i <= ctx[r].at /\ i # ctx[r].at
    BY <2>1, <2>2, <2>3 DEF RecoveryInside, chain
  <2>5. Inside(ctx[r])
    BY <1>2, <2>1, <2>2, <2>3, <2>4 DEF Inside
  <2> QED BY <1>2, <2>5 DEF PoolInv, Exclusive, Target
<1> QED BY <1>1, <1>2

LEMMA ErrorStep ==
    ASSUME GzipFirst, RecoveryInside, WebInv, WebInv', PoolInv, AnswerInv, ErrorInv,
           NEW r \in Request, Start(r) \/ Step(r), Effect(r), UNCHANGED route
    PROVE  ErrorInv'
<1>1. /\ route \in Routes /\ ctx[r] \in Context /\ resp[r] \in Response
      /\ resp'[r] \in Response
  BY DEF WebInv, Contexts, Connections
<1>2. Untouched(ctx[r], resp[r]) /\ ErrorAhead(ctx[r], resp[r])
  BY DEF AnswerInv, Whole, ErrorInv
<1>3. PICK k, l, p, s, g, h :
        /\ k = ctx[r] /\ l = ctx'[r] /\ p = resp[r] /\ s = resp'[r]
        /\ g = gw[ctx[r].writer] /\ h = gw'[ctx'[r].writer]
  OBVIOUS
<1>4. Recovered(k, l, p, s, g, h) => s.status = IF p.sent THEN p.status ELSE 500
  <2> SUFFICES ASSUME Recovered(k, l, p, s, g, h)
               PROVE  s.status = IF p.sent THEN p.status ELSE 500
    OBVIOUS
  <2>1. ctx[r].dir = "panic" /\ chain[ctx[r].at] = "recovery"
    BY <1>3 DEF Recovered
  <2>2. HandleRecoverError(r)
    BY <2>1 DEF Start, Step, Enter, GzipEnter, JWT, KeyAuth, SignVerify, signatureValidate, Csrf,
                Authz, Handler, LogoutHandler, GzipLeave, ErrorHandleLeave, AccessLogLeave,
                RecoveryLeave, At, Leaving
  <2>3. Target(r) = r
    BY <2>1, RecoveryTarget
  <2> QED BY <1>3, <2>2, <2>3, HandleRecoverErrorEffect
<1>5. ErrorAhead(l, s)
  <2>1. CASE Goes(k, l, p, s, h)
    BY <1>2, <1>3, <2>1 DEF Goes, Carries, Untouched, ErrorAhead
  <2>2. CASE TurnsBack(k, l, p, s, g, h) /\ k.at \in 1..Len(chain)
    BY <1>1, <1>2, <1>3, <1>4, <2>2, TurnsBackError
  <2> QED BY <1>3, <2>1, <2>2 DEF Effect
<1>6. Target(r) = r \/ chain[ctx[r].at] # "recovery"
  <2>1. ctx[r].dir \in {"idle", "in", "out", "panic"}
    BY <1>3 DEF Effect, Goes, TurnsBack, Refused, Panics, Handled, Left, Negotiated, Recovered,
                Closed
  <2>2. ctx[r].dir = "idle" => Target(r) = r
    BY DEF WebInv, Contexts, Sound, Placed, PoolInv, Wrapped, Target
  <2> QED BY <2>1, <2>2, RecoveryTarget
<1>7. \A q \in Request : ErrorAhead(ctx'[q], resp'[q])
  <2> TAKE q \in Request
  <2>1. CASE q = r
    BY <1>3, <1>5, <2>1
  <2>2. CASE q # r
    <3>1. ctx'[q] = ctx[q] /\ resp'[q] = resp[q]
      BY <1>6, <2>2 DEF Effect, Others
    <3> QED BY <3>1 DEF ErrorInv
  <2> QED BY <2>1, <2>2
<1>8. ASSUME NEW q \in Request PROVE ErrorAhead(ctx[q], resp[q])'
  <2>1. PICK j, n : j = ctx'[q] /\ n = resp'[q]
    OBVIOUS
  <2>2. ErrorAhead(j, n)'
    BY <1>7, <2>1, ChainKept
  <2> QED BY <2>1, <2>2 DEF ErrorAhead, Ahead
<1> QED BY <1>8 DEF ErrorInv

LEMMA ErrorInductive ==
    GzipFirst /\ RecoveryInside /\ WebInv /\ PoolInv /\ AnswerInv /\ ErrorInv /\ [Next]_vars
    => ErrorInv'
<1> SUFFICES ASSUME GzipFirst, RecoveryInside, WebInv, PoolInv, AnswerInv, ErrorInv, [Next]_vars
             PROVE  ErrorInv'
  OBVIOUS
<1>0. WebInv'
  BY WebInductive
<1>1. ASSUME NEW r \in Request, Start(r) \/ Step(r) PROVE ErrorInv'
  BY <1>0, <1>1, StepEffect, RouteKept, ErrorStep
<1>2. CASE UNCHANGED webVars
  <2>1. UNCHANGED <<ctx, resp>> /\ chain' = chain /\ Middlewares' = Middlewares
    BY <1>2 DEF webVars, chain, Middlewares
  <2> QED BY <2>1 DEF ErrorInv, ErrorAhead, Ahead
<1> QED BY <1>1, <1>2 DEF Next, Time, Expire, vars

(* An error is answered as one: a request that recorded an error is not     *)
(* answered 200 unless the handler had sent the header, and the text of an  *)
(* error that is not public is not shown; if gzip stands before errorHandle *)
(* and recovery, and a recovery is there where errorHandle is.              *)
THEOREM ErrorsAreAnswered == ASSUME GzipFirst, RecoveryInside PROVE Spec => []ErrorAnswers
<1>1. Init => WebInv /\ PoolInv /\ AnswerInv /\ ErrorInv
  <2>1. Init => ErrorInv
    BY DEF Init, NewContext, NewResponse, ErrorInv, ErrorAhead
  <2> QED BY <2>1, WebInitially, PoolInitially, AnswerInitially
<1>2. WebInv /\ PoolInv /\ AnswerInv /\ ErrorInv /\ [Next]_vars
      => (WebInv /\ PoolInv /\ AnswerInv /\ ErrorInv)'
  BY WebInductive, PoolInductive, AnswerInductive, ErrorInductive
<1>3. WebInv /\ AnswerInv /\ ErrorInv => ErrorAnswers
  <2> SUFFICES ASSUME WebInv, AnswerInv, ErrorInv PROVE ErrorAnswers
    OBVIOUS
  <2>1. ErrorIsNotOK
    BY DEF ErrorInv, ErrorAhead, ErrorIsNotOK, Done
  <2> QED BY <2>1, WholeIsMasked DEF ErrorAnswers
<1> QED BY <1>1, <1>2, <1>3, PTL DEF Spec

-----------------------------------------------------------------------------
(* With accessLog outermost, every failure passes it on its way out.        *)
LogInv == \A r \in Request : LogAhead(ctx[r])

LEMMA LogStep ==
    ASSUME LogFirst, WebInv, AnswerInv, LogInv, NEW r \in Request, Effect(r), UNCHANGED route
    PROVE  LogInv'
<1>1. route \in Routes /\ ctx[r] \in Context
  BY DEF WebInv, Contexts
<1>2. Untouched(ctx[r], resp[r]) /\ LogAhead(ctx[r])
  BY DEF AnswerInv, Whole, LogInv
<1>3. PICK k, l, p, s, g, h :
        /\ k = ctx[r] /\ l = ctx'[r] /\ p = resp[r] /\ s = resp'[r]
        /\ g = gw[ctx[r].writer] /\ h = gw'[ctx'[r].writer]
  OBVIOUS
<1>4. LogAhead(l)
  <2>1. CASE Goes(k, l, p, s, h)
    BY <2>1 DEF Goes, LogAhead
  <2>2. CASE TurnsBack(k, l, p, s, g, h) /\ k.at \in 1..Len(chain)
    BY <1>1, <1>2, <1>3, <2>2, TurnsBackLog
  <2> QED BY <1>3, <2>1, <2>2 DEF Effect
<1>5. \A q \in Request : LogAhead(ctx'[q])
  BY <1>3, <1>4 DEF Effect, Others, LogInv
<1>6. ASSUME NEW q \in Request PROVE LogAhead(ctx[q])'
  <2>1. PICK j : j = ctx'[q]
    OBVIOUS
  <2>2. LogAhead(j)'
    BY <1>5, <2>1, ChainKept
  <2> QED BY <2>1, <2>2 DEF LogAhead, Ahead
<1> QED BY <1>6 DEF LogInv

LEMMA LogInductive ==
    GzipFirst /\ LogFirst /\ WebInv /\ PoolInv /\ AnswerInv /\ LogInv /\ [Next]_vars => LogInv'
<1> SUFFICES ASSUME GzipFirst, LogFirst, WebInv, PoolInv, AnswerInv, LogInv, [Next]_vars
             PROVE  LogInv'
  OBVIOUS
<1>1. ASSUME NEW r \in Request, Start(r) \/ Step(r) PROVE LogInv'
  BY <1>1, StepEffect, RouteKept, LogStep
<1>2. CASE UNCHANGED webVars
  <2>1. UNCHANGED ctx /\ chain' = chain /\ Middlewares' = Middlewares
    BY <1>2 DEF webVars, chain, Middlewares
  <2> QED BY <2>1 DEF LogInv, LogAhead, Ahead
<1> QED BY <1>1, <1>2 DEF Next, Time, Expire, vars

(* A panic, and an error of gin's default type, is in the log at error      *)
(* level, if accessLog stands before the guards, recovery and errorHandle   *)
(* and a recovery before what may panic.                                    *)
THEOREM FailuresAreLogged == ASSUME GzipFirst, LogFirst PROVE Spec => []FailureLogged
<1>1. Init => WebInv /\ PoolInv /\ AnswerInv /\ LogInv
  <2>1. Init => LogInv
    BY DEF Init, NewContext, LogInv, LogAhead
  <2> QED BY <2>1, WebInitially, PoolInitially, AnswerInitially
<1>2. WebInv /\ PoolInv /\ AnswerInv /\ LogInv /\ [Next]_vars
      => (WebInv /\ PoolInv /\ AnswerInv /\ LogInv)'
  BY WebInductive, PoolInductive, AnswerInductive, LogInductive
<1>3. WebInv /\ LogInv => FailureLogged
  <2> SUFFICES ASSUME WebInv, LogInv, NEW r \in Request, Done(r), "accessLog" \in Middlewares,
                      \/ ctx[r].paniced
                      \/ \E i \in DOMAIN ctx[r].errors : ctx[r].errors[i].type = "private"
               PROVE  ctx[r].log = "error"
    BY DEF FailureLogged
  <2>1. ctx[r].dir = "done" /\ ctx[r].at = 0
    BY DEF Done, WebInv, Contexts, Sound, Placed
  <2>2. ~Ahead(ctx[r], "accessLog")
    BY <2>1 DEF Ahead
  <2>3. LogAhead(ctx[r])
    BY DEF LogInv
  <2> QED BY <2>1, <2>2, <2>3 DEF LogAhead, HasPrivate
<1> QED BY <1>1, <1>2, <1>3, PTL DEF Spec
=============================================================================
