------------------------------ MODULE Loggers ------------------------------
(***************************************************************************)
(* pkg/log: the global logger and the loggers of components, the loggers   *)
(* built from configurations, and the Writer that makes log entries of     *)
(* what the standard log package writes.                                   *)
(***************************************************************************)
EXTENDS Integers, Sequences, SequencesExt

-----------------------------------------------------------------------------
(* Components by name: [logger, useGlobal].  A component is made once, on  *)
(* the global logger, and follows it until its own logger is set.          *)
InitGlobalLogger(l) == [global |-> l, components |-> [n \in {} |-> l]]
SetLogger(g, n, l) ==
    [g EXCEPT !.components = [x \in DOMAIN @ \cup {n} |->
        IF x = n THEN [logger |-> l, useGlobal |-> l = g.global] ELSE @[x]]]
Component(g, n) == IF n \in DOMAIN g.components THEN g ELSE SetLogger(g, n, g.global)

AsGlobal(g, l) ==
    [global |-> l,
     components |-> [n \in DOMAIN g.components |->
        IF g.components[n].useGlobal THEN [logger |-> l, useGlobal |-> TRUE] ELSE g.components[n]]]
LoggerOp(g, op) ==
    CASE op[1] = "component" -> Component(g, op[2])
      [] op[1] = "set" -> SetLogger(Component(g, op[2]), op[2], op[3])
      [] op[1] = "global" -> AsGlobal(g, op[3])

-----------------------------------------------------------------------------
(* Loggers with a context come from a pool: of[h] is the pooled object of  *)
(* the handle h, ctx[o] the context in the object o, 0 for nil; a logger   *)
(* without context panics.  A log call returns its object to the pool.     *)
NewPool == [free |-> {}, of |-> [h \in {} |-> 0], ctx |-> <<>>, log |-> <<>>, panic |-> FALSE]

GetLoggerWithCtx(p, h, o) ==
    [p EXCEPT !.free = @ \ {o}, !.of = [x \in DOMAIN @ \cup {h} |-> IF x = h THEN o ELSE @[x]],
              !.ctx = IF o > Len(@) THEN Append(@, h) ELSE [@ EXCEPT ![o] = h]]
PutLoggerWithCtx(p, o) == [p EXCEPT !.free = @ \cup {o}, !.ctx[o] = 0]
logFields(p, h) ==
    LET o == p.of[h]
    IN  IF p.ctx[o] = 0 THEN [p EXCEPT !.panic = TRUE]
        ELSE PutLoggerWithCtx([p EXCEPT !.log = Append(@, <<h, p.ctx[o]>>)], o)
PoolOp(p, op) ==
    CASE p.panic -> p
      [] op[1] = "ctx" -> GetLoggerWithCtx(p, op[2], IF p.free = {} THEN Len(p.ctx) + 1 ELSE CHOOSE o \in p.free : TRUE)
      [] op[1] = "log" -> IF op[2] \in DOMAIN p.of THEN logFields(p, op[2]) ELSE p

-----------------------------------------------------------------------------
(* The process: whether once.Do ran, and the encoder and rotation (0 for   *)
(* none) that it registered.  A configuration is [id, rotate, paths].      *)
NewProcess == [done |-> FALSE, encoder |-> 0, sink |-> 0]

Once(p, cfg) ==
    IF p.done THEN p
    ELSE [done |-> TRUE, encoder |-> cfg.id, sink |-> IF cfg.rotate THEN cfg.id ELSE 0]

(* convertPath: a file goes to the rotation if it is used, any other URL   *)
(* always does.                                                            *)
convertPath(path, useRotate) ==
    CASE path = "std" -> "std"
      [] path = "file" -> IF useRotate THEN "rotate" ELSE "file"
      [] path = "url" -> "rotate"
fixZapConfig(cfg) == {convertPath(x, cfg.rotate) : x \in cfg.paths}
BuildZap(p, cfg) ==
    LET q == Once(p, cfg)
        outs == fixZapConfig(cfg)
        ok == "rotate" \in outs => q.sink # 0
    IN  [process |-> q, ok |-> ok, encoder |-> q.encoder,
         rotation |-> IF ok /\ "rotate" \in outs THEN q.sink ELSE 0]
Built(cfgs) == FoldLeft(LAMBDA r, cfg : BuildZap(r.process, cfg), [process |-> NewProcess, ok |-> TRUE], cfgs)

-----------------------------------------------------------------------------
(* The Writer: text is a sequence of letters of one width: "x", "nl", and  *)
(* tags "[W]" of a level that is enabled, "[D]" of one that is not, "[?]"  *)
(* of none.  A writer is [buff, log, panic].                               *)
NewWriter == [buff |-> <<>>, log |-> <<>>, panic |-> FALSE]
Level == [t \in {"[W]", "[D]", "[?]"} |-> CASE t = "[W]" -> "warn" [] t = "[D]" -> "debug" [] OTHER -> "info"]
IndexOf(text, S) ==
    LET is == {i \in DOMAIN text : text[i] \in S}
    IN  IF is = {} THEN 0 ELSE CHOOSE i \in is : \A j \in is : i <= j
Check(text) ==
    LET i == IndexOf(text, DOMAIN Level)
    IN  IF i = 0 THEN [lvl |-> "info", miss |-> FALSE, idx |-> 0]
        ELSE [lvl |-> Level[text[i]], miss |-> text[i] = "[?]", idx |-> i]
Enabled(lvl) == lvl # "debug"
log(w, line, c) ==
    IF c.idx > Len(line) THEN [w EXCEPT !.panic = TRUE]
    ELSE IF ~Enabled(c.lvl) THEN w
    ELSE [w EXCEPT !.log = Append(@, <<c.lvl, SubSeq(line, c.idx + 1, Len(line))>>)]

\* Mutant: what is buffered is not put before the line that completes it.
MutantWriteLine(w, line, c) == log([w EXCEPT !.buff = <<>>], line, c)

(* A line that completes what is buffered is checked again, unless its     *)
(* write had a level of its own.                                           *)
writeLine(w, line, c) ==
    IF w.buff = <<>> THEN log(w, line, c)
    ELSE log([w EXCEPT !.buff = <<>>], w.buff \o line, IF c.lvl = "info" THEN Check(w.buff \o line) ELSE c)
(* The lines of a text, the last one without a newline.                    *)
Lines(text) ==
    FoldLeft(LAMBDA ls, x : IF x = "nl" THEN Append(ls, <<>>) ELSE [ls EXCEPT ![Len(ls)] = Append(@, x)], <<<<>>>>, text)
WriteText(w, text) ==
    LET c == Check(text)
        lines == Lines(text)
        put(v, line) == IF v.panic THEN v ELSE writeLine(v, line, c)
        done == FoldLeft(put, w, Front(lines))
    IN  IF ~c.miss /\ ~Enabled(c.lvl) THEN w
        ELSE IF done.panic THEN done ELSE [done EXCEPT !.buff = @ \o Last(lines)]
Sync(w) ==
    IF w.buff = <<>> THEN w ELSE log([w EXCEPT !.buff = <<>>], w.buff, [lvl |-> "info", miss |-> FALSE, idx |-> 0])

-----------------------------------------------------------------------------
(* Whatever the order of creating components, setting their loggers and    *)
(* changing the global one, a component logs to the logger it was set to   *)
(* last, and to the current global one if there is none or if that was the *)
(* global one when it was set.                                             *)
ComponentsFollow(ops, start) ==
    LET g(i) == FoldLeft(LoggerOp, InitGlobalLogger(start), SubSeq(ops, 1, i))
        end == g(Len(ops))
    IN  \A n \in DOMAIN end.components :
          LET sets == {i \in DOMAIN ops : ops[i][1] = "set" /\ ops[i][2] = n}
              s == CHOOSE i \in sets : \A j \in sets : j <= i
          IN  end.components[n].logger =
                IF sets = {} \/ ops[s][3] = g(s - 1).global THEN end.global ELSE ops[s][3]

(* As long as no handle logs twice without being taken anew, every entry   *)
(* has the context its handle was made for, and none panics, however calls *)
(* are interleaved.                                                        *)
HandlesSeparate(ops) ==
    LET end == FoldLeft(PoolOp, NewPool, ops)
        onceOnly == \A i, j \in DOMAIN ops :
            i < j /\ ops[i] = ops[j] /\ ops[i][1] = "log" => <<"ctx", ops[i][2]>> \in {ops[k] : k \in i..j}
    IN  onceOnly => ~end.panic /\ \A i \in DOMAIN end.log : end.log[i][1] = end.log[i][2]

(* The first configuration of a process decides the text encoder and the   *)
(* rotation of all: a later one that rotates is built only if the first    *)
(* did, and with the first one's limits.                                   *)
FirstDecides(cfgs) ==
    \A i \in DOMAIN cfgs :
      LET r == Built(SubSeq(cfgs, 1, i))
          rotates == "url" \in cfgs[i].paths \/ (cfgs[i].rotate /\ "file" \in cfgs[i].paths)
      IN  /\ r.encoder = cfgs[1].id
          /\ r.ok <=> (rotates => cfgs[1].rotate)
          /\ r.ok => r.rotation = IF rotates THEN cfgs[1].id ELSE 0

(* Lines are logged once each, in order, with their level and without the  *)
(* tag, if every write is a complete line; text without tags may be split  *)
(* anyhow.  A write of several lines with a tag panics as soon as one of   *)
(* them ends before the place of the tag.                                  *)
Entries(text) ==
    LET lines == Front(Lines(text))
        entry == [i \in DOMAIN lines |->
                    LET c == Check(lines[i]) IN <<c.lvl, SubSeq(lines[i], c.idx + 1, Len(lines[i]))>>]
    IN  SelectSeq(entry, LAMBDA e : Enabled(e[1]))
LinesLogged(writes) ==
    LET text == FlattenSeq(writes)
        w == FoldLeft(WriteText, NewWriter, writes)
        whole(x) == x # <<>> /\ IndexOf(x, {"nl"}) = Len(x)
        tagged == IndexOf(text, DOMAIN Level) # 0
    IN  /\ (\A i \in DOMAIN writes : whole(writes[i])) \/ ~tagged =>
              /\ ~w.panic /\ w.log = Entries(text)
              /\ Sync(w).log = IF w.buff = <<>> THEN w.log ELSE Append(w.log, <<"info", w.buff>>)
        /\ Len(writes) = 1 /\ tagged =>
              (w.panic <=> LET c == Check(text)
                               lines == Front(Lines(text))
                           IN  (c.miss \/ Enabled(c.lvl)) /\ \E i \in DOMAIN lines : Len(lines[i]) < c.idx)
=============================================================================
