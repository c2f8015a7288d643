---------------------------- MODULE TextEncoder ----------------------------
(* src/pkg/log/text.go: the text encoder of log lines,                       *)
(*     [time] [level] [name] [caller] [message] [key=value] ...              *)
(* Text is a sequence of characters; "nl" stands for a line break and, with  *)
(* the escape that follows it, for every control character.                  *)
EXTENDS Integers, Sequences, SequencesExt

Special == {"\\", "\"", "[", "]", "=", " ", "nl"}

\* tryAddRuneSelf for each byte of a string.
safeAddString(s) ==
    FlattenSeq([i \in DOMAIN s |->
        CASE s[i] \in {"\\", "\""} -> <<"\\", s[i]>>
          [] s[i] = "nl"           -> <<"\\", "n">>
          [] OTHER                 -> <<s[i]>>])

needDoubleQuotes(s) == \E i \in DOMAIN s : s[i] \in Special

safeAddStringWithQuote(s) ==
    IF needDoubleQuotes(s) THEN <<"\"">> \o safeAddString(s) \o <<"\"">> ELSE safeAddString(s)

\* A comma, unless the last byte of the buffer separates or opens already.
addElementSeparator(buf) ==
    IF buf = <<>> \/ Last(buf) \in {"{", "[", ":", ",", " ", "="} THEN buf ELSE Append(buf, ",")

\* AppendString, AppendByteString, AppendBool, AppendInt64, ...
AppendString(buf, val) == addElementSeparator(buf) \o safeAddStringWithQuote(val)

addKey(buf, key) == Append(addElementSeparator(buf) \o safeAddStringWithQuote(key), "=")

\* Elements are encoded into a buffer of their own, which is then appended,
\* and quoted, as one string.
AppendArray(buf, arr) ==
    AppendString(buf, Append(FoldLeft(LAMBDA b, v : AppendString(b, v), <<"[">>, arr), "]"))

AppendObject(buf, obj) ==
    AppendString(buf, Append(
        FoldLeft(LAMBDA b, f : AppendString(addKey(b, f[1]), f[2]), <<"{">>, obj), "}"))

\* AddString, AddArray, AddObject and the others: a field is its key, the
\* kind of its value, and the value.
AddField(buf, f) ==
    LET b == addKey(buf, f.key)
    IN  CASE f.kind = "string" -> AppendString(b, f.val)
          [] f.kind = "array"  -> AppendArray(b, f.val)
          [] f.kind = "object" -> AppendObject(b, f.val)
          [] f.kind = "error"  -> AppendString(b, f.val)

beginQuoteFiled(buf) == IF buf = <<>> THEN <<"[">> ELSE buf \o <<" ", "[">>
endQuoteFiled(buf) == Append(buf, "]")

\* An error adds a second field if it has a longer form.
encodeError(buf, f, verbose) ==
    LET basic == endQuoteFiled(AddField(beginQuoteFiled(buf), f))
    IN  IF ~verbose \/ f.verbose = f.val THEN basic
        ELSE endQuoteFiled(AddField(beginQuoteFiled(basic),
                 [key |-> f.key \o <<"V">>, kind |-> "string", val |-> f.verbose]))

addFields(buf, fields, verbose) ==
    FoldLeft(LAMBDA b, f : IF f.kind = "error" THEN encodeError(b, f, verbose)
                           ELSE endQuoteFiled(AddField(beginQuoteFiled(b), f)), buf, fields)

\* The time, written as it is; head: level, name and caller, those that are
\* configured; context: what With has encoded before; an empty message is
\* left out.
EncodeEntry(time, head, message, context, fields, stack, verbose) ==
    LET group(b, s) == endQuoteFiled(AppendString(beginQuoteFiled(b), s))
        stamp   == IF time = <<>> THEN <<>> ELSE endQuoteFiled(beginQuoteFiled(<<>>) \o time)
        prefix  == FoldLeft(group, stamp, head)
        said    == IF message = <<>> THEN prefix ELSE group(prefix, message)
        carried == IF context = <<>> THEN said ELSE said \o <<" ">> \o context
        listed  == addFields(carried, fields, verbose)
    IN  IF stack = <<>> THEN listed
        ELSE endQuoteFiled(AddField(beginQuoteFiled(listed),
                 [key |-> <<"s">>, kind |-> "string", val |-> stack]))

\* writePadding: the digits of n, with zeros in front up to width.
writePadding(n, width) ==
    LET digits == IF n >= 1000 THEN 4 ELSE IF n >= 100 THEN 3 ELSE IF n >= 10 THEN 2 ELSE 1
        places == IF digits < width THEN width ELSE digits
    IN  [i \in 1..places |-> (n \div 10^(places - i)) % 10]

\* encodeTimeDirect: the offset of the zone as a sign, hours and minutes.
ZoneOffset(seconds) ==
    LET abs == IF seconds < 0 THEN -seconds ELSE seconds
    IN  <<IF seconds < 0 THEN "-" ELSE "+", writePadding(abs \div 3600, 2),
          writePadding((abs % 3600) \div 60, 2)>>

---------------------------------------------------------------------------
(* Reference: a reader of log lines.  Brackets that are not quoted delimit  *)
(* groups, the first '=' that is not quoted ends a key, a backslash takes   *)
(* the next character as it is.                                             *)
Unescape(c) == IF c = "n" THEN "nl" ELSE c
ReadChar(st, c) ==
    CASE st.esc              -> [st EXCEPT !.esc = FALSE, !.cur = Append(@, Unescape(c))]
      [] ~st.esc /\ c = "\\" -> [st EXCEPT !.esc = TRUE]
      [] ~st.esc /\ c = "\"" -> [st EXCEPT !.quoted = ~@]
      [] ~st.esc /\ st.quoted /\ c # "\"" /\ c # "\\" -> [st EXCEPT !.cur = Append(@, c)]
      [] ~st.esc /\ ~st.quoted /\ c = "[" -> [st EXCEPT !.in = TRUE, !.cur = <<>>, !.key = <<>>]
      [] ~st.esc /\ ~st.quoted /\ c = "=" -> [st EXCEPT !.key = <<st.cur>>, !.cur = <<>>]
      [] ~st.esc /\ ~st.quoted /\ c = "]" ->
            [st EXCEPT !.in = FALSE, !.groups = Append(@, Append(st.key, st.cur))]
      [] OTHER -> IF st.in THEN [st EXCEPT !.cur = Append(@, c)] ELSE st
ReadLine(line) ==
    FoldLeft(ReadChar, [esc |-> FALSE, quoted |-> FALSE, in |-> FALSE, cur |-> <<>>,
                        key |-> <<>>, groups |-> <<>>], line).groups

\* Whatever a program logs, the line is one line and reads back as what was
\* logged: each group of the head, the message if there is one, every field
\* with its key and value, and the stack.  No text can end its group, begin
\* another one or turn into a field.
LineReadsBack(time, head, message, context, fields, stack, verbose) ==
    LET line == EncodeEntry(time, head, message, context, fields, stack, verbose)
        field(f) == IF f.kind = "error" /\ verbose /\ f.verbose # f.val
                    THEN <<<<f.key, f.val>>, <<f.key \o <<"V">>, f.verbose>>>>
                    ELSE <<<<f.key, f.val>>>>
    IN  /\ \A i \in DOMAIN line : line[i] # "nl"
        /\ ReadLine(line) =
             (IF time = <<>> THEN <<>> ELSE <<<<time>>>>) \o [i \in DOMAIN head |-> <<head[i]>>]
             \o (IF message = <<>> THEN <<>> ELSE <<<<message>>>>)
             \o FlattenSeq([i \in DOMAIN fields |-> field(fields[i])])
             \o (IF stack = <<>> THEN <<>> ELSE <<<<<<"s">>, stack>>>>)

\* A list of texts reads back as one value that keeps its elements apart, if
\* none is empty or ends like a separator.
ArrayKeepsElements(arr, other) ==
    LET plain(a) == \A i \in DOMAIN a : a[i] # <<>> /\
                      Last(a[i]) \notin {"{", "[", ":", ",", " ", "="} /\ ~Contains(a[i], ",")
    IN  plain(arr) /\ plain(other) /\ arr # other =>
          AppendArray(<<>>, arr) # AppendArray(<<>>, other)

\* A padded number has at least width digits and is still the number.
PaddingExact(n, width) ==
    LET d == writePadding(n, width)
        value[i \in 0..Len(d)] == IF i = 0 THEN 0 ELSE 10 * value[i - 1] + d[i]
    IN  Len(d) >= width /\ value[Len(d)] = n /\ (Len(d) > width => d[1] # 0)
=============================================================================
