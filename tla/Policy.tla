------------------------------- MODULE Policy -------------------------------
(* src/pkg/security/policy.go: whether an action or a resource pattern, with *)
(* '*' and '?' wildcards, matches a resource, and what IsAllowed makes of an *)
(* authorizer.  Strings are sequences of runes.                              *)
EXTENDS Naturals, Sequences, FiniteSetsExt

\* deepMatchRune with simple = FALSE, on the rest of str from i and of pattern from j.
deepMatchRune(str, pattern) ==
    LET m[i \in 1..Len(str) + 1, j \in 1..Len(pattern) + 1] ==
          IF j > Len(pattern) THEN i > Len(str)
          ELSE CASE pattern[j] = "*" -> m[i, j + 1] \/ (i <= Len(str) /\ m[i + 1, j])
                 [] pattern[j] = "?" -> i <= Len(str) /\ m[i + 1, j + 1]
                 [] OTHER -> i <= Len(str) /\ str[i] = pattern[j] /\ m[i + 1, j + 1]
    IN  m[1, 1]

arnMatch(pattern, resource) ==
    CASE pattern = <<>>    -> resource = <<>>
      [] pattern = <<"*">> -> TRUE
      [] OTHER             -> deepMatchRune(resource, pattern)

\* An authorizer prepares the arguments of the evaluation or fails, then
\* allows, denies or fails; the default one allows everything.
noopAuthorizer == [prepare |-> "ok", eval |-> "allow"]
Authorizers == [prepare : {"ok", "error"}, eval : {"allow", "deny", "error"}]

IsAllowed(au) ==
    [allowed |-> au.prepare = "ok" /\ au.eval = "allow",
     err     |-> au.prepare = "error" \/ au.eval = "error"]

---------------------------------------------------------------------------
(* Reference: the resource can be cut into one piece per rune of the        *)
(* pattern, of any length for '*' and of length one for all others.         *)
MatchesByPieces(pattern, resource) ==
    \E w \in [DOMAIN pattern -> 0..Len(resource)] :
       LET before(j) == MapThenSumSet(LAMBDA k : w[k], {k \in DOMAIN pattern : k < j})
       IN  /\ before(Len(pattern) + 1) = Len(resource)
           /\ \A j \in DOMAIN pattern : pattern[j] # "*" =>
                /\ w[j] = 1
                /\ pattern[j] = "?" \/ resource[before(j) + 1] = pattern[j]

\* A pattern matches exactly the resources that can be cut into its pieces.
MatchIsExact(pattern, resource) ==
    arnMatch(pattern, resource) <=> MatchesByPieces(pattern, resource)
=============================================================================
