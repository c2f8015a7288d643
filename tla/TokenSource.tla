---------------------------- MODULE TokenSource ----------------------------
(***************************************************************************)
(* pkg/httpx/client.go: requests of an HTTP client that carry an OAuth2    *)
(* token.  A request takes the token of the TokenSource, which looks into  *)
(* its storage first, asks the token endpoint otherwise and stores what it *)
(* got; requests run concurrently.  A token is its expiry.                 *)
(*                                                                         *)
(* External: the token endpoint; oauth2, whose token is valid until Delta  *)
(* before it expires and whose client credentials source keeps its last    *)
(* token; the cache, which may fail, or drop an item, at any time, or keep *)
(* it for longer than its TTL says: redisc fills its local level from      *)
(* redis without one, TinyLFU lengthens it.  Time may pass between any two *)
(* steps of a request.                                                     *)
(***************************************************************************)
EXTENDS Integers

CONSTANTS Caller,      \* the requests
          Lifetimes,   \* for how long the endpoint issues tokens
          Forever,     \* the expiry of a token without one
          Delta,       \* oauth2's expiryDelta
          MaxClock     \* bound of the clock

ASSUME TokenAssumption ==
    /\ Lifetimes \subseteq Nat /\ Delta \in Nat /\ MaxClock \in Nat \ {0}
    /\ Forever \in Nat /\ Forever > MaxClock

VARIABLES clock,
          source,  \* [grant, storage]: how the token source is configured
          cached,  \* the token in the cache, 0 for none
          held,    \* the last token of the client credentials source, 0 for none
          at,      \* at[c]: where c is
          token,   \* token[c]: the token c has
          since    \* since[c]: when that token was last looked at

tokenVars == <<clock, source, cached, held, at, token, since>>

TokenInit ==
    /\ clock = 1 /\ cached = 0 /\ held = 0
    /\ source \in [grant : {"client_credentials", "password"}, storage : BOOLEAN]
    /\ at = [c \in Caller |-> "idle"]
    /\ token = [c \in Caller |-> 0] /\ since = [c \in Caller |-> 0]

Valid(t) == t # 0 /\ (t = Forever \/ clock <= t - Delta)

Goto(c, where, t, time) ==
    /\ at' = [at EXCEPT ![c] = where] /\ token' = [token EXCEPT ![c] = t]
    /\ since' = [since EXCEPT ![c] = time]
Return(c, t) == Goto(c, "send", t, clock)
Fail(c) == Goto(c, "failed", 0, 0)
AskBase(c) == Goto(c, "base", 0, 0)

(* Token, as RoundTrip calls it: without storage the base source is asked, *)
(* otherwise the storage first; a miss, an error and a token that is no    *)
(* longer valid all go on to the base source.                              *)
Token(c) ==
    /\ at[c] = "idle"
    /\ \/ source.storage /\ cached # 0 /\ Goto(c, "found", cached, 0)
       \/ AskBase(c)
    /\ UNCHANGED <<clock, source, cached, held>>

\* Mutant: the cached token is returned without asking whether it is valid.
MutantTokenFound(c) ==
    /\ at[c] = "found" /\ Return(c, token[c])
    /\ UNCHANGED <<clock, source, cached, held>>

TokenFound(c) ==
    /\ at[c] = "found"
    /\ IF Valid(token[c]) THEN Return(c, token[c]) ELSE AskBase(c)
    /\ UNCHANGED <<clock, source, cached, held>>

(* The base source: the endpoint fails or issues a token; client           *)
(* credentials reuse their last token while it is valid.                   *)
Issued == {IF l = 0 THEN Forever ELSE clock + l : l \in Lifetimes}
BaseToken(c) ==
    /\ at[c] = "base"
    /\ \E t \in IF source.grant = "client_credentials" /\ Valid(held) THEN {held} ELSE Issued \cup {0} :
         /\ held' = IF source.grant = "client_credentials" /\ t # 0 THEN t ELSE held
         /\ \/ t = 0 /\ Fail(c)
            \/ t # 0 /\ ~source.storage /\ Return(c, t)
            \/ t # 0 /\ source.storage /\ Goto(c, "store", t, 0)
    /\ UNCHANGED <<clock, source, cached>>

(* SetToken: an invalid token is refused, a valid one goes to the cache.   *)
(* Whatever fails, the token fetched is not returned.                      *)
SetToken(c) ==
    /\ at[c] = "store"
    /\ IF Valid(token[c]) THEN Goto(c, "put", token[c], clock) ELSE Fail(c)
    /\ UNCHANGED <<clock, source, cached, held>>

(* The cache's Set; one that fails may have stored the token, in a level.  *)
CacheSet(c) ==
    /\ at[c] = "put"
    /\ \/ cached' = token[c] /\ Goto(c, "send", token[c], since[c])
       \/ cached' \in {cached, token[c]} /\ Fail(c)
    /\ UNCHANGED <<clock, source, held>>

(* Exchange: a token for an authorization code, stored as above.           *)
Exchange(c) ==
    /\ at[c] = "idle" /\ source.storage
    /\ \E t \in Issued : Goto(c, "store", t, 0)
    /\ UNCHANGED <<clock, source, cached, held>>

(* The rest of RoundTrip: the token goes into the header of the request.   *)
RoundTrip(c) ==
    /\ at[c] \in {"send", "failed"}
    /\ Goto(c, "idle", 0, 0)
    /\ UNCHANGED <<clock, source, cached, held>>

Drop == cached # 0 /\ cached' = 0 /\ UNCHANGED <<clock, source, held, at, token, since>>
TokenTick ==
    /\ clock < MaxClock /\ clock' = clock + 1
    /\ UNCHANGED <<source, cached, held, at, token, since>>

CallerStep(c) ==
    Token(c) \/ TokenFound(c) \/ BaseToken(c) \/ SetToken(c) \/ CacheSet(c) \/ RoundTrip(c)
TokenNext ==
    \/ \E c \in Caller : Exchange(c) \/ CallerStep(c)
    \/ Drop \/ TokenTick

-----------------------------------------------------------------------------
TokenTypeOK ==
    /\ clock \in 1..MaxClock /\ held \in Nat /\ cached \in Nat
    /\ source \in [grant : {"client_credentials", "password"}, storage : BOOLEAN]
    /\ at \in [Caller -> {"idle", "found", "base", "store", "put", "send", "failed"}]
    /\ token \in [Caller -> Nat] /\ since \in [Caller -> Nat]

(* With a storage, a request is about to be sent with a token that has     *)
(* expired only if more than Delta went by since this request itself found *)
(* it valid: whatever the cache kept for too long, however long the        *)
(* endpoint took, and whichever other request stored its token last.       *)
(* Without a storage a token of the endpoint is sent unseen.               *)
SentAlive ==
    \A c \in Caller :
        source.storage /\ at[c] = "send" /\ clock > token[c] => clock - since[c] > Delta
TokensAlive == TokenTypeOK /\ SentAlive

(* What makes SentAlive inductive: a token was valid when it was looked    *)
(* at, on its way into the cache or out of it.                             *)
LookedAtValid ==
    \A c \in Caller :
        at[c] = "put" \/ (source.storage /\ at[c] = "send") =>
            token[c] = Forever \/ since[c] + Delta <= token[c]
TokenInv == TokenTypeOK /\ LookedAtValid
=============================================================================
