----------------------------- MODULE WebProofs -----------------------------
(* Proofs about WebRequest, for every set of requests and every route: any  *)
(* middlewares in any order, with any acts of the handler.  No request      *)
(* reaches the handler past a guard; the signatures are handled as          *)
(* SignReplay says, so that none lets two requests through; and the pooled  *)
(* writers of gzip keep the bodies apart.                                   *)
EXTENDS WebRequest, FiniteSetTheorems, WellFoundedInduction, SequenceTheorems, TLAPS

-----------------------------------------------------------------------------
(* The signature check by itself: it lets a signature through once.         *)

(* The store is never over its size, so that it drops only what expired.    *)
LEMMA NeverOver ==
    ASSUME SignTypeOK
    PROVE  ~(Cardinality({t \in Sig : seen[t] # Unseen}) > Size)
<1>1. {t \in Sig : seen[t] # Unseen} \subseteq Sig  OBVIOUS
<1>2. /\ IsFiniteSet({t \in Sig : seen[t] # Unseen})
      /\ Cardinality({t \in Sig : seen[t] # Unseen}) <= Cardinality(Sig)
  BY <1>1, SizeAssumption, FS_Subset
<1>3. /\ Cardinality({t \in Sig : seen[t] # Unseen}) \in Nat
      /\ Cardinality(Sig) \in Nat
  BY <1>2, SizeAssumption, FS_CardinalityType
<1> QED  BY <1>2, <1>3, SizeAssumption

LEMMA NoneIsNoSig ==
    ASSUME NEW r \in Request, SignTypeOK
    PROVE  pending[r] # None => pending[r] \in [sig : Sig, at : Nat]
BY DEF SignTypeOK

LEMMA SignInitially == SignInit => SignInv
<1> SUFFICES ASSUME SignInit PROVE SignInv  OBVIOUS
<1>1. SignTypeOK  BY TimeAssumption DEF SignInit, SignTypeOK, Unseen, None
<1>2. NoReplay  BY DEF SignInit, NoReplay
<1>3. Remembered  BY DEF SignInit, Remembered
<1>4. InTime  BY DEF SignInit, InTime
<1> QED  BY <1>1, <1>2, <1>3, <1>4 DEF SignInv

(* A request checked inside the window whose signature was accepted before  *)
(* finds it stored.                                                         *)
LEMMA FoundAgain ==
    ASSUME SignInv, NEW r \in Request, NEW q \in Request, pending[r] # None,
           accepted[q] = pending[r].sig
    PROVE  Stored(pending[r].sig)
<1> DEFINE s == pending[r].sig
<1>1. s \in Sig /\ s # NoSig /\ pending[r].at \in Nat
  BY NoneIsNoSig, TimeAssumption DEF SignInv
<1>2. /\ now \in Nat /\ seen[s] \in Nat \cup {Unseen} /\ SignedAt[s] \in Nat
      /\ Unseen = -1
  BY <1>1, TimeAssumption DEF SignInv, SignTypeOK, Unseen
<1>3. /\ pending[r].at <= SignedAt[s] + Interval
      /\ now <= pending[r].at + Stall
  BY DEF SignInv, InTime
<1>4. now <= SignedAt[s] + TTL
  BY <1>1, <1>2, <1>3, TimeAssumption
<1>5. accepted[q] # NoSig  BY <1>1
<1>6. seen[s] >= SignedAt[s] + TTL \/ now > SignedAt[s] + TTL
  BY <1>5 DEF SignInv, Remembered
<1>7. seen[s] >= SignedAt[s] + TTL
  BY <1>4, <1>6, <1>2, TimeAssumption
<1> QED  BY <1>7, <1>4, <1>2, TimeAssumption DEF Stored

LEMMA SignStep == SignInv /\ [SignNext]_signVars => SignInv'
<1> SUFFICES ASSUME SignInv, [SignNext]_signVars PROVE SignInv'  OBVIOUS
<1> USE DEF SignInv
<1>1. ASSUME NEW r \in Request, NEW s \in Sig, Check(r, s) PROVE SignInv'
  <2> USE <1>1 DEF Check
  <2>0. s # NoSig /\ now \in Nat /\ SignedAt[s] \in Nat /\ Interval \in Nat /\ Stall \in Nat
    BY TimeAssumption DEF SignTypeOK
  <2>1. SignTypeOK'  BY <2>0 DEF SignTypeOK
  <2>2. NoReplay'  BY DEF NoReplay
  <2>3. Remembered'  BY DEF Remembered
  <2>4. InTime'
    <3> SUFFICES ASSUME NEW q \in Request, pending'[q] # None
                 PROVE /\ pending'[q].at >= SignedAt[pending'[q].sig]
                       /\ pending'[q].at <= SignedAt[pending'[q].sig] + Interval
                       /\ pending'[q].at <= now' /\ now' <= pending'[q].at + Stall
      BY DEF InTime
    <3>1. CASE q = r
      <4>1. pending'[q] = [sig |-> s, at |-> now]  BY <3>1 DEF SignTypeOK
      <4> QED  BY <4>1, <2>0 DEF Fresh
    <3>2. CASE q # r
      <4>1. pending'[q] = pending[q]  BY <3>2 DEF SignTypeOK
      <4> QED  BY <4>1 DEF InTime
    <3> QED  BY <3>1, <3>2
  <2> QED  BY <2>1, <2>2, <2>3, <2>4
<1>2. ASSUME NEW r \in Request, SetNX(r) PROVE SignInv'
  <2> DEFINE s == pending[r].sig
  <2>0. /\ s \in Sig /\ s # NoSig /\ now \in Nat /\ SignedAt[s] \in Nat /\ TTL \in Nat
        /\ pending[r] # None /\ pending[r].at \in Nat
        /\ now' = now /\ pending' = [pending EXCEPT ![r] = None]
    BY <1>2, NoneIsNoSig, TimeAssumption DEF SetNX, SignTypeOK
  <2>1. InTime'
    <3> SUFFICES ASSUME NEW q \in Request, pending'[q] # None
                 PROVE pending'[q] = pending[q]
      BY <2>0 DEF InTime
    <3> QED  BY <2>0 DEF SignTypeOK
  <2>2. pending' \in [Request -> [sig : Sig, at : Nat] \cup {None}]
    BY <2>0 DEF SignTypeOK
  <2>3. CASE Stored(s)
    <3>1. seen' = seen /\ accepted' = accepted  BY <1>2, <2>3 DEF SetNX
    <3> QED  BY <2>0, <2>1, <2>2, <3>1 DEF SignTypeOK, NoReplay, Remembered
  <2>4. CASE ~Stored(s)
    <3>1. /\ seen' = [seen EXCEPT ![s] = now + TTL]
          /\ accepted' = [accepted EXCEPT ![r] = s]
      BY <1>2, <2>4 DEF SetNX
    <3>2. SignTypeOK'  BY <2>0, <2>2, <3>1 DEF SignTypeOK, Unseen
    <3>3. \A q \in Request : accepted[q] # s
      BY <2>4, <2>0, FoundAgain
    <3>4. NoReplay'
      <4> SUFFICES ASSUME NEW p \in Request, NEW q \in Request, p # q, accepted'[p] # NoSig
                   PROVE accepted'[p] # accepted'[q]
        BY DEF NoReplay
      <4>1. \A t \in Request : accepted'[t] = IF t = r THEN s ELSE accepted[t]
        BY <3>1 DEF SignTypeOK
      <4>2. CASE p = r  BY <4>1, <4>2, <3>3
      <4>3. CASE q = r  BY <4>1, <4>3, <3>3
      <4>4. CASE p # r /\ q # r  BY <4>1, <4>4 DEF NoReplay
      <4> QED  BY <4>2, <4>3, <4>4
    <3>5. Remembered'
      <4> SUFFICES ASSUME NEW q \in Request, accepted'[q] # NoSig
                   PROVE \/ seen'[accepted'[q]] >= SignedAt[accepted'[q]] + TTL
                         \/ now' > SignedAt[accepted'[q]] + TTL
        BY DEF Remembered
      <4>1. CASE q = r
        <5>1. accepted'[q] = s /\ seen'[s] = now + TTL
          BY <4>1, <3>1, <2>0 DEF SignTypeOK
        <5>2. now >= SignedAt[s]  BY <2>0 DEF InTime
        <5> QED  BY <5>1, <5>2, <2>0
      <4>2. CASE q # r
        <5>1. accepted'[q] = accepted[q]  BY <4>2, <3>1 DEF SignTypeOK
        <5>2. accepted[q] # s /\ accepted[q] \in Sig
          BY <3>3, <5>1 DEF SignTypeOK
        <5>3. seen'[accepted[q]] = seen[accepted[q]]
          BY <5>2, <3>1 DEF SignTypeOK
        <5> QED  BY <5>1, <5>3, <2>0 DEF Remembered
      <4> QED  BY <4>1, <4>2
    <3> QED  BY <2>1, <3>2, <3>4, <3>5
  <2> QED  BY <2>3, <2>4
<1>3. ASSUME NEW s \in Sig, Evict(s) PROVE SignInv'
  <2> USE <1>3 DEF Evict
  <2>1. SignTypeOK'  BY DEF SignTypeOK
  <2>2. NoReplay'  BY DEF NoReplay
  <2>3. InTime'  BY DEF InTime
  <2>4. now > seen[s] /\ seen[s] \in Nat
    BY NeverOver DEF SignTypeOK
  <2>5. Remembered'
    <3> SUFFICES ASSUME NEW q \in Request, accepted'[q] # NoSig
                 PROVE \/ seen'[accepted'[q]] >= SignedAt[accepted'[q]] + TTL
                       \/ now' > SignedAt[accepted'[q]] + TTL
      BY DEF Remembered
    <3>1. accepted'[q] = accepted[q] /\ accepted[q] \in Sig /\ now' = now /\ now \in Nat
      BY DEF SignTypeOK
    <3>2. CASE accepted[q] = s
      <4>1. SignedAt[s] \in Nat /\ TTL \in Nat  BY TimeAssumption
      <4>2. seen[s] >= SignedAt[s] + TTL \/ now > SignedAt[s] + TTL
        BY <3>1, <3>2 DEF Remembered
      <4> QED  BY <4>1, <4>2, <3>1, <3>2, <2>4
    <3>3. CASE accepted[q] # s
      <4>1. seen'[accepted[q]] = seen[accepted[q]]  BY <3>1, <3>3 DEF SignTypeOK
      <4> QED  BY <4>1, <3>1 DEF Remembered
    <3> QED  BY <3>2, <3>3
  <2> QED  BY <2>1, <2>2, <2>3, <2>5
<1>4. ASSUME Tick PROVE SignInv'
  <2> USE <1>4 DEF Tick
  <2>1. SignTypeOK'  BY DEF SignTypeOK
  <2>2. NoReplay'  BY DEF NoReplay
  <2>3. Remembered'
    <3> SUFFICES ASSUME NEW q \in Request, accepted[q] # NoSig
                 PROVE \/ seen[accepted[q]] >= SignedAt[accepted[q]] + TTL
                       \/ now + 1 > SignedAt[accepted[q]] + TTL
      BY DEF Remembered
    <3>1. accepted[q] \in Sig /\ SignedAt[accepted[q]] \in Nat /\ TTL \in Nat /\ now \in Nat
      BY TimeAssumption DEF SignTypeOK
    <3> QED  BY <3>1 DEF Remembered
  <2>4. InTime'
    <3> SUFFICES ASSUME NEW q \in Request, pending[q] # None
                 PROVE /\ pending[q].at >= SignedAt[pending[q].sig]
                       /\ pending[q].at <= SignedAt[pending[q].sig] + Interval
                       /\ pending[q].at <= now + 1 /\ now + 1 <= pending[q].at + Stall
      BY DEF InTime
    <3>1. pending[q].at \in Nat /\ now \in Nat /\ Stall \in Nat
      BY NoneIsNoSig, TimeAssumption DEF SignTypeOK
    <3>2. now - pending[q].at < Stall  OBVIOUS
    <3> QED  BY <3>1, <3>2 DEF InTime
  <2> QED  BY <2>1, <2>2, <2>3, <2>4
<1>5. CASE UNCHANGED signVars
  BY <1>5 DEF signVars, SignTypeOK, NoReplay, Remembered, InTime
<1> QED  BY <1>1, <1>2, <1>3, <1>4, <1>5 DEF SignNext

(* web/handler/signer: no signature lets two requests through, whatever the *)
(* number of requests and of signatures, when the TTL of the store covers   *)
(* the interval and the time between the check and SetNX (Config.TTL "Must  *)
(* be greater than Interval") and the store is large enough.                *)
THEOREM NeverReplayed == SignSpec => []NoReplay
<1>1. SignInit => SignInv  BY SignInitially
<1>2. SignInv /\ [SignNext]_signVars => SignInv'  BY SignStep
<1>3. SignInv => NoReplay  BY DEF SignInv
<1> QED  BY <1>1, <1>2, <1>3, PTL DEF SignSpec

-----------------------------------------------------------------------------
(* Requests through a chain of middlewares.                                 *)

Code == {200, 401, 403, 406, 500}
Shown == Texts \cup {"customer", "message"}
Chunk == [from : Request, kind : {"plain", "zip", "frame"}, shows : SUBSET Shown]
Header == {"gzip", "json"}
Context ==
    [dir : {"idle", "in", "out", "panic", "done"}, at : Nat, excluded : BOOLEAN,
     writer : Writer \cup {Direct}, carrier : BOOLEAN, fields : SUBSET {"error", "panic"},
     errors : Errors, late : BOOLEAN, passed : SUBSET Guards, silent : BOOLEAN,
     principal : Token \cup {NoToken}, live : SUBSET Token, paniced : BOOLEAN,
     ran : BOOLEAN, log : {"none", "error", "info"}]
Response ==
    [status : Code, sent : BOOLEAN, hdr : SUBSET Header, wire : SUBSET Header, bare : BOOLEAN,
     body : Seq(Chunk), closed : BOOLEAN]
GzipWriter == [target : Request \cup {NoSig}, open : BOOLEAN, useZip : BOOLEAN]

(* The guard g has let the request of the context k go on.                  *)
Cleared(k, g) ==
    \/ g \in k.passed
    \/ g # "authz" /\ k.excluded
    \/ g \in {"keyAuth", "jwt"} /\ k.silent

(* A context: where it is, the guards before it, and whose token it has.    *)
(* The tokens there are now were there when the request began.              *)
Placed(k) ==
    /\ k.at \in 0..Len(chain)
    /\ k.at = 0 <=> k.dir \in {"idle", "done"}
Admitted(k) ==
    /\ k.dir = "in" => \A i \in 1..(k.at - 1) : chain[i] \in Guards => Cleared(k, chain[i])
    /\ k.ran => \A i \in DOMAIN chain : chain[i] \in Guards => Cleared(k, chain[i])
    /\ k.principal # NoToken => k.principal \in k.live
    /\ IF k.dir = "idle" THEN k.principal = NoToken /\ ~k.ran ELSE tokens \subseteq k.live
Sound(k) == k \in Context /\ Placed(k) /\ Admitted(k)

(* Contexts alike in what admission is about.                               *)
Same(k, l) ==
    /\ l.writer = k.writer /\ l.excluded = k.excluded /\ l.passed = k.passed
    /\ l.silent = k.silent /\ l.principal = k.principal /\ l.live = k.live /\ l.ran = k.ran

(* The context of r went on: one middleware further in, or further out, or  *)
(* it waits; the other contexts are as they were.                           *)
Onward(k, l) ==
    /\ l.writer = k.writer
    /\ \/ l = k
       \/ k.dir = "in" /\ l.dir = "in" /\ l.at = k.at + 1
       \/ k.dir \in {"in", "out", "panic"} /\ l.dir \in {"out", "panic", "done"} /\ l.at < k.at
Moves(r) ==
    /\ Onward(ctx[r], ctx'[r])
    /\ \A q \in Request \ {r} : ctx'[q] = ctx[q]

(* A context that has a writer of the pool has one that was made for a      *)
(* request.                                                                 *)
Connections ==
    /\ resp \in [Request -> Response]
    /\ gw \in [Writer -> GzipWriter] /\ pool \subseteq Writer
    /\ \A r \in Request : ctx[r].writer # Direct => gw[ctx[r].writer].target \in Request

Contexts ==
    /\ route \in Routes /\ tokens \subseteq Token
    /\ ctx \in [Request -> Context]
    /\ \A r \in Request : Sound(ctx[r])

WebInv == Contexts /\ Connections

-----------------------------------------------------------------------------
(* A non-empty set of numbers up to n has a greatest one.                   *)
LEMMA Greatest ==
    ASSUME NEW n \in Nat, NEW J \in SUBSET (1..n), J # {}
    PROVE  Max(J) \in J /\ \A j \in J : j <= Max(J)
<1> DEFINE R == OpToRel(<, Nat)
           T == {n - j : j \in J}
<1>1. IsWellFoundedOn(R, Nat)
  BY NatLessThanWellFounded
<1>2. T \subseteq Nat /\ T # {}
  <2>1. \A j \in J : n - j \in Nat
    OBVIOUS
  <2>2. PICK j \in J : TRUE
    OBVIOUS
  <2>3. n - j \in T
    OBVIOUS
  <2> QED BY <2>1, <2>3
<1>3. \A x, y \in Nat : x < y => <<x, y>> \in R
  BY DEF OpToRel
<1> HIDE DEF R, T
<1>4. PICK x \in T : \A y \in T : <<y, x>> \notin R
  BY <1>1, <1>2, WFMin
<1>5. \A y \in T : x <= y
  <2> TAKE y \in T
  <2>1. x \in Nat /\ y \in Nat /\ ~(y < x)
    BY <1>2, <1>3, <1>4
  <2> QED BY <2>1
<1>6. PICK j \in J : x = n - j
  BY <1>4 DEF T
<1>7. \A i \in J : i <= j
  BY <1>5, <1>6 DEF T
<1> QED BY <1>6, <1>7 DEF Max

-----------------------------------------------------------------------------
(* The contexts that the steps of a request leave.                          *)
LEMMA Moved ==
    ASSUME NEW k \in Context, NEW n \in Nat,
           NEW dir \in {"idle", "in", "out", "panic", "done"}
    PROVE  [k EXCEPT !.dir = dir, !.at = n] \in Context
BY Zenon DEF Context

LEMMA OutContext ==
    ASSUME route \in Routes, NEW k \in Context, k.at \in 1..Len(chain),
           NEW dir \in {"out", "panic"}
    PROVE  /\ Out(k, dir) \in Context /\ Placed(Out(k, dir))
           /\ Out(k, dir).dir \in {"out", "panic", "done"} /\ Out(k, dir).at < k.at
           /\ Same(k, Out(k, dir))
<1> DEFINE J == {j \in 1..(k.at - 1) :
                    chain[j] \in IF dir = "panic" THEN Deferring ELSE Wrapping}
<1>1. Len(chain) \in Nat /\ k.at - 1 \in Nat
  BY RouteAssumption DEF chain
<1>2. CASE J = {}
  <2>1. Out(k, dir) = [k EXCEPT !.dir = "done", !.at = 0]
    BY <1>2 DEF Out
  <2>2. Out(k, dir) \in Context
    <3>1. 0 \in Nat /\ "done" \in {"idle", "in", "out", "panic", "done"}
      OBVIOUS
    <3>2. [k EXCEPT !.dir = "done", !.at = 0] \in Context
      BY <3>1, Moved, Zenon
    <3> QED BY <2>1, <3>2, Zenon
  <2>3. Out(k, dir).dir = "done" /\ Out(k, dir).at = 0 /\ Same(k, Out(k, dir))
    BY <2>1 DEF Context, Same
  <2> QED BY <1>1, <2>2, <2>3 DEF Placed
<1>3. CASE J # {}
  <2>1. Max(J) \in J
    BY <1>1, <1>3, Greatest
  <2>2. Max(J) \in 1..(k.at - 1)
    BY <2>1
  <2>3. Out(k, dir) = [k EXCEPT !.dir = dir, !.at = Max(J)]
    BY <1>3 DEF Out
  <2> HIDE DEF J
  <2>4. Max(J) \in Nat
    BY <1>1, <2>2
  <2>5. Out(k, dir) \in Context
    <3>1. dir \in {"idle", "in", "out", "panic", "done"}
      OBVIOUS
    <3>2. [k EXCEPT !.dir = dir, !.at = Max(J)] \in Context
      BY <2>4, <3>1, Moved, Zenon
    <3> QED BY <2>3, <3>2, Zenon
  <2>6. Out(k, dir).dir = dir /\ Out(k, dir).at = Max(J) /\ Same(k, Out(k, dir))
    BY <2>3 DEF Context, Same
  <2> QED BY <1>1, <2>2, <2>5, <2>6 DEF Placed
<1> QED BY <1>2, <1>3

(* On the way out nothing is admitted that was not before.                  *)
LEMMA OutSound ==
    ASSUME route \in Routes, NEW k \in Context, k.at \in 1..Len(chain), k.dir # "idle",
           Admitted(k), NEW dir \in {"out", "panic"}
    PROVE  /\ Sound(Out(k, dir)) /\ Out(k, dir).writer = k.writer
           /\ Out(k, dir).dir \in {"out", "panic", "done"} /\ Out(k, dir).at < k.at
<1> DEFINE l == Out(k, dir)
<1>1. /\ l \in Context /\ Placed(l) /\ l.dir \in {"out", "panic", "done"}
      /\ l.at < k.at /\ Same(k, l)
  BY OutContext
<1> HIDE DEF l
<1>2. Admitted(l)
  BY <1>1 DEF Admitted, Cleared, Same
<1> QED BY <1>1, <1>2 DEF Sound, Same, l

LEMMA InChain ==
    ASSUME route \in Routes, NEW k, Placed(k), k.dir \notin {"idle", "done"}
    PROVE  k.at \in 1..Len(chain) /\ k.at \in DOMAIN chain /\ Len(chain) \in Nat
BY RouteAssumption DEF Placed, chain

(* One middleware further in, past a guard that let the request go on.      *)
LEMMA ForwardSound ==
    ASSUME route \in Routes, NEW k, Sound(k), k.dir = "in", chain[k.at] # "handler",
           NEW l \in Context, l.dir = "in", l.at = k.at + 1,
           l.excluded = k.excluded, k.passed \subseteq l.passed, k.silent => l.silent,
           l.live = k.live, l.ran = k.ran,
           l.principal = k.principal \/ l.principal \in k.live,
           chain[k.at] \in Guards => Cleared(l, chain[k.at])
    PROVE  Sound(l)
<1>1. k.at \in 1..Len(chain) /\ k.at \in DOMAIN chain /\ Len(chain) \in Nat
  BY InChain DEF Sound
<1>2. k.at # Len(chain)
  BY <1>1, RouteAssumption DEF chain
<1>3. Placed(l)
  BY <1>1, <1>2 DEF Placed
<1>4. \A g : Cleared(k, g) => Cleared(l, g)
  BY DEF Cleared
<1>5. \A i \in 1..(l.at - 1) : chain[i] \in Guards => Cleared(l, chain[i])
  <2> TAKE i \in 1..(l.at - 1)
  <2>1. CASE i = k.at
    BY <2>1
  <2>2. CASE i # k.at
    <3>1. i \in 1..(k.at - 1)
      BY <1>1, <2>2
    <3> QED BY <1>4, <3>1 DEF Sound, Admitted
  <2> QED BY <2>1, <2>2
<1>6. Admitted(l)
  BY <1>4, <1>5 DEF Sound, Admitted
<1> QED BY <1>3, <1>6 DEF Sound

-----------------------------------------------------------------------------
(* What is written to a connection.                                         *)
LEMMA TargetType ==
    ASSUME WebInv, NEW r \in Request PROVE Target(r) \in Request
BY DEF WebInv, Contexts, Connections, Target

LEMMA StatusType ==
    ASSUME NEW rs \in [Request -> Response], NEW q \in Request, NEW code \in Code
    PROVE  Status(rs, q, code) \in [Request -> Response]
<1>1. [rs[q] EXCEPT !.status = code] \in Response
  BY DEF Response
<1> QED BY <1>1 DEF Status

LEMMA WriteHeaderNowType ==
    ASSUME NEW rs \in [Request -> Response], NEW q \in Request
    PROVE  WriteHeaderNow(rs, q) \in [Request -> Response]
<1> DEFINE one == [rs[q] EXCEPT !.sent = TRUE]
           two == [one EXCEPT !.wire = rs[q].hdr]
           new == [two EXCEPT !.bare = TRUE]
<1>1. rs[q] \in Response /\ rs[q].hdr \in SUBSET Header
  BY DEF Response
<1>2. one \in Response
  BY <1>1 DEF Response
<1>3. two \in Response
  BY <1>1, <1>2 DEF Response
<1>4. new \in Response
  BY <1>3 DEF Response
<1>5. WriteHeaderNow(rs, q) = IF rs[q].sent THEN rs ELSE [rs EXCEPT ![q] = new]
  BY DEF WriteHeaderNow
<1> HIDE DEF new
<1> QED BY <1>4, <1>5

LEMMA EmitType ==
    ASSUME NEW rs \in [Request -> Response], NEW q \in Request, NEW chunk \in Chunk
    PROVE  Emit(rs, q, chunk) \in [Request -> Response]
<1> DEFINE one == [rs[q] EXCEPT !.sent = TRUE]
           two == [one EXCEPT !.wire = IF rs[q].sent THEN @ ELSE rs[q].hdr]
           new == [two EXCEPT !.body = Append(@, chunk)]
<1>1. rs[q] \in Response /\ rs[q].hdr \in SUBSET Header
  BY DEF Response
<1>2. one \in Response
  BY <1>1 DEF Response
<1>3. two \in Response
  <2>1. one.wire \in SUBSET Header
    BY <1>2 DEF Response
  <2> HIDE DEF one
  <2> QED BY <1>1, <1>2, <2>1 DEF Response
<1>4. new \in Response
  <2> HIDE DEF two
  <2>1. Append(two.body, chunk) \in Seq(Chunk)
    BY <1>3 DEF Response
  <2> QED BY <1>3, <2>1 DEF Response
<1>5. Emit(rs, q, chunk) = [rs EXCEPT ![q] = new]
  BY DEF Emit
<1> HIDE DEF new
<1> QED BY <1>4, <1>5

(* Write changes no target of a pooled writer.                              *)
SameTargets(g) == \A w \in Writer : g[w].target = gw[w].target

LEMMA WriteType ==
    ASSUME WebInv, NEW r \in Request, NEW rs \in [Request -> Response],
           NEW size \in {"small", "large"}, NEW chunk \in Chunk
    PROVE  /\ Write(r, rs, size, chunk).rs \in [Request -> Response]
           /\ Write(r, rs, size, chunk).gw \in [Writer -> GzipWriter]
           /\ SameTargets(Write(r, rs, size, chunk).gw)
           /\ Write(r, rs, size, chunk).ok \in BOOLEAN
<1> DEFINE w == ctx[r].writer
           q == Target(r)
           zipped == [rs EXCEPT ![q].hdr = @ \cup {"gzip"}]
           opened == [rs EXCEPT ![q].hdr = @ \cup {"gzip"}, ![q].closed = FALSE]
<1>1. q \in Request /\ w \in Writer \cup {Direct} /\ gw \in [Writer -> GzipWriter]
  BY TargetType DEF WebInv, Contexts, Connections, Context
<1> HIDE DEF w, q
<1>2. Emit(rs, q, chunk) \in [Request -> Response]
  BY <1>1, EmitType
<1>3. zipped \in [Request -> Response]
  <2>1. rs[q] \in Response /\ rs[q].hdr \cup {"gzip"} \in SUBSET Header
    BY <1>1 DEF Response, Header
  <2>2. [rs[q] EXCEPT !.hdr = rs[q].hdr \cup {"gzip"}] \in Response
    BY <2>1 DEF Response
  <2>3. zipped = [rs EXCEPT ![q] = [rs[q] EXCEPT !.hdr = rs[q].hdr \cup {"gzip"}]]
    BY <1>1
  <2> QED BY <1>1, <2>2, <2>3
<1>4. opened \in [Request -> Response]
  <2>1. zipped[q] \in Response
    BY <1>1, <1>3
  <2> HIDE DEF zipped
  <2>2. [zipped[q] EXCEPT !.closed = FALSE] \in Response
    BY <2>1 DEF Response
  <2>3. opened = [zipped EXCEPT ![q] = [zipped[q] EXCEPT !.closed = FALSE]]
    BY DEF zipped
  <2> QED BY <1>1, <1>3, <2>2, <2>3
<1>5. [chunk EXCEPT !.kind = "zip"] \in Chunk
  BY DEF Chunk
<1> HIDE DEF zipped, opened
<1>6. Emit(opened, q, [chunk EXCEPT !.kind = "zip"]) \in [Request -> Response]
  BY <1>1, <1>4, <1>5, EmitType
<1>7. ASSUME NEW b \in BOOLEAN, w # Direct
      PROVE  /\ [gw EXCEPT ![w].useZip = b] \in [Writer -> GzipWriter]
             /\ SameTargets([gw EXCEPT ![w].useZip = b])
  <2>1. gw[w] \in GzipWriter /\ w \in Writer
    BY <1>1, <1>7
  <2>2. [gw[w] EXCEPT !.useZip = b] \in GzipWriter
        /\ [gw[w] EXCEPT !.useZip = b].target = gw[w].target
    BY <2>1 DEF GzipWriter
  <2> QED BY <1>1, <2>1, <2>2 DEF SameTargets
<1>8. CASE w = Direct
  BY <1>1, <1>2, <1>8 DEF Write, SameTargets, w, q
<1>9. CASE w # Direct /\ size = "small"
  BY <1>2, <1>7, <1>9 DEF Write, w, q
<1>10. CASE w # Direct /\ size # "small"
  <2>1. Write(r, rs, size, chunk) =
          [rs |-> IF gw[w].open THEN Emit(opened, q, [chunk EXCEPT !.kind = "zip"])
                  ELSE zipped,
           gw |-> [gw EXCEPT ![w].useZip = TRUE], ok |-> gw[w].open]
    BY <1>10 DEF Write, w, q, opened, zipped
  <2>2. gw[w].open \in BOOLEAN
    BY <1>1, <1>10 DEF GzipWriter
  <2>3. /\ [gw EXCEPT ![w].useZip = TRUE] \in [Writer -> GzipWriter]
        /\ SameTargets([gw EXCEPT ![w].useZip = TRUE])
    BY <1>7, <1>10
  <2>4. /\ Write(r, rs, size, chunk).rs \in [Request -> Response]
        /\ Write(r, rs, size, chunk).ok \in BOOLEAN
    BY <1>3, <1>6, <2>1, <2>2
  <2>5. Write(r, rs, size, chunk).gw = [gw EXCEPT ![w].useZip = TRUE]
    BY <2>1
  <2> QED BY <2>3, <2>4, <2>5, Zenon
<1> QED BY <1>8, <1>9, <1>10

-----------------------------------------------------------------------------
(* What is left to show of a step of the request r.                         *)
LEMMA ContextStep ==
    ASSUME Contexts, NEW r \in Request, NEW l, Sound(l), ctx' = [ctx EXCEPT ![r] = l],
           UNCHANGED route, tokens' \subseteq tokens
    PROVE  Contexts'
<1>1. \A q \in Request : ctx'[q] = IF q = r THEN l ELSE ctx[q]
  BY DEF Contexts
<1>2. \A q \in Request : Sound(ctx'[q])
  BY <1>1 DEF Contexts
<1>3. ctx' \in [Request -> Context]
  BY <1>2 DEF Contexts, Sound
<1>4. ASSUME NEW q \in Request PROVE Sound(ctx[q])'
  <2>1. Sound(ctx'[q]) /\ chain' = chain
    BY <1>2, <1>4 DEF chain
  <2> QED BY <2>1 DEF Sound, Placed, Admitted, Cleared
<1> QED BY <1>3, <1>4 DEF Contexts

LEMMA WebStep ==
    ASSUME WebInv, NEW r \in Request, NEW l, Sound(l), l.writer = ctx[r].writer,
           ctx' = [ctx EXCEPT ![r] = l], UNCHANGED route, tokens' \subseteq tokens,
           resp' \in [Request -> Response], gw' \in [Writer -> GzipWriter], SameTargets(gw'),
           pool' \subseteq Writer, Onward(ctx[r], l)
    PROVE  WebInv' /\ Moves(r)
<1>0. Moves(r)
  BY DEF Moves, WebInv, Contexts
<1>1. Contexts'
  BY ContextStep DEF WebInv
<1>2. \A q \in Request : ctx'[q].writer = ctx[q].writer /\ ctx[q].writer \in Writer \cup {Direct}
  BY DEF WebInv, Contexts, Context
<1>3. Connections'
  BY <1>2 DEF WebInv, Connections, SameTargets
<1> QED BY <1>0, <1>1, <1>3 DEF WebInv

LEMMA AdmittedSame ==
    ASSUME NEW k, NEW l, Admitted(k), Same(k, l), l.dir = k.dir, l.at = k.at PROVE Admitted(l)
BY DEF Admitted, Same, Cleared

(* The context of a request that is under way.                              *)
LEMMA UnderWay ==
    ASSUME WebInv, NEW r \in Request, ctx[r].dir \in {"in", "out", "panic"}
    PROVE  /\ route \in Routes /\ ctx[r] \in Context /\ Sound(ctx[r]) /\ Admitted(ctx[r])
           /\ ctx[r].at \in 1..Len(chain) /\ ctx[r].dir # "idle"
BY InChain DEF WebInv, Contexts, Sound

(* A step of r that ends with the way out of a context like the one before. *)
LEMMA OutStep ==
    ASSUME WebInv, NEW r \in Request, ctx[r].dir \in {"in", "out", "panic"},
           NEW k \in Context, Same(ctx[r], k), k.dir = ctx[r].dir, k.at = ctx[r].at,
           NEW dir \in {"out", "panic"}, ctx' = [ctx EXCEPT ![r] = Out(k, dir)],
           UNCHANGED <<route, tokens>>, resp' \in [Request -> Response],
           gw' \in [Writer -> GzipWriter], SameTargets(gw'), pool' \subseteq Writer
    PROVE  WebInv' /\ Moves(r)
<1>1. Admitted(k) /\ k.at \in 1..Len(chain) /\ k.dir # "idle" /\ route \in Routes
  BY UnderWay, AdmittedSame
<1>2. /\ Sound(Out(k, dir)) /\ Out(k, dir).writer = k.writer
      /\ Out(k, dir).dir \in {"out", "panic", "done"} /\ Out(k, dir).at < k.at
  BY <1>1, OutSound
<1>3. PICK l : l = Out(k, dir)
  OBVIOUS
<1>4. Sound(l) /\ l.writer = ctx[r].writer /\ ctx' = [ctx EXCEPT ![r] = l]
  BY <1>2, <1>3 DEF Same
<1>5. Onward(ctx[r], l)
  BY <1>2, <1>3, <1>4 DEF Onward
<1> QED BY <1>4, <1>5, WebStep

(* More errors.                                                             *)
LEMMA ErrorsType ==
    ASSUME NEW k \in Context, NEW errs \in Errors
    PROVE  /\ [k EXCEPT !.errors = @ \o errs] \in Context
           /\ Same(k, [k EXCEPT !.errors = @ \o errs])
           /\ [k EXCEPT !.errors = @ \o errs].dir = k.dir
           /\ [k EXCEPT !.errors = @ \o errs].at = k.at
<1>1. k.errors \o errs \in Errors
  BY DEF Context, Errors
<1>2. [k EXCEPT !.errors = k.errors \o errs] \in Context
  BY <1>1 DEF Context
<1>3. /\ Same(k, [k EXCEPT !.errors = k.errors \o errs])
      /\ [k EXCEPT !.errors = k.errors \o errs].dir = k.dir
      /\ [k EXCEPT !.errors = k.errors \o errs].at = k.at
  BY DEF Context, Same
<1> QED BY <1>2, <1>3

LEMMA ErrorType ==
    ASSUME NEW k \in Context, NEW e \in [type : Types, text : Texts]
    PROVE  Error(k, e) \in Context /\ Same(k, Error(k, e))
           /\ Error(k, e).dir = k.dir /\ Error(k, e).at = k.at
<1>1. Append(k.errors, e) \in Errors
  BY DEF Context, Errors
<1>2. Error(k, e) = [k EXCEPT !.errors = Append(k.errors, e)]
  BY DEF Error
<1>3. [k EXCEPT !.errors = Append(k.errors, e)] \in Context
  BY <1>1 DEF Context
<1>4. Same(k, Error(k, e)) /\ Error(k, e).dir = k.dir /\ Error(k, e).at = k.at
  BY <1>2 DEF Context, Same
<1> QED BY <1>2, <1>3, <1>4

LEMMA PrivateType ==
    ASSUME NEW t \in Texts
    PROVE  Private(t) \in [type : Types, text : Texts] /\ <<Private(t)>> \in Errors
<1>1. Private(t) \in [type : Types, text : Texts]
  BY DEF Private, Types
<1> QED BY <1>1 DEF Errors

LEMMA GinAbortKeeps ==
    ASSUME WebInv, NEW r \in Request, ctx[r].dir \in {"in", "out", "panic"},
           NEW code \in Code, NEW errs \in Errors, GinAbort(r, ctx[r], code, errs),
           UNCHANGED <<route, gw, pool, tokens>>
    PROVE  WebInv' /\ Moves(r)
<1>1. ctx[r] \in Context /\ Target(r) \in Request /\ resp \in [Request -> Response]
  BY UnderWay, TargetType DEF WebInv, Connections
<1>2. PICK k : k = [ctx[r] EXCEPT !.errors = @ \o errs]
  OBVIOUS
<1>3. k \in Context /\ Same(ctx[r], k) /\ k.dir = ctx[r].dir /\ k.at = ctx[r].at
  BY <1>1, <1>2, ErrorsType
<1>4. ctx' = [ctx EXCEPT ![r] = Out(k, "out")]
  BY <1>2 DEF GinAbort
<1>5. resp' \in [Request -> Response]
  BY <1>1, StatusType, WriteHeaderNowType DEF GinAbort
<1>6. gw' \in [Writer -> GzipWriter] /\ SameTargets(gw') /\ pool' \subseteq Writer
  BY DEF WebInv, Connections, SameTargets
<1> QED BY <1>3, <1>4, <1>5, <1>6, OutStep

-----------------------------------------------------------------------------
(* The way in.                                                              *)
LEMMA ForwardContext ==
    ASSUME NEW k \in Context
    PROVE  /\ Forward(k) \in Context /\ Same(k, Forward(k))
           /\ Forward(k).dir = k.dir /\ Forward(k).at = k.at + 1
<1>1. Forward(k) = [k EXCEPT !.at = k.at + 1] /\ k.at + 1 \in Nat
  BY DEF Forward, Context
<1>2. Forward(k) \in Context
  BY <1>1 DEF Context
<1> QED BY <1>1, <1>2 DEF Context, Same

LEMMA PassedContext ==
    ASSUME NEW k \in Context, NEW g \in Guards
    PROVE  /\ Passed(k, g) \in Context
           /\ Passed(k, g).dir = k.dir /\ Passed(k, g).at = k.at + 1
           /\ Passed(k, g).passed = k.passed \cup {g} /\ Passed(k, g).writer = k.writer
           /\ Passed(k, g).excluded = k.excluded /\ Passed(k, g).silent = k.silent
           /\ Passed(k, g).principal = k.principal /\ Passed(k, g).live = k.live
           /\ Passed(k, g).ran = k.ran
<1>1. PICK l : l = Forward(k)
  OBVIOUS
<1>2. l \in Context /\ Same(k, l) /\ l.dir = k.dir /\ l.at = k.at + 1
  BY <1>1, ForwardContext
<1>3. Passed(k, g) = [l EXCEPT !.passed = l.passed \cup {g}]
  BY <1>1 DEF Passed
<1>4. l.passed \cup {g} \in SUBSET Guards
  BY <1>2 DEF Context
<1>5. Passed(k, g) \in Context
  BY <1>2, <1>3, <1>4 DEF Context
<1> QED BY <1>2, <1>3, <1>5 DEF Context, Same

(* A step of r past the middleware it is at.                                *)
LEMMA ForwardStep ==
    ASSUME WebInv, NEW r \in Request, ctx[r].dir = "in", chain[ctx[r].at] # "handler",
           NEW l \in Context, l.dir = "in", l.at = ctx[r].at + 1, l.writer = ctx[r].writer,
           l.excluded = ctx[r].excluded, ctx[r].passed \subseteq l.passed,
           ctx[r].silent => l.silent, l.live = ctx[r].live, l.ran = ctx[r].ran,
           l.principal = ctx[r].principal \/ l.principal \in ctx[r].live,
           chain[ctx[r].at] \in Guards => Cleared(l, chain[ctx[r].at]),
           ctx' = [ctx EXCEPT ![r] = l], UNCHANGED <<route, tokens, resp, gw, pool>>
    PROVE  WebInv' /\ Moves(r)
<1>1. route \in Routes /\ Sound(ctx[r])
  BY UnderWay
<1>2. PICK k : k = ctx[r]
  OBVIOUS
<1>3. Sound(l)
  BY <1>1, <1>2, ForwardSound
<1>4. /\ resp' \in [Request -> Response] /\ gw' \in [Writer -> GzipWriter]
      /\ SameTargets(gw') /\ pool' \subseteq Writer
  BY DEF WebInv, Connections, SameTargets
<1>5. Onward(ctx[r], l)
  BY DEF Onward
<1> QED BY <1>3, <1>4, <1>5, WebStep

(* A guard that accepts the request, and one that lets it go on though it   *)
(* did not: the path is excluded, or the refusal left no error.             *)
LEMMA PassStep ==
    ASSUME WebInv, NEW r \in Request, NEW g \in Guards, At(r, g),
           ctx' = [ctx EXCEPT ![r] = Passed(ctx[r], g)],
           UNCHANGED <<route, tokens, resp, gw, pool>>
    PROVE  WebInv' /\ Moves(r)
<1>1. ctx[r] \in Context /\ ctx[r].dir = "in" /\ chain[ctx[r].at] = g /\ g # "handler"
  BY UnderWay DEF At, Guards
<1>2. PICK l : l = Passed(ctx[r], g)
  OBVIOUS
<1>3. /\ l \in Context /\ l.dir = "in" /\ l.at = ctx[r].at + 1
      /\ l.passed = ctx[r].passed \cup {g} /\ l.writer = ctx[r].writer
      /\ l.excluded = ctx[r].excluded /\ l.silent = ctx[r].silent
      /\ l.principal = ctx[r].principal /\ l.live = ctx[r].live /\ l.ran = ctx[r].ran
  BY <1>1, <1>2, PassedContext
<1>4. Cleared(l, g) /\ ctx[r].passed \subseteq l.passed
  BY <1>3 DEF Cleared
<1> QED BY <1>1, <1>2, <1>3, <1>4, ForwardStep

LEMMA SkipStep ==
    ASSUME WebInv, NEW r \in Request, ctx[r].dir = "in", chain[ctx[r].at] # "handler",
           chain[ctx[r].at] \in Guards => Skipper(ctx[r]) /\ chain[ctx[r].at] # "authz",
           ctx' = [ctx EXCEPT ![r] = Forward(ctx[r])],
           UNCHANGED <<route, tokens, resp, gw, pool>>
    PROVE  WebInv' /\ Moves(r)
<1>1. ctx[r] \in Context
  BY UnderWay
<1>2. PICK l : l = Forward(ctx[r])
  OBVIOUS
<1>3. l \in Context /\ Same(ctx[r], l) /\ l.dir = "in" /\ l.at = ctx[r].at + 1
  BY <1>1, <1>2, ForwardContext
<1>4. chain[ctx[r].at] \in Guards => Cleared(l, chain[ctx[r].at])
  BY <1>3 DEF Cleared, Skipper, Same
<1> QED BY <1>2, <1>3, <1>4, ForwardStep DEF Same

LEMMA SilentStep ==
    ASSUME WebInv, NEW r \in Request, ctx[r].dir = "in", chain[ctx[r].at] \in {"jwt", "keyAuth"},
           ctx' = [ctx EXCEPT ![r] = [Forward(ctx[r]) EXCEPT !.silent = TRUE]],
           UNCHANGED <<route, tokens, resp, gw, pool>>
    PROVE  WebInv' /\ Moves(r)
<1>1. ctx[r] \in Context
  BY UnderWay
<1>2. PICK k : k = Forward(ctx[r])
  OBVIOUS
<1>3. k \in Context /\ Same(ctx[r], k) /\ k.dir = "in" /\ k.at = ctx[r].at + 1
  BY <1>1, <1>2, ForwardContext
<1>4. PICK l : l = [k EXCEPT !.silent = TRUE]
  OBVIOUS
<1>5. l \in Context
  BY <1>3, <1>4 DEF Context
<1>6. /\ l.dir = k.dir /\ l.at = k.at /\ l.writer = k.writer /\ l.excluded = k.excluded
      /\ l.passed = k.passed /\ l.live = k.live /\ l.ran = k.ran /\ l.silent
      /\ l.principal = k.principal
  BY <1>3, <1>4 DEF Context
<1>7. chain[ctx[r].at] \in Guards => Cleared(l, chain[ctx[r].at])
  BY <1>6 DEF Cleared
<1>8. ctx' = [ctx EXCEPT ![r] = l]
  BY <1>2, <1>4
<1>9. /\ l.dir = "in" /\ l.at = ctx[r].at + 1 /\ l.writer = ctx[r].writer
      /\ l.excluded = ctx[r].excluded /\ ctx[r].passed \subseteq l.passed
      /\ l.live = ctx[r].live /\ l.ran = ctx[r].ran /\ l.principal = ctx[r].principal
  BY <1>3, <1>6 DEF Same
<1> QED BY <1>5, <1>6, <1>7, <1>8, <1>9, ForwardStep

LEMMA EnterKeeps == ASSUME WebInv, NEW r \in Request, Enter(r) PROVE WebInv' /\ Moves(r)
<1>1. ctx[r].dir = "in" /\ chain[ctx[r].at] \in {"recovery", "accessLog", "errorHandle"}
  BY DEF Enter, At
<1>2. ctx[r] \in Context
  BY <1>1, UnderWay
<1>3. PICK k : k = Forward(ctx[r])
  OBVIOUS
<1>4. k \in Context /\ Same(ctx[r], k) /\ k.dir = "in" /\ k.at = ctx[r].at + 1
  BY <1>1, <1>2, <1>3, ForwardContext
<1>5. (k.carrier \/ chain[ctx[r].at] = "accessLog") \in BOOLEAN
  OBVIOUS
<1>6. PICK l : l = [k EXCEPT !.carrier = k.carrier \/ chain[ctx[r].at] = "accessLog"]
  OBVIOUS
<1>7. l \in Context
  BY <1>4, <1>5, <1>6, Zenon DEF Context
<1>8. /\ l.dir = k.dir /\ l.at = k.at /\ l.writer = k.writer /\ l.excluded = k.excluded
      /\ l.passed = k.passed /\ l.live = k.live /\ l.ran = k.ran /\ l.silent = k.silent
      /\ l.principal = k.principal
  BY <1>4, <1>6 DEF Context
<1>9. ctx' = [ctx EXCEPT ![r] = l]
  <2>1. ctx' = [ctx EXCEPT ![r] = [Forward(ctx[r]) EXCEPT
                    !.carrier = Forward(ctx[r]).carrier \/ chain[ctx[r].at] = "accessLog"]]
    BY DEF Enter
  <2> QED BY <1>3, <1>6, <2>1
<1>10. /\ l.dir = "in" /\ l.at = ctx[r].at + 1 /\ l.writer = ctx[r].writer
       /\ l.excluded = ctx[r].excluded /\ ctx[r].passed \subseteq l.passed
       /\ l.silent = ctx[r].silent /\ l.live = ctx[r].live /\ l.ran = ctx[r].ran
       /\ l.principal = ctx[r].principal
  BY <1>4, <1>8 DEF Same
<1>11. chain[ctx[r].at] # "handler" /\ chain[ctx[r].at] \notin Guards
  BY <1>1 DEF Guards
<1> QED BY <1>1, <1>7, <1>9, <1>10, <1>11, ForwardStep DEF Enter

LEMMA KeyAuthKeeps == ASSUME WebInv, NEW r \in Request, KeyAuth(r) PROVE WebInv' /\ Moves(r)
<1>1. ctx[r].dir = "in" /\ chain[ctx[r].at] = "keyAuth"
  BY DEF KeyAuth, At
<1>2. CASE ctx' = [ctx EXCEPT ![r] = Forward(ctx[r])] /\ UNCHANGED resp /\ Skipper(ctx[r])
  BY <1>1, <1>2, SkipStep DEF KeyAuth
<1>3. CASE ctx' = [ctx EXCEPT ![r] = Passed(ctx[r], "keyAuth")] /\ UNCHANGED resp
  BY <1>3, PassStep DEF KeyAuth, Guards
<1>4. CASE ctx' = [ctx EXCEPT ![r] = [Forward(ctx[r]) EXCEPT !.silent = TRUE]] /\ UNCHANGED resp
  BY <1>1, <1>4, SilentStep DEF KeyAuth
<1>5. CASE GinAbort(r, ctx[r], 401, <<Private("key")>>)
  BY <1>1, <1>5, PrivateType, GinAbortKeeps DEF KeyAuth, Code, Texts
<1> QED BY <1>2, <1>3, <1>4, <1>5 DEF KeyAuth

LEMMA CsrfKeeps == ASSUME WebInv, NEW r \in Request, Csrf(r) PROVE WebInv' /\ Moves(r)
<1>1. ctx[r].dir = "in" /\ chain[ctx[r].at] = "csrf" /\ ctx \in [Request -> Context]
  BY DEF Csrf, At, WebInv, Contexts
<1>2. CASE ctx' = [ctx EXCEPT ![r] = Forward(ctx[r])] /\ UNCHANGED resp /\ Skipper(ctx[r])
  BY <1>1, <1>2, SkipStep DEF Csrf
<1>3. CASE ctx' = [ctx EXCEPT ![r] = Passed(ctx[r], "csrf")] /\ UNCHANGED resp
  BY <1>3, PassStep DEF Csrf, Guards
<1>4. CASE GinAbort(r, ctx[r], 403, <<Private("csrf")>>)
  BY <1>1, <1>4, PrivateType, GinAbortKeeps DEF Csrf, Code, Texts
<1> QED BY <1>2, <1>3, <1>4 DEF Csrf

LEMMA AuthzKeeps == ASSUME WebInv, NEW r \in Request, Authz(r) PROVE WebInv' /\ Moves(r)
<1>1. ctx[r].dir = "in" /\ chain[ctx[r].at] = "authz"
  BY DEF Authz, At
<1>2. CASE ctx' = [ctx EXCEPT ![r] = Passed(ctx[r], "authz")] /\ UNCHANGED resp
  BY <1>2, PassStep DEF Authz, Guards
<1>3. CASE GinAbort(r, ctx[r], 403, <<Private("authz")>>)
  BY <1>1, <1>3, PrivateType, GinAbortKeeps DEF Authz, Code, Texts
<1>4. CASE GinAbort(r, ctx[r], 403, <<>>)
  <2>1. <<>> \in Errors
    BY DEF Errors
  <2> QED BY <1>1, <1>4, <2>1, GinAbortKeeps DEF Authz, Code
<1> QED BY <1>2, <1>3, <1>4 DEF Authz

LEMMA SignVerifyKeeps == ASSUME WebInv, NEW r \in Request, SignVerify(r) PROVE WebInv' /\ Moves(r)
<1>1. ctx[r].dir = "in" /\ chain[ctx[r].at] = "sign"
  BY DEF SignVerify, At
<1>2. CASE Skipper(ctx[r]) /\ ctx' = [ctx EXCEPT ![r] = Forward(ctx[r])] /\ UNCHANGED resp
  BY <1>1, <1>2, SkipStep DEF SignVerify
<1>3. CASE GinAbort(r, ctx[r], 401, <<Private("signature")>>)
  BY <1>1, <1>3, PrivateType, GinAbortKeeps DEF SignVerify, Code, Texts
<1>4. CASE UNCHANGED <<ctx, resp>>
  <2>1. WebInv'
    BY <1>4 DEF SignVerify, WebInv, Contexts, Connections, Sound, Placed, Admitted, Cleared, chain
  <2>2. Moves(r)
    BY <1>4 DEF Moves, Onward
  <2> QED BY <2>1, <2>2
<1> QED BY <1>2, <1>3, <1>4 DEF SignVerify

LEMMA signatureValidateKeeps ==
    ASSUME WebInv, NEW r \in Request, signatureValidate(r) PROVE WebInv' /\ Moves(r)
<1>1. ctx[r].dir = "in" /\ chain[ctx[r].at] = "sign"
  BY DEF signatureValidate, At
<1>2. CASE ctx' = [ctx EXCEPT ![r] = Passed(ctx[r], "sign")] /\ UNCHANGED resp
  BY <1>2, PassStep DEF signatureValidate, Guards
<1>3. CASE GinAbort(r, ctx[r], 401, <<Private("replayed")>>)
  BY <1>1, <1>3, PrivateType, GinAbortKeeps DEF signatureValidate, Code, Texts
<1> QED BY <1>2, <1>3 DEF signatureValidate

(* The token that decides is one of the store, or panics.                   *)
LEMMA FirstHit ==
    ASSUME NEW hits \in SUBSET {1, 2}, hits # {} PROVE Min(hits) \in hits
<1>1. \E x \in hits : \A y \in hits : x =< y
  <2>1. CASE 1 \in hits
    BY <2>1
  <2>2. CASE 1 \notin hits
    <3>1. 2 \in hits /\ \A y \in hits : y = 2
      BY <2>2
    <3> QED BY <3>1
  <2> QED BY <2>1, <2>2
<1> QED BY <1>1 DEF Min

LEMMA JWTPanics ==
    ASSUME WebInv, NEW r \in Request, At(r, "jwt"), UNCHANGED <<route, tokens, resp, gw, pool>>,
           ctx' = [ctx EXCEPT ![r] = Out([ctx[r] EXCEPT !.paniced = TRUE], "panic")]
    PROVE  WebInv' /\ Moves(r)
<1>1. ctx[r].dir = "in" /\ ctx[r] \in Context
  BY UnderWay DEF At
<1>2. PICK k : k = [ctx[r] EXCEPT !.paniced = TRUE]
  OBVIOUS
<1>3. k \in Context
  BY <1>1, <1>2 DEF Context
<1>4. Same(ctx[r], k) /\ k.dir = ctx[r].dir /\ k.at = ctx[r].at
  BY <1>1, <1>2 DEF Context, Same
<1>5. /\ resp' \in [Request -> Response] /\ gw' \in [Writer -> GzipWriter]
      /\ SameTargets(gw') /\ pool' \subseteq Writer
  BY DEF WebInv, Connections, SameTargets
<1>6. ctx' = [ctx EXCEPT ![r] = Out(k, "panic")]
  BY <1>2
<1> QED BY <1>1, <1>3, <1>4, <1>5, <1>6, OutStep

LEMMA JWTPasses ==
    ASSUME WebInv, NEW r \in Request, At(r, "jwt"), UNCHANGED <<route, tokens, resp, gw, pool>>,
           NEW t \in tokens,
           ctx' = [ctx EXCEPT ![r] = [Passed(ctx[r], "jwt") EXCEPT !.principal = t]]
    PROVE  WebInv' /\ Moves(r)
<1>1. ctx[r].dir = "in" /\ chain[ctx[r].at] = "jwt"
  BY DEF At
<1>2. ctx[r] \in Context /\ tokens \subseteq ctx[r].live /\ tokens \subseteq Token
  BY <1>1, UnderWay DEF Admitted, WebInv, Contexts
<1>3. PICK k : k = Passed(ctx[r], "jwt")
  OBVIOUS
<1>4. /\ k \in Context /\ k.dir = "in" /\ k.at = ctx[r].at + 1
      /\ k.passed = ctx[r].passed \cup {"jwt"} /\ k.writer = ctx[r].writer
      /\ k.excluded = ctx[r].excluded /\ k.silent = ctx[r].silent
      /\ k.live = ctx[r].live /\ k.ran = ctx[r].ran
  BY <1>1, <1>2, <1>3, PassedContext DEF Guards
<1>5. PICK l : l = [k EXCEPT !.principal = t]
  OBVIOUS
<1>6. l \in Context
  BY <1>2, <1>4, <1>5 DEF Context
<1>7. /\ l.dir = k.dir /\ l.at = k.at /\ l.writer = k.writer /\ l.excluded = k.excluded
      /\ l.passed = k.passed /\ l.live = k.live /\ l.ran = k.ran /\ l.silent = k.silent
      /\ l.principal = t
  BY <1>4, <1>5 DEF Context
<1>8. /\ Cleared(l, "jwt") /\ ctx[r].passed \subseteq l.passed /\ l.dir = "in"
      /\ l.at = ctx[r].at + 1 /\ l.writer = ctx[r].writer /\ l.excluded = ctx[r].excluded
      /\ l.silent = ctx[r].silent /\ l.live = ctx[r].live /\ l.ran = ctx[r].ran
      /\ l.principal \in ctx[r].live
  BY <1>2, <1>4, <1>7 DEF Cleared
<1>9. ctx' = [ctx EXCEPT ![r] = l]
  BY <1>3, <1>5
<1>10. /\ chain[ctx[r].at] # "handler"
       /\ chain[ctx[r].at] \in Guards => Cleared(l, chain[ctx[r].at])
  BY <1>1, <1>8
<1>11. /\ ctx[r].silent => l.silent
       /\ l.principal = ctx[r].principal \/ l.principal \in ctx[r].live
  BY <1>8
<1>12. l.dir = "in" /\ l.at = ctx[r].at + 1 /\ l.writer = ctx[r].writer
  BY <1>8
<1>13. /\ l.excluded = ctx[r].excluded /\ l.live = ctx[r].live /\ l.ran = ctx[r].ran
       /\ ctx[r].passed \subseteq l.passed
  BY <1>8
<1> QED BY <1>1, <1>6, <1>9, <1>10, <1>11, <1>12, <1>13, ForwardStep, Zenon

LEMMA JWTKeeps == ASSUME WebInv, NEW r \in Request, JWT(r) PROVE WebInv' /\ Moves(r)
<1>1. /\ At(r, "jwt") /\ ctx[r].dir = "in" /\ chain[ctx[r].at] = "jwt"
      /\ UNCHANGED <<route, gw, pool, tokens>>
  BY DEF JWT, At
<1>2. CASE ctx' = [ctx EXCEPT ![r] = Forward(ctx[r])] /\ UNCHANGED resp /\ Skipper(ctx[r])
  BY <1>1, <1>2, SkipStep
<1>3. CASE GinAbort(r, ctx[r], 401, <<Private("token")>>)
  BY <1>1, <1>3, PrivateType, GinAbortKeeps DEF Code, Texts
<1>4. CASE /\ ctx' = [ctx EXCEPT ![r] = [Forward(ctx[r]) EXCEPT !.silent = TRUE]]
           /\ UNCHANGED resp
  BY <1>1, <1>4, SilentStep
<1>5. ASSUME NEW auths, NEW hits, UNCHANGED resp, hits # {},
             hits = {i \in {1, 2} :
                       auths[i] # "missing" /\ HandleToken(auths[i]) # "error"},
             ctx' = [ctx EXCEPT ![r] =
                       IF HandleToken(auths[Min(hits)]) = "panic"
                       THEN Out([ctx[r] EXCEPT !.paniced = TRUE], "panic")
                       ELSE [Passed(ctx[r], "jwt") EXCEPT !.principal = auths[Min(hits)]]]
      PROVE  WebInv' /\ Moves(r)
  <2>1. PICK t : t = auths[Min(hits)]
    OBVIOUS
  <2>2. HandleToken(t) # "error"
    BY <1>5, <2>1, FirstHit
  <2>3. CASE HandleToken(t) = "panic"
    BY <1>1, <1>5, <2>1, <2>3, JWTPanics
  <2>4. CASE HandleToken(t) # "panic"
    <3>1. t \in tokens
      BY <2>2, <2>4 DEF HandleToken
    <3>2. ctx' = [ctx EXCEPT ![r] = [Passed(ctx[r], "jwt") EXCEPT !.principal = t]]
      BY <1>5, <2>1, <2>4
    <3> QED BY <1>1, <1>5, <3>1, <3>2, JWTPasses
  <2> QED BY <2>3, <2>4
<1>6. CASE Skipper(ctx[r])
  <2>1. ctx' = [ctx EXCEPT ![r] = Forward(ctx[r])] /\ UNCHANGED resp
    BY <1>6, Zenon DEF JWT
  <2> QED BY <1>2, <1>6, <2>1
<1>7. CASE ~Skipper(ctx[r])
  <2> DEFINE H(auths) == {i \in {1, 2} :
                            auths[i] # "missing" /\ HandleToken(auths[i]) # "error"}
  <2>1. PICK auths \in {"missing", "bad"} \X (Token \cup {"missing", "nojti"}) :
          IF H(auths) = {}
          THEN \E cleared \in Clears :
                 IF cleared
                 THEN ctx' = [ctx EXCEPT ![r] = [Forward(ctx[r]) EXCEPT !.silent = TRUE]]
                      /\ UNCHANGED resp
                 ELSE GinAbort(r, ctx[r], 401, <<Private("token")>>)
          ELSE /\ ctx' = [ctx EXCEPT ![r] =
                    IF HandleToken(auths[Min(H(auths))]) = "panic"
                    THEN Out([ctx[r] EXCEPT !.paniced = TRUE], "panic")
                    ELSE [Passed(ctx[r], "jwt") EXCEPT !.principal = auths[Min(H(auths))]]]
               /\ UNCHANGED resp
    BY <1>7, Zenon DEF JWT
  <2>2. PICK hits : hits = H(auths)
    OBVIOUS
  <2>3. CASE hits = {}
    BY <1>3, <1>4, <2>1, <2>2, <2>3
  <2>4. CASE hits # {}
    <3>1. UNCHANGED resp
      BY <2>1, <2>2, <2>4, Zenon
    <3>2. ctx' = [ctx EXCEPT ![r] =
                    IF HandleToken(auths[Min(hits)]) = "panic"
                    THEN Out([ctx[r] EXCEPT !.paniced = TRUE], "panic")
                    ELSE [Passed(ctx[r], "jwt") EXCEPT !.principal = auths[Min(hits)]]]
      BY <2>1, <2>2, <2>4, Zenon
    <3> QED BY <1>5, <2>2, <2>4, <3>1, <3>2, Zenon
  <2> QED BY <2>3, <2>4
<1> QED BY <1>6, <1>7

-----------------------------------------------------------------------------
(* gzip.                                                                    *)
LEMMA GzipEnterKeeps == ASSUME WebInv, NEW r \in Request, GzipEnter(r) PROVE WebInv'
<1>1. /\ ctx[r].dir = "in" /\ chain[ctx[r].at] = "gzip" /\ route \in Routes
      /\ ctx[r] \in Context /\ Sound(ctx[r])
  BY UnderWay DEF GzipEnter, At
<1>2. CASE ctx' = [ctx EXCEPT ![r] = Forward(ctx[r])] /\ UNCHANGED <<gw, pool>>
  BY <1>1, <1>2, SkipStep DEF GzipEnter, Guards
<1>3. ASSUME NEW w \in Writer, gw' = [gw EXCEPT ![w] = [@ EXCEPT !.target = r, !.open = TRUE]],
             pool' = pool \ {w},
             ctx' = [ctx EXCEPT ![r] = [Forward(@) EXCEPT !.writer = w]]
      PROVE  WebInv'
  <2>1. PICK k : k = Forward(ctx[r])
    OBVIOUS
  <2>2. k \in Context /\ Same(ctx[r], k) /\ k.dir = "in" /\ k.at = ctx[r].at + 1
    BY <1>1, <2>1, ForwardContext
  <2>3. PICK l : l = [k EXCEPT !.writer = w]
    OBVIOUS
  <2>4. l \in Context
    BY <2>2, <2>3 DEF Context
  <2>5. /\ l.dir = k.dir /\ l.at = k.at /\ l.writer = w /\ l.excluded = k.excluded
        /\ l.passed = k.passed /\ l.live = k.live /\ l.ran = k.ran /\ l.silent = k.silent
        /\ l.principal = k.principal
    BY <2>2, <2>3 DEF Context
  <2>6. Sound(l)
    <3>1. /\ l.dir = "in" /\ l.at = ctx[r].at + 1 /\ l.excluded = ctx[r].excluded
          /\ ctx[r].passed \subseteq l.passed /\ l.silent = ctx[r].silent
          /\ l.live = ctx[r].live /\ l.ran = ctx[r].ran /\ l.principal = ctx[r].principal
      BY <2>2, <2>5 DEF Same
    <3>2. chain[ctx[r].at] # "handler" /\ chain[ctx[r].at] \notin Guards
      BY <1>1 DEF Guards
    <3>3. PICK c : c = ctx[r]
      OBVIOUS
    <3> QED BY <1>1, <2>4, <3>1, <3>2, <3>3, ForwardSound
  <2>7. ctx' = [ctx EXCEPT ![r] = l]
    BY <1>3, <2>1, <2>3
  <2>8. Contexts'
    BY <2>6, <2>7, ContextStep DEF WebInv, GzipEnter
  <2>9. gw' \in [Writer -> GzipWriter] /\ gw'[w].target = r
        /\ \A v \in Writer \ {w} : gw'[v] = gw[v]
    <3>1. gw \in [Writer -> GzipWriter] /\ gw[w] \in GzipWriter
      BY DEF WebInv, Connections
    <3>2. PICK g : g = [gw[w] EXCEPT !.target = r, !.open = TRUE]
      OBVIOUS
    <3>3. g \in GzipWriter /\ g.target = r
      BY <3>1, <3>2 DEF GzipWriter
    <3>4. gw' = [gw EXCEPT ![w] = g]
      BY <1>3, <3>2
    <3> QED BY <3>1, <3>3, <3>4
  <2>10. \A q \in Request : ctx'[q].writer = IF q = r THEN w ELSE ctx[q].writer
    BY <2>5, <2>7 DEF WebInv, Contexts
  <2>11. ASSUME NEW q \in Request, ctx'[q].writer # Direct
         PROVE  gw'[ctx'[q].writer].target \in Request
    <3>1. CASE ctx'[q].writer = w
      BY <2>9, <3>1
    <3>2. CASE ctx'[q].writer # w
      <4>1. ctx'[q].writer = ctx[q].writer /\ ctx[q].writer \in Writer \ {w}
        BY <2>10, <2>11, <3>2 DEF WebInv, Contexts, Context
      <4> QED BY <2>9, <2>11, <4>1 DEF WebInv, Connections
    <3> QED BY <3>1, <3>2
  <2>12. Connections'
    BY <1>3, <2>9, <2>11 DEF WebInv, Connections, GzipEnter
  <2> QED BY <2>8, <2>12 DEF WebInv
<1> QED BY <1>2, <1>3 DEF GzipEnter

LEMMA GzipLeaveKeeps == ASSUME WebInv, NEW r \in Request, GzipLeave(r) PROVE WebInv' /\ Moves(r)
<1> DEFINE w == ctx[r].writer
           q == Target(r)
           frame == [from |-> r, kind |-> "frame", shows |-> {}]
<1>1. ctx[r].dir \in {"out", "panic"} /\ ctx[r] \in Context
  BY UnderWay DEF GzipLeave
<1>2. /\ q \in Request /\ w \in Writer \cup {Direct} /\ frame \in Chunk
      /\ resp \in [Request -> Response] /\ gw \in [Writer -> GzipWriter] /\ pool \subseteq Writer
  BY <1>1, TargetType DEF WebInv, Connections, Context, Chunk
<1>3. resp' \in [Request -> Response]
  <2>1. Emit(resp, q, frame) \in [Request -> Response]
    BY <1>2, EmitType
  <2>2. [resp EXCEPT ![q].closed = TRUE] \in [Request -> Response]
    <3>1. [resp[q] EXCEPT !.closed = TRUE] \in Response
      BY <1>2 DEF Response
    <3> QED BY <1>2, <3>1
  <2>3. resp' \in {resp, Emit(resp, q, frame), [resp EXCEPT ![q].closed = TRUE]}
    BY DEF GzipLeave
  <2> QED BY <1>2, <2>1, <2>2, <2>3
<1>4. gw' \in [Writer -> GzipWriter] /\ SameTargets(gw') /\ pool' \subseteq Writer
  <2>1. CASE w = Direct
    BY <1>2, <2>1 DEF GzipLeave, SameTargets
  <2>2. CASE w # Direct
    <3>1. w \in Writer /\ gw' = [gw EXCEPT ![w].open = FALSE] /\ pool' = pool \cup {w}
      BY <1>2, <2>2 DEF GzipLeave
    <3>2. [gw[w] EXCEPT !.open = FALSE] \in GzipWriter
          /\ [gw[w] EXCEPT !.open = FALSE].target = gw[w].target
      BY <1>2, <3>1 DEF GzipWriter
    <3> QED BY <1>2, <3>1, <3>2 DEF SameTargets
  <2> QED BY <2>1, <2>2
<1>5. ctx' = [ctx EXCEPT ![r] = Out(ctx[r], ctx[r].dir)]
  BY DEF GzipLeave
<1> HIDE DEF w, q, frame
<1>6. PICK k, dir : k = ctx[r] /\ dir = ctx[r].dir
  OBVIOUS
<1>7. k \in Context /\ Same(ctx[r], k) /\ dir \in {"out", "panic"}
      /\ ctx' = [ctx EXCEPT ![r] = Out(k, dir)]
  BY <1>1, <1>5, <1>6 DEF Same
<1>8. k.dir = ctx[r].dir /\ k.at = ctx[r].at /\ UNCHANGED <<route, tokens>>
  BY <1>6 DEF GzipLeave
<1> QED BY <1>1, <1>3, <1>4, <1>7, <1>8, OutStep

-----------------------------------------------------------------------------
(* The way out.                                                             *)
LEMMA Quiet ==
    ASSUME WebInv, UNCHANGED <<gw, pool>>
    PROVE  gw' \in [Writer -> GzipWriter] /\ SameTargets(gw') /\ pool' \subseteq Writer
BY DEF WebInv, Connections, SameTargets

LEMMA RecoveryLeaveKeeps == ASSUME WebInv, NEW r \in Request, RecoveryLeave(r) PROVE WebInv' /\ Moves(r)
<1>1. PICK k : k = ctx[r]
  OBVIOUS
<1>2. ctx[r].dir = "out" /\ k \in Context /\ Same(ctx[r], k)
  BY <1>1, UnderWay DEF RecoveryLeave, Leaving, Same
<1>3. ctx' = [ctx EXCEPT ![r] = Out(k, "out")]
  BY <1>1 DEF RecoveryLeave
<1>4. UNCHANGED <<route, resp, gw, pool, tokens>> /\ resp \in [Request -> Response]
  BY DEF RecoveryLeave, WebInv, Connections
<1> QED BY <1>1, <1>2, <1>3, <1>4, Quiet, OutStep

LEMMA AccessLogLeaveKeeps ==
    ASSUME WebInv, NEW r \in Request, AccessLogLeave(r) PROVE WebInv' /\ Moves(r)
<1>1. ctx[r].dir = "out" /\ ctx[r] \in Context
  BY UnderWay DEF AccessLogLeave, Leaving
<1> DEFINE private == \E i \in DOMAIN ctx[r].errors : IsType(ctx[r].errors[i], "private")
           new == IF Skipper(ctx[r]) /\ ctx[r].errors = <<>> THEN ctx[r].log
                  ELSE IF private \/ "error" \in ctx[r].fields THEN "error" ELSE "info"
<1>2. PICK level : level = new
  OBVIOUS
<1>3. level \in {"none", "error", "info"}
  <2>1. ctx[r].log \in {"none", "error", "info"}
    BY <1>1 DEF Context
  <2> HIDE DEF private
  <2> QED BY <1>2, <2>1
<1>4. PICK k : k = [ctx[r] EXCEPT !.log = level]
  OBVIOUS
<1>5. k \in Context
  BY <1>1, <1>3, <1>4 DEF Context
<1>6. Same(ctx[r], k) /\ k.dir = ctx[r].dir /\ k.at = ctx[r].at
  BY <1>1, <1>4 DEF Context, Same
<1>7. ctx' = [ctx EXCEPT ![r] = Out(k, "out")]
  BY <1>2, <1>4 DEF AccessLogLeave
<1>8. UNCHANGED <<route, resp, gw, pool, tokens>> /\ resp \in [Request -> Response]
  BY DEF AccessLogLeave, WebInv, Connections
<1> QED BY <1>1, <1>5, <1>6, <1>7, <1>8, Quiet, OutStep

LEMMA HandleRecoverErrorKeeps ==
    ASSUME WebInv, NEW r \in Request, HandleRecoverError(r) PROVE WebInv' /\ Moves(r)
<1>1. ctx[r].dir = "panic" /\ ctx[r] \in Context /\ Target(r) \in Request
  BY UnderWay, TargetType DEF HandleRecoverError
<1>2. PICK k : k = IF ctx[r].carrier
                   THEN [ctx[r] EXCEPT !.fields = ctx[r].fields \cup {"panic"}]
                   ELSE [ctx[r] EXCEPT !.log = "error"]
  OBVIOUS
<1>3. k \in Context
  <2>1. ctx[r].fields \cup {"panic"} \in SUBSET {"error", "panic"}
    BY <1>1 DEF Context
  <2>2. [ctx[r] EXCEPT !.fields = ctx[r].fields \cup {"panic"}] \in Context
    BY <1>1, <2>1 DEF Context
  <2>3. [ctx[r] EXCEPT !.log = "error"] \in Context
    BY <1>1 DEF Context
  <2> QED BY <1>2, <2>2, <2>3
<1>4. Same(ctx[r], k) /\ k.dir = ctx[r].dir /\ k.at = ctx[r].at
  BY <1>1, <1>2 DEF Context, Same
<1>5. PICK l : l = Error(k, Private("panic"))
  OBVIOUS
<1>6. l \in Context /\ Same(k, l) /\ l.dir = k.dir /\ l.at = k.at
  BY <1>3, <1>5, PrivateType, ErrorType DEF Texts
<1>7. AbortWithError(r, k, 500, Private("panic"))
  BY <1>2 DEF HandleRecoverError
<1>8. ctx' = [ctx EXCEPT ![r] = Out(l, "out")] /\ resp' = Status(resp, Target(r), 500)
  BY <1>5, <1>7 DEF AbortWithError
<1>9. resp' \in [Request -> Response]
  BY <1>1, <1>8, StatusType DEF WebInv, Connections, Code
<1>10. UNCHANGED <<route, gw, pool, tokens>>
  BY DEF HandleRecoverError
<1>11. Same(ctx[r], l) /\ l.dir = ctx[r].dir /\ l.at = ctx[r].at
  BY <1>4, <1>6 DEF Same
<1> QED BY <1>1, <1>6, <1>8, <1>9, <1>10, <1>11, Quiet, OutStep

LEMMA SeqElement == ASSUME NEW S, NEW s \in Seq(S), NEW i \in DOMAIN s PROVE s[i] \in S
OBVIOUS

LEMMA ParserType ==
    ASSUME NEW k \in Context, NEW status \in Code
    PROVE  /\ DefaultErrorParser(k, status).code \in Code
           /\ DefaultErrorParser(k, status).shows \in SUBSET Shown
<1>1. DefaultErrorParser(k, status).code \in Code
  BY DEF DefaultErrorParser, Code
<1>2. ASSUME NEW i \in DOMAIN k.errors
      PROVE  FormatResponseError(k.errors[i].type, k.errors[i],
                 IF k.errors[i].type = "public" THEN {} ELSE {"message"}) \subseteq Shown
  <2>1. k.errors[i] \in [type : Types, text : Texts]
    <3>1. PICK errs : errs = k.errors
      OBVIOUS
    <3>2. errs \in Seq([type : Types, text : Texts])
      BY <3>1 DEF Context, Errors
    <3>3. i \in DOMAIN errs
      BY <1>2, <3>1
    <3> QED BY <3>1, <3>2, <3>3, SeqElement
  <2>2. k.errors[i].text \in Shown
    BY <2>1 DEF Shown
  <2>3. "customer" \in Shown /\ "message" \in Shown
    BY DEF Shown
  <2> QED BY <2>2, <2>3 DEF FormatResponseError, LookupErrorCode
<1>3. DefaultErrorParser(k, status).shows \subseteq Shown
  BY <1>2 DEF DefaultErrorParser
<1> QED BY <1>1, <1>3

LEMMA NegotiateResponseKeeps ==
    ASSUME WebInv, NEW r \in Request, ctx[r].dir = "out", NEW code \in Code,
           NEW shows \in SUBSET Shown, NegotiateResponse(r, code, shows),
           UNCHANGED <<route, pool, tokens>>
    PROVE  WebInv' /\ Moves(r)
<1> DEFINE q == Target(r)
           status == IF resp[q].sent \/ resp[q].status # 200 THEN resp[q].status ELSE code
           none == Private("format")
           chunk == [from |-> r, kind |-> "plain", shows |-> shows]
           rs == [Status(resp, q, status) EXCEPT ![q].hdr = @ \cup {"json"}]
<1>1. /\ ctx[r] \in Context /\ q \in Request /\ resp \in [Request -> Response]
      /\ gw \in [Writer -> GzipWriter] /\ pool' \subseteq Writer
  BY UnderWay, TargetType DEF WebInv, Connections
<1>2. status \in Code /\ chunk \in Chunk /\ none \in [type : Types, text : Texts]
  <2>1. resp[q].status \in Code
    BY <1>1 DEF Response
  <2> QED BY <2>1, PrivateType DEF Chunk, Texts
<1>3. rs \in [Request -> Response]
  <2>1. PICK base : base = Status(resp, q, status)
    OBVIOUS
  <2>2. base \in [Request -> Response]
    BY <1>1, <1>2, <2>1, StatusType
  <2>3. base[q] \in Response /\ base[q].hdr \cup {"json"} \in SUBSET Header
    BY <1>1, <2>2 DEF Response, Header
  <2>4. [base[q] EXCEPT !.hdr = base[q].hdr \cup {"json"}] \in Response
    BY <2>3 DEF Response
  <2>5. rs = [base EXCEPT ![q] = [base[q] EXCEPT !.hdr = base[q].hdr \cup {"json"}]]
    BY <2>1
  <2>6. [base EXCEPT ![q] = [base[q] EXCEPT !.hdr = base[q].hdr \cup {"json"}]]
          \in [Request -> Response]
    BY <1>1, <2>2, <2>4
  <2> HIDE DEF rs
  <2> QED BY <2>5, <2>6, Zenon
<1> HIDE DEF q, status, none, chunk, rs
<1>4. ASSUME NEW size \in {"small", "large"}, NEW w, w = Write(r, rs, size, chunk),
             resp' = w.rs, gw' = w.gw,
             ctx' = [ctx EXCEPT ![r] = Out(ctx[r], IF w.ok THEN "out" ELSE "panic")]
      PROVE  WebInv' /\ Moves(r)
  <2>1. w.rs \in [Request -> Response] /\ w.gw \in [Writer -> GzipWriter] /\ SameTargets(w.gw)
    BY <1>2, <1>3, <1>4, WriteType
  <2>2. PICK k, dir : k = ctx[r] /\ dir = IF w.ok THEN "out" ELSE "panic"
    OBVIOUS
  <2>3. k \in Context /\ Same(ctx[r], k) /\ dir \in {"out", "panic"}
    BY <1>1, <2>2 DEF Same
  <2>4. ctx' = [ctx EXCEPT ![r] = Out(k, dir)]
    BY <1>4, <2>2
  <2>5. /\ resp' \in [Request -> Response] /\ gw' \in [Writer -> GzipWriter]
        /\ SameTargets(gw')
    BY <1>4, <2>1
  <2> QED BY <1>1, <2>2, <2>3, <2>4, <2>5, OutStep
<1>5. CASE gw' = gw /\ UNCHANGED resp /\ ctx' = [ctx EXCEPT ![r] = Out(Error(ctx[r], none), "out")]
  <2>1. PICK k : k = Error(ctx[r], none)
    OBVIOUS
  <2>2. k \in Context /\ Same(ctx[r], k) /\ k.dir = ctx[r].dir /\ k.at = ctx[r].at
    BY <1>1, <1>2, <2>1, ErrorType
  <2>3. ctx' = [ctx EXCEPT ![r] = Out(k, "out")]
    BY <1>5, <2>1
  <2> QED BY <1>1, <1>5, <2>2, <2>3, Quiet, OutStep
<1>6. CASE gw' = gw /\ GinAbort(r, ctx[r], 406, <<none>>)
  BY <1>6, PrivateType, GinAbortKeeps DEF Code, Texts, none
<1>7. CASE \E size \in {"small", "large"} :
             LET w == Write(r, rs, size, chunk)
             IN  /\ resp' = w.rs /\ gw' = w.gw
                 /\ ctx' = [ctx EXCEPT ![r] = Out(ctx[r], IF w.ok THEN "out" ELSE "panic")]
  BY <1>4, <1>7
<1> QED BY <1>5, <1>6, <1>7 DEF NegotiateResponse, q, status, none, chunk, rs

LEMMA ErrorHandleLeaveKeeps ==
    ASSUME WebInv, NEW r \in Request, ErrorHandleLeave(r) PROVE WebInv' /\ Moves(r)
<1>1. /\ ctx[r].dir = "out" /\ ctx[r] \in Context /\ Target(r) \in Request
      /\ resp \in [Request -> Response] /\ UNCHANGED <<route, pool, tokens>>
  BY UnderWay, TargetType DEF ErrorHandleLeave, Leaving, WebInv, Connections
<1>2. CASE ctx' = [ctx EXCEPT ![r] = Out(ctx[r], "out")] /\ UNCHANGED <<resp, gw>>
  <2>1. PICK k : k = ctx[r]
    OBVIOUS
  <2>2. k \in Context /\ Same(ctx[r], k) /\ ctx' = [ctx EXCEPT ![r] = Out(k, "out")]
    BY <1>1, <1>2, <2>1 DEF Same
  <2> QED BY <1>1, <1>2, <2>1, <2>2, Quiet, OutStep
<1>3. CASE ctx[r].errors # <<>>
  <2>1. resp[Target(r)].status \in Code
    BY <1>1 DEF Response
  <2>2. PICK parsed : parsed = DefaultErrorParser(ctx[r], resp[Target(r)].status)
    OBVIOUS
  <2>3. parsed.code \in Code /\ parsed.shows \in SUBSET Shown
    BY <1>1, <2>1, <2>2, ParserType
  <2>4. NegotiateResponse(r, parsed.code, parsed.shows)
    BY <1>3, <2>2 DEF ErrorHandleLeave
  <2> QED BY <1>1, <2>3, <2>4, NegotiateResponseKeeps
<1> QED BY <1>2, <1>3 DEF ErrorHandleLeave

-----------------------------------------------------------------------------
(* The handler, which stands behind all guards of the route.                *)
LEMMA BehindAll ==
    ASSUME WebInv, NEW r \in Request, At(r, "handler")
    PROVE  \A i \in DOMAIN chain : chain[i] \in Guards => Cleared(ctx[r], chain[i])
<1>1. /\ route \in Routes /\ Admitted(ctx[r]) /\ ctx[r].at \in 1..Len(chain)
      /\ ctx[r].dir = "in" /\ chain[ctx[r].at] = "handler"
  BY UnderWay DEF At
<1>2. DOMAIN chain = 1..Len(chain) /\ Len(chain) \in Nat
  BY <1>1, RouteAssumption DEF chain
<1>3. ctx[r].at = Len(chain) /\ chain[Len(chain)] = "handler"
  BY <1>1, <1>2, RouteAssumption DEF chain
<1>4. ASSUME NEW i \in DOMAIN chain, chain[i] \in Guards PROVE Cleared(ctx[r], chain[i])
  <2>1. i # Len(chain)
    BY <1>3, <1>4 DEF Guards
  <2>2. i \in 1..(ctx[r].at - 1)
    BY <1>2, <1>3, <2>1
  <2> QED BY <1>1, <1>4, <2>2 DEF Admitted
<1> QED BY <1>4

(* The handler has run, and left the way out of a context k.                *)
LEMMA HandlerStep ==
    ASSUME WebInv, NEW r \in Request, At(r, "handler"), NEW k \in Context,
           k.dir = ctx[r].dir, k.at = ctx[r].at, k.writer = ctx[r].writer,
           k.excluded = ctx[r].excluded, k.passed = ctx[r].passed, k.silent = ctx[r].silent,
           k.principal = ctx[r].principal, k.live = ctx[r].live,
           NEW dir \in {"out", "panic"}, ctx' = [ctx EXCEPT ![r] = Out(k, dir)],
           UNCHANGED route, tokens' \subseteq tokens, resp' \in [Request -> Response],
           gw' \in [Writer -> GzipWriter], SameTargets(gw'), pool' \subseteq Writer
    PROVE  WebInv' /\ Moves(r)
<1>1. /\ route \in Routes /\ Admitted(ctx[r]) /\ ctx[r].at \in 1..Len(chain)
      /\ ctx[r].dir = "in"
  BY UnderWay DEF At
<1>2. \A i \in DOMAIN chain : chain[i] \in Guards => Cleared(k, chain[i])
  BY BehindAll DEF Cleared
<1>3. Admitted(k)
  <2>1. /\ k.principal # NoToken => k.principal \in k.live
        /\ k.dir # "idle" /\ tokens \subseteq k.live
    BY <1>1 DEF Admitted
  <2>2. 1..(k.at - 1) \subseteq DOMAIN chain
    BY <1>1, RouteAssumption DEF chain
  <2> QED BY <1>2, <2>1, <2>2 DEF Admitted
<1>4. /\ Sound(Out(k, dir)) /\ Out(k, dir).writer = k.writer
      /\ Out(k, dir).dir \in {"out", "panic", "done"} /\ Out(k, dir).at < k.at
  BY <1>1, <1>3, OutSound
<1>5. PICK l : l = Out(k, dir)
  OBVIOUS
<1>6. Sound(l) /\ l.writer = ctx[r].writer /\ ctx' = [ctx EXCEPT ![r] = l]
  BY <1>4, <1>5
<1>7. Onward(ctx[r], l)
  BY <1>1, <1>4, <1>5, <1>6 DEF Onward
<1> QED BY <1>6, <1>7, WebStep

LEMMA LogoutHandlerKeeps == ASSUME WebInv, NEW r \in Request, LogoutHandler(r) PROVE WebInv' /\ Moves(r)
<1>1. ctx[r] \in Context /\ At(r, "handler")
  BY UnderWay DEF LogoutHandler, At
<1>2. PICK k : k = [ctx[r] EXCEPT !.ran = TRUE]
  OBVIOUS
<1>3. k \in Context
  BY <1>1, <1>2 DEF Context
<1>4. /\ k.dir = ctx[r].dir /\ k.at = ctx[r].at /\ k.writer = ctx[r].writer
      /\ k.excluded = ctx[r].excluded /\ k.passed = ctx[r].passed /\ k.silent = ctx[r].silent
      /\ k.principal = ctx[r].principal /\ k.live = ctx[r].live
  BY <1>1, <1>2 DEF Context
<1>5. ctx' = [ctx EXCEPT ![r] = Out(k, "out")]
  BY <1>2 DEF LogoutHandler
<1>6. /\ UNCHANGED <<route, gw, pool>> /\ tokens' \subseteq tokens
      /\ resp' \in [Request -> Response]
  BY DEF LogoutHandler, WebInv, Connections
<1> QED BY <1>1, <1>3, <1>4, <1>5, <1>6, Quiet, HandlerStep

LEMMA ActContext ==
    ASSUME NEW k \in Context, NEW errs \in Errors, NEW late \in BOOLEAN,
           NEW paniced \in BOOLEAN, NEW fields \in SUBSET {"error", "panic"}
    PROVE  [k EXCEPT !.errors = errs, !.late = late, !.paniced = paniced, !.fields = fields]
             \in Context
BY Zenon DEF Context

LEMMA HandlerKeeps == ASSUME WebInv, NEW r \in Request, Handler(r) PROVE WebInv' /\ Moves(r)
<1> DEFINE chunk == [from |-> r, kind |-> "plain", shows |-> {}]
           W(act) == IF act.size = "none" THEN [rs |-> resp, gw |-> gw, ok |-> TRUE]
                     ELSE Write(r, resp, act.size, chunk)
           c == [ctx[r] EXCEPT !.ran = TRUE]
<1>0. PICK act \in route.acts :
        /\ resp' = W(act).rs /\ gw' = W(act).gw
        /\ ctx' = [ctx EXCEPT ![r] =
              Out([c EXCEPT !.errors = c.errors \o act.errors,
                            !.late = W(act).rs[Target(r)].sent,
                            !.paniced = act.dir = "panic" \/ ~W(act).ok,
                            !.fields = IF c.carrier THEN c.fields \cup act.fields
                                       ELSE c.fields],
                  IF W(act).ok THEN act.dir ELSE "panic")]
  BY Zenon DEF Handler
<1> HIDE DEF c
<1>1. PICK j : j = c
  OBVIOUS
<1>2. /\ resp' = W(act).rs /\ gw' = W(act).gw
      /\ ctx' = [ctx EXCEPT ![r] =
            Out([j EXCEPT !.errors = j.errors \o act.errors,
                          !.late = W(act).rs[Target(r)].sent,
                          !.paniced = act.dir = "panic" \/ ~W(act).ok,
                          !.fields = IF j.carrier THEN j.fields \cup act.fields
                                     ELSE j.fields],
                IF W(act).ok THEN act.dir ELSE "panic")]
  BY <1>0, <1>1
<1>3. /\ ctx[r] \in Context /\ At(r, "handler") /\ route \in Routes /\ Target(r) \in Request
      /\ UNCHANGED <<route, pool, tokens>> /\ pool \subseteq Writer
      /\ resp \in [Request -> Response] /\ gw \in [Writer -> GzipWriter]
  BY UnderWay, TargetType DEF Handler, At, WebInv, Connections
<1>4. act \in Acts
  BY <1>0, <1>3, RouteAssumption
<1>5. /\ act.errors \in Errors /\ act.dir \in {"out", "panic"}
      /\ act.fields \in SUBSET {"error", "panic"} /\ act.size \in {"none", "small", "large"}
  BY <1>4 DEF Acts
<1>6. chunk \in Chunk
  BY DEF Chunk
<1> HIDE DEF chunk
<1>7. PICK w : w = W(act)
  OBVIOUS
<1>8. /\ w.rs \in [Request -> Response] /\ w.gw \in [Writer -> GzipWriter]
      /\ SameTargets(w.gw) /\ w.ok \in BOOLEAN
  <2>1. CASE act.size = "none"
    BY <1>3, <1>7, <2>1 DEF SameTargets
  <2>2. CASE act.size # "none"
    <3>1. w = Write(r, resp, act.size, chunk) /\ act.size \in {"small", "large"}
      BY <1>5, <1>7, <2>2
    <3> QED BY <1>3, <1>6, <3>1, WriteType
  <2> QED BY <2>1, <2>2
<1> HIDE DEF W
<1>9. j \in Context
  BY <1>1, <1>3 DEF Context, c
<1>10. PICK errs, late, paniced, fields :
         /\ errs = j.errors \o act.errors /\ late = w.rs[Target(r)].sent
         /\ paniced = (act.dir = "panic" \/ ~w.ok)
         /\ fields = IF j.carrier THEN j.fields \cup act.fields ELSE j.fields
  OBVIOUS
<1>11. errs \in Errors
  <2>1. j.errors \in Errors
    BY <1>9 DEF Context
  <2> QED BY <1>5, <1>10, <2>1 DEF Errors
<1>12. late \in BOOLEAN /\ paniced \in BOOLEAN
  <2>1. w.rs[Target(r)] \in Response
    BY <1>3, <1>8
  <2> QED BY <1>10, <2>1, Zenon DEF Response
<1>13. fields \in SUBSET {"error", "panic"}
  <2>1. j.fields \in SUBSET {"error", "panic"}
    BY <1>9 DEF Context
  <2> QED BY <1>5, <1>10, <2>1
<1>14. PICK k : k = [j EXCEPT !.errors = errs, !.late = late, !.paniced = paniced,
                             !.fields = fields]
  OBVIOUS
<1>15. k \in Context
  BY <1>9, <1>11, <1>12, <1>13, <1>14, ActContext
<1>16. /\ k.dir = j.dir /\ k.at = j.at /\ k.writer = j.writer /\ k.excluded = j.excluded
       /\ k.passed = j.passed /\ k.silent = j.silent /\ k.principal = j.principal
       /\ k.live = j.live
  BY <1>9, <1>14 DEF Context
<1>17. /\ j.dir = ctx[r].dir /\ j.at = ctx[r].at /\ j.writer = ctx[r].writer
       /\ j.excluded = ctx[r].excluded /\ j.passed = ctx[r].passed
       /\ j.silent = ctx[r].silent /\ j.principal = ctx[r].principal /\ j.live = ctx[r].live
  BY <1>1, <1>3 DEF Context, c
<1>18. PICK dir : dir = IF w.ok THEN act.dir ELSE "panic"
  OBVIOUS
<1>19. ctx' = [ctx EXCEPT ![r] = Out(k, dir)]
  BY <1>2, <1>7, <1>10, <1>14, <1>18, Zenon
<1>20. dir \in {"out", "panic"} /\ pool' \subseteq Writer /\ tokens' \subseteq tokens
  BY <1>3, <1>5, <1>18
<1>21. /\ resp' \in [Request -> Response] /\ gw' \in [Writer -> GzipWriter]
       /\ SameTargets(gw')
  BY <1>2, <1>7, <1>8
<1>22. /\ k.dir = ctx[r].dir /\ k.at = ctx[r].at /\ k.writer = ctx[r].writer
       /\ k.excluded = ctx[r].excluded /\ k.passed = ctx[r].passed
       /\ k.silent = ctx[r].silent /\ k.principal = ctx[r].principal /\ k.live = ctx[r].live
  BY <1>16, <1>17
<1> QED BY <1>3, <1>15, <1>19, <1>20, <1>21, <1>22, HandlerStep

-----------------------------------------------------------------------------
(* A request that begins, and the steps that are not a request's.           *)
LEMMA StartKeeps == ASSUME WebInv, NEW r \in Request, Start(r) PROVE WebInv'
<1>1. PICK x \in BOOLEAN :
        ctx' = [ctx EXCEPT ![r] =
                  [ctx[r] EXCEPT !.dir = "in", !.at = 1, !.excluded = x, !.live = tokens]]
  BY DEF Start
<1>2. /\ ctx[r] \in Context /\ ctx[r].dir = "idle" /\ route \in Routes
      /\ Sound(ctx[r]) /\ UNCHANGED <<route, resp, gw, pool, tokens>>
      /\ tokens \in SUBSET Token
  BY DEF Start, WebInv, Contexts
<1>3. PICK l : l = [ctx[r] EXCEPT !.dir = "in", !.at = 1, !.excluded = x, !.live = tokens]
  OBVIOUS
<1>4. l \in Context
  <2>1. 1 \in Nat /\ "in" \in {"idle", "in", "out", "panic", "done"}
    OBVIOUS
  <2>2. [ctx[r] EXCEPT !.dir = "in", !.at = 1, !.excluded = x, !.live = tokens] \in Context
    BY <1>2, <2>1, Zenon DEF Context
  <2> QED BY <1>3, <2>2, Zenon
<1>5. /\ l.dir = "in" /\ l.at = 1 /\ l.live = tokens /\ l.writer = ctx[r].writer
      /\ l.principal = ctx[r].principal /\ l.ran = ctx[r].ran
  BY <1>2, <1>3 DEF Context
<1>6. Placed(l)
  BY <1>2, <1>5, RouteAssumption DEF Placed, chain
<1>7. Admitted(l)
  BY <1>2, <1>5 DEF Sound, Admitted
<1>8. Sound(l) /\ ctx' = [ctx EXCEPT ![r] = l]
  BY <1>1, <1>3, <1>4, <1>6, <1>7 DEF Sound
<1>9. Contexts'
  BY <1>2, <1>8, ContextStep DEF WebInv
<1>10. \A q \in Request : ctx'[q].writer = ctx[q].writer
  BY <1>5, <1>8 DEF WebInv, Contexts
<1>11. Connections'
  BY <1>2, <1>10 DEF WebInv, Connections
<1> QED BY <1>9, <1>11 DEF WebInv

LEMMA WebQuiet == ASSUME WebInv, UNCHANGED webVars PROVE WebInv'
<1>1. UNCHANGED <<route, ctx, resp, gw, pool, tokens>> /\ chain' = chain
  BY DEF webVars, chain
<1>2. Contexts'
  BY <1>1 DEF WebInv, Contexts, Sound, Placed, Admitted, Cleared
<1>3. Connections'
  BY <1>1 DEF WebInv, Connections
<1> QED BY <1>2, <1>3 DEF WebInv

LEMMA WebInitially == Init => WebInv
<1> SUFFICES ASSUME Init PROVE WebInv
  OBVIOUS
<1>1. NewContext \in Context
  <2>1. <<>> \in Errors
    BY DEF Errors
  <2> QED BY <2>1 DEF Context, NewContext, Guards
<1>2. /\ NewContext.dir = "idle" /\ NewContext.at = 0 /\ NewContext.principal = NoToken
      /\ NewContext.ran = FALSE /\ NewContext.writer = Direct
  BY DEF NewContext
<1>3. Sound(NewContext)
  <2>1. Placed(NewContext)
    BY <1>2, RouteAssumption DEF Init, Placed, chain
  <2> QED BY <1>1, <1>2, <2>1 DEF Sound, Admitted
<1>4. Contexts
  <2>1. \A r \in Request : ctx[r] = NewContext
    BY DEF Init
  <2> HIDE DEF NewContext
  <2> QED BY <1>1, <1>3, <2>1 DEF Init, Contexts
<1>5. NewResponse \in Response
  BY DEF NewResponse, Response, Code, Header
<1>6. Connections
  <2>1. gw \in [Writer -> GzipWriter]
    BY DEF Init, GzipWriter
  <2>2. resp \in [Request -> Response]
    BY <1>5 DEF Init
  <2>3. \A r \in Request : ctx[r].writer = Direct
    BY <1>2 DEF Init
  <2> QED BY <2>1, <2>2, <2>3 DEF Init, Connections
<1> QED BY <1>4, <1>6 DEF WebInv

-----------------------------------------------------------------------------
LEMMA WebStepKeeps == ASSUME WebInv, NEW r \in Request, Step(r) PROVE WebInv'
<1>1. CASE Enter(r) \/ GzipEnter(r) \/ JWT(r) \/ KeyAuth(r)
  BY <1>1, EnterKeeps, GzipEnterKeeps, JWTKeeps, KeyAuthKeeps
<1>2. CASE SignVerify(r) \/ signatureValidate(r) \/ Csrf(r) \/ Authz(r)
  BY <1>2, SignVerifyKeeps, signatureValidateKeeps, CsrfKeeps, AuthzKeeps
<1>3. CASE Handler(r) \/ LogoutHandler(r)
  BY <1>3, HandlerKeeps, LogoutHandlerKeeps
<1>4. CASE GzipLeave(r) \/ ErrorHandleLeave(r) \/ HandleRecoverError(r)
  BY <1>4, GzipLeaveKeeps, ErrorHandleLeaveKeeps, HandleRecoverErrorKeeps
<1>5. CASE AccessLogLeave(r) \/ RecoveryLeave(r)
  BY <1>5, AccessLogLeaveKeeps, RecoveryLeaveKeeps
<1> QED BY <1>1, <1>2, <1>3, <1>4, <1>5 DEF Step

LEMMA WebInductive == WebInv /\ [Next]_vars => WebInv'
<1> SUFFICES ASSUME WebInv, [Next]_vars PROVE WebInv'
  OBVIOUS
<1>1. ASSUME NEW r \in Request, Start(r) PROVE WebInv'
  BY <1>1, StartKeeps
<1>2. ASSUME NEW r \in Request, Step(r) PROVE WebInv'
  BY <1>2, WebStepKeeps
<1>3. CASE UNCHANGED webVars
  BY <1>3, WebQuiet
<1> QED BY <1>1, <1>2, <1>3 DEF Next, Time, Expire, vars

(* The handler of a route is reached only past all its guards, and by no    *)
(* token that was logged out before the request began: what the middlewares *)
(* of web/handler are configured for, whatever their order and however the  *)
(* requests interleave.                                                     *)
THEOREM GuardsAdmit == Spec => []Admission
<1>1. WebInv => Admission
  <2> SUFFICES ASSUME WebInv PROVE Admission
    OBVIOUS
  <2>1. \A r \in Request : Admitted(ctx[r]) /\ ctx[r] \in Context
    BY DEF WebInv, Contexts, Sound
  <2>2. Guarded
    BY <2>1 DEF Guarded, Middlewares, Admitted, Cleared
  <2>3. LoggedOutStaysOut
    BY <2>1 DEF LoggedOutStaysOut, Admitted
  <2> QED BY <2>2, <2>3 DEF Admission
<1> QED BY <1>1, WebInitially, WebInductive, PTL DEF Spec

-----------------------------------------------------------------------------
(* Among all the other middlewares the requests treat their signatures as   *)
(* SignReplay says: every step checks one, stores one, lets one expire,     *)
(* passes time, or leaves them alone.                                       *)
LEMMA SignsAsPromised == [Next]_vars => [SignNext]_signVars
<1> SUFFICES ASSUME [Next]_vars PROVE [SignNext]_signVars
  OBVIOUS
<1>1. ASSUME NEW r \in Request, Start(r) PROVE UNCHANGED signVars
  BY <1>1 DEF Start
<1>2. ASSUME NEW r \in Request, Step(r) PROVE [SignNext]_signVars
  <2>1. CASE Enter(r) \/ GzipEnter(r) \/ JWT(r) \/ KeyAuth(r) \/ Csrf(r) \/ Authz(r)
    BY <2>1 DEF Enter, GzipEnter, JWT, KeyAuth, Csrf, Authz
  <2>2. CASE Handler(r) \/ LogoutHandler(r) \/ AccessLogLeave(r) \/ RecoveryLeave(r)
    BY <2>2 DEF Handler, LogoutHandler, AccessLogLeave, RecoveryLeave
  <2>3. CASE GzipLeave(r) \/ ErrorHandleLeave(r) \/ HandleRecoverError(r)
    BY <2>3 DEF GzipLeave, ErrorHandleLeave, HandleRecoverError
  <2>4. CASE SignVerify(r)
    <3>1. UNCHANGED signVars \/ \E s \in Sig : Check(r, s)
      BY <2>4 DEF SignVerify
    <3> QED BY <3>1 DEF SignNext
  <2>5. CASE signatureValidate(r)
    BY <2>5 DEF signatureValidate, SignNext
  <2> QED BY <1>2, <2>1, <2>2, <2>3, <2>4, <2>5 DEF Step
<1>3. CASE Time
  BY <1>3 DEF Time, SignNext
<1>4. CASE \E s \in Sig : Expire(s)
  BY <1>4 DEF Expire, SignNext
<1>5. CASE UNCHANGED vars
  BY <1>5 DEF vars
<1> QED BY <1>1, <1>2, <1>3, <1>4, <1>5 DEF Next

(* WebRequest implements SignReplay, so that the promise of the signer      *)
(* holds of the whole chain of middlewares.                                 *)
THEOREM WebImplementsSign == Spec => SignSpec
<1>1. Init => SignInit
  BY DEF Init
<1> QED BY <1>1, SignsAsPromised, PTL DEF Spec, SignSpec

(* No signature lets two requests through, whatever middlewares stand       *)
(* around the signer.                                                       *)
THEOREM WebNeverReplays == Spec => []NoReplay
BY WebImplementsSign, NeverReplayed, PTL

-----------------------------------------------------------------------------
(* The writers of gzip's pool, on routes that have gzip at most once and    *)
(* before errorHandle: outside of it, errorHandle would write with a writer *)
(* that was given back.                                                     *)
GzipFirst ==
    \A rt \in Routes : \A i, j \in DOMAIN rt.chain :
        rt.chain[i] = "gzip" /\ rt.chain[j] \in {"gzip", "errorHandle"} => i <= j

(* The request of k is inside gzip, with a writer of the pool.              *)
Inside(k) ==
    /\ k.writer # Direct /\ k.dir \in {"in", "out", "panic"}
    /\ \E i \in DOMAIN chain : chain[i] = "gzip" /\ (i < k.at \/ (i = k.at /\ k.dir # "in"))

(* A context has a writer of the pool only once it came to gzip.            *)
Wrapped(k) ==
    k.writer # Direct =>
        /\ \E i \in DOMAIN chain : chain[i] = "gzip"
        /\ k.dir \in {"idle", "in"} => \E i \in 1..(k.at - 1) : chain[i] = "gzip"

(* A request inside gzip has its writer for itself, out of the pool.        *)
Exclusive ==
    \A r \in Request : Inside(ctx[r]) =>
        ctx[r].writer \notin pool /\ gw[ctx[r].writer].target = r

PoolInv == (\A r \in Request : Wrapped(ctx[r])) /\ Exclusive /\ OwnBody

Own(rs) == \A q \in Request : \A i \in DOMAIN rs[q].body : rs[q].body[i].from = q

(* What is sent to a connection leaves the bodies alone, or adds to its own.*)
LEMMA StatusOwn ==
    ASSUME NEW rs \in [Request -> Response], NEW q \in Request, NEW code, Own(rs)
    PROVE  Own(Status(rs, q, code))
<1>1. \A p \in Request : Status(rs, q, code)[p].body = rs[p].body
  BY DEF Status, Response
<1> QED BY <1>1 DEF Own

LEMMA WriteHeaderNowOwn ==
    ASSUME NEW rs \in [Request -> Response], NEW q \in Request, Own(rs)
    PROVE  Own(WriteHeaderNow(rs, q))
<1>1. \A p \in Request : WriteHeaderNow(rs, q)[p].body = rs[p].body
  BY DEF WriteHeaderNow, Response
<1> QED BY <1>1 DEF Own

LEMMA EmitOwn ==
    ASSUME NEW rs \in [Request -> Response], NEW r \in Request, NEW chunk \in Chunk,
           chunk.from = r, Own(rs)
    PROVE  Own(Emit(rs, r, chunk))
<1>1. \A p \in Request : p # r => Emit(rs, r, chunk)[p] = rs[p]
  BY DEF Emit
<1>2. PICK b : b = rs[r].body
  OBVIOUS
<1>3. b \in Seq(Chunk) /\ \A i \in DOMAIN b : b[i].from = r
  BY <1>2 DEF Own, Response
<1>4. Emit(rs, r, chunk)[r].body = Append(b, chunk)
  BY <1>2 DEF Emit, Response
<1>5. \A i \in DOMAIN Append(b, chunk) : Append(b, chunk)[i].from = r
  <2> TAKE i \in DOMAIN Append(b, chunk)
  <2>1. CASE i = Len(b) + 1
    BY <1>3, <2>1, AppendProperties
  <2>2. CASE i # Len(b) + 1
    <3>1. i \in DOMAIN b /\ Append(b, chunk)[i] = b[i]
      BY <1>3, <2>2, AppendProperties
    <3> QED BY <1>3, <3>1
  <2> QED BY <2>1, <2>2
<1> QED BY <1>1, <1>4, <1>5 DEF Own

LEMMA WriteOwn ==
    ASSUME WebInv, NEW r \in Request, Target(r) = r, NEW rs \in [Request -> Response],
           NEW size \in {"small", "large"}, NEW chunk \in Chunk, chunk.from = r, Own(rs)
    PROVE  Own(Write(r, rs, size, chunk).rs)
<1> DEFINE w == ctx[r].writer
           zipped == [rs EXCEPT ![r].hdr = @ \cup {"gzip"}]
           opened == [rs EXCEPT ![r].hdr = @ \cup {"gzip"}, ![r].closed = FALSE]
<1>1. Own(Emit(rs, r, chunk))
  BY EmitOwn
<1>2. zipped \in [Request -> Response] /\ Own(zipped)
  <2>1. rs[r] \in Response /\ rs[r].hdr \cup {"gzip"} \in SUBSET Header
    BY DEF Response, Header
  <2>2. PICK new : new = [rs[r] EXCEPT !.hdr = rs[r].hdr \cup {"gzip"}]
    OBVIOUS
  <2>3. new \in Response /\ new.body = rs[r].body
    BY <2>1, <2>2 DEF Response
  <2>4. zipped = [rs EXCEPT ![r] = new]
    BY <2>2
  <2> HIDE DEF zipped
  <2> QED BY <2>3, <2>4 DEF Own
<1>3. opened \in [Request -> Response] /\ Own(opened)
  <2>1. PICK z : z = zipped
    OBVIOUS
  <2>2. opened = [z EXCEPT ![r] = [z[r] EXCEPT !.closed = FALSE]]
    BY <2>1
  <2>3. z \in [Request -> Response] /\ Own(z)
    BY <1>2, <2>1
  <2>4. PICK new : new = [z[r] EXCEPT !.closed = FALSE]
    OBVIOUS
  <2>5. new \in Response /\ new.body = z[r].body
    <3>1. z[r] \in Response
      BY <2>3
    <3> QED BY <2>4, <3>1 DEF Response
  <2> HIDE DEF opened
  <2> QED BY <2>2, <2>3, <2>4, <2>5 DEF Own
<1>4. PICK zip : zip = [chunk EXCEPT !.kind = "zip"]
  OBVIOUS
<1>5. zip \in Chunk /\ zip.from = r
  BY <1>4 DEF Chunk
<1> HIDE DEF zipped, opened
<1>6. Own(Emit(opened, r, zip))
  BY <1>3, <1>5, EmitOwn
<1>7. CASE w = Direct \/ size = "small"
  BY <1>1, <1>7 DEF Write
<1>8. CASE w # Direct /\ size # "small"
  <2>1. Write(r, rs, size, chunk).rs = IF gw[w].open THEN Emit(opened, r, zip) ELSE zipped
    BY <1>4, <1>8 DEF Write, opened, zipped
  <2> QED BY <1>2, <1>6, <2>1
<1> QED BY <1>7, <1>8

(* The writer of a request that writes is its own.                          *)
LEMMA OwnTarget ==
    ASSUME GzipFirst, WebInv, PoolInv, NEW r \in Request, ctx[r].dir \in {"in", "out", "panic"},
           \/ chain[ctx[r].at] \in {"handler", "errorHandle"}
           \/ chain[ctx[r].at] = "gzip" /\ ctx[r].dir # "in"
    PROVE  Target(r) = r
<1>1. CASE ctx[r].writer = Direct
  BY <1>1 DEF Target
<1>2. CASE ctx[r].writer # Direct
  <2>1. route \in Routes /\ ctx[r].at \in 1..Len(chain)
    BY UnderWay
  <2>2. DOMAIN chain = 1..Len(chain) /\ Len(chain) \in Nat
    BY <2>1, RouteAssumption DEF chain
  <2>3. PICK i \in DOMAIN chain : chain[i] = "gzip"
    BY <1>2 DEF PoolInv, Wrapped
  <2>4. i < ctx[r].at \/ (i = ctx[r].at /\ ctx[r].dir # "in")
    <3>1. CASE chain[ctx[r].at] = "handler"
      BY <2>1, <2>2, <2>3, <3>1, RouteAssumption DEF chain
    <3>2. CASE chain[ctx[r].at] = "errorHandle"
      BY <2>1, <2>2, <2>3, <3>2 DEF GzipFirst, chain
    <3>3. CASE chain[ctx[r].at] = "gzip" /\ ctx[r].dir # "in"
      BY <2>1, <2>2, <2>3, <3>3 DEF GzipFirst, chain
    <3> QED BY <3>1, <3>2, <3>3
  <2>5. Inside(ctx[r])
    BY <1>2, <2>3, <2>4 DEF Inside
  <2> QED BY <1>2, <2>5 DEF PoolInv, Exclusive, Target
<1> QED BY <1>1, <1>2

(* A step of r that neither takes a writer nor gives one back.              *)
LEMMA PoolStep ==
    ASSUME WebInv, PoolInv, NEW r \in Request, WebInv' /\ Moves(r),
           ctx[r].dir = "in" => chain[ctx[r].at] # "gzip",
           UNCHANGED <<route, pool>>, SameTargets(gw'), Own(resp')
    PROVE  PoolInv'
<1>1. ctx[r] \in Context /\ ctx \in [Request -> Context] /\ chain' = chain
  BY DEF WebInv, Contexts, chain
<1>2. PICK k, l : k = ctx[r] /\ l = ctx'[r]
  OBVIOUS
<1>3. Onward(k, l) /\ Wrapped(k) /\ k.at \in Nat /\ (k.dir = "in" => chain[k.at] # "gzip")
  BY <1>1, <1>2 DEF Moves, PoolInv, Context
<1>4. Wrapped(l)
  <2>1. CASE l = k
    BY <1>3, <2>1
  <2>2. CASE k.dir = "in" /\ l.dir = "in" /\ l.at = k.at + 1
    <3>1. 1..(k.at - 1) \subseteq 1..(l.at - 1)
      BY <1>3, <2>2
    <3> QED BY <1>3, <2>2, <3>1 DEF Wrapped, Onward
  <2>3. CASE l.dir \in {"out", "panic", "done"}
    BY <1>3, <2>3 DEF Wrapped, Onward
  <2> QED BY <1>3, <2>1, <2>2, <2>3 DEF Onward
<1>5. Inside(l) => Inside(k)
  <2> SUFFICES ASSUME Inside(l), l # k PROVE Inside(k)
    OBVIOUS
  <2>1. PICK i \in DOMAIN chain : chain[i] = "gzip" /\ (i < l.at \/ (i = l.at /\ l.dir # "in"))
    BY DEF Inside
  <2>2. i \in Int
    BY RouteAssumption DEF WebInv, Contexts, chain
  <2>3. CASE k.dir = "in" /\ l.dir = "in" /\ l.at = k.at + 1
    <3>1. i < k.at
      BY <1>3, <2>1, <2>2, <2>3
    <3> QED BY <1>3, <2>1, <2>3, <3>1 DEF Inside, Onward
  <2>4. CASE k.dir \in {"in", "out", "panic"} /\ l.dir \in {"out", "panic", "done"} /\ l.at < k.at
    <3>1. l.at \in Nat
      BY <1>2, <2>1 DEF WebInv, Contexts, Context
    <3> QED BY <1>3, <2>1, <2>2, <2>4, <3>1 DEF Inside, Onward
  <2> QED BY <1>3, <2>3, <2>4 DEF Onward
<1>6. ASSUME NEW q \in Request PROVE Wrapped(ctx[q])'
  <2>1. Wrapped(ctx'[q])
    BY <1>2, <1>4 DEF Moves, PoolInv
  <2> QED BY <1>1, <2>1 DEF Wrapped
<1>7. Exclusive'
  <2> SUFFICES ASSUME NEW q \in Request, Inside(ctx[q])'
               PROVE  ctx'[q].writer \notin pool' /\ gw'[ctx'[q].writer].target = q
    BY DEF Exclusive
  <2>1. Inside(ctx'[q])
    BY <1>1 DEF Inside
  <2>2. Inside(ctx[q]) /\ ctx'[q].writer = ctx[q].writer
    BY <1>2, <1>3, <1>5, <2>1 DEF Moves, Onward
  <2>3. ctx[q].writer \in Writer
    BY <1>1, <2>2 DEF Inside, Context
  <2> QED BY <2>2, <2>3 DEF PoolInv, Exclusive, SameTargets
<1> QED BY <1>6, <1>7 DEF PoolInv, OwnBody, Own

LEMMA AbortOwn ==
    ASSUME WebInv, PoolInv, NEW r \in Request, NEW k, NEW code \in Code, NEW errs,
           GinAbort(r, k, code, errs)
    PROVE  Own(resp')
<1>1. Target(r) \in Request /\ resp \in [Request -> Response] /\ Own(resp)
  BY TargetType DEF WebInv, Connections, PoolInv, OwnBody, Own
<1>2. PICK rs : rs = Status(resp, Target(r), code)
  OBVIOUS
<1>3. rs \in [Request -> Response] /\ Own(rs)
  BY <1>1, <1>2, StatusType, StatusOwn
<1>4. Own(WriteHeaderNow(rs, Target(r)))
  BY <1>1, <1>3, WriteHeaderNowOwn
<1> QED BY <1>2, <1>4 DEF GinAbort

(* The guards write no body.                                                *)
LEMMA GuardsPool ==
    ASSUME WebInv, PoolInv, NEW r \in Request,
           \/ JWT(r) \/ KeyAuth(r) \/ SignVerify(r) \/ signatureValidate(r) \/ Csrf(r)
           \/ Authz(r)
    PROVE  PoolInv'
<1>1. WebInv' /\ Moves(r)
  BY JWTKeeps, KeyAuthKeeps, SignVerifyKeeps, signatureValidateKeeps, CsrfKeeps, AuthzKeeps
<1>2. UNCHANGED <<route, gw, pool>> /\ chain[ctx[r].at] # "gzip"
  BY DEF JWT, KeyAuth, SignVerify, signatureValidate, Csrf, Authz, At
<1>3. UNCHANGED resp \/ \E code \in Code : \E errs : GinAbort(r, ctx[r], code, errs)
  <2>1. 401 \in Code /\ 403 \in Code
    BY DEF Code
  <2>2. CASE JWT(r)
    BY <2>1, <2>2, Zenon DEF JWT
  <2>3. CASE KeyAuth(r)
    BY <2>1, <2>3, Zenon DEF KeyAuth
  <2>4. CASE SignVerify(r) \/ signatureValidate(r)
    BY <2>1, <2>4, Zenon DEF SignVerify, signatureValidate
  <2>5. CASE Csrf(r) \/ Authz(r)
    BY <2>1, <2>5, Zenon DEF Csrf, Authz
  <2> QED BY <2>2, <2>3, <2>4, <2>5
<1>4. Own(resp')
  BY <1>3, AbortOwn DEF PoolInv, OwnBody, Own
<1>5. SameTargets(gw')
  BY <1>2 DEF SameTargets
<1> QED BY <1>1, <1>2, <1>4, <1>5, PoolStep

LEMMA OthersPool ==
    ASSUME WebInv, PoolInv, NEW r \in Request,
           \/ Enter(r) \/ LogoutHandler(r) \/ HandleRecoverError(r) \/ AccessLogLeave(r)
           \/ RecoveryLeave(r)
    PROVE  PoolInv'
<1>1. WebInv' /\ Moves(r)
  BY EnterKeeps, LogoutHandlerKeeps, HandleRecoverErrorKeeps, AccessLogLeaveKeeps,
     RecoveryLeaveKeeps
<1>2. UNCHANGED <<route, gw, pool>> /\ chain[ctx[r].at] # "gzip"
  BY DEF Enter, LogoutHandler, HandleRecoverError, AccessLogLeave, RecoveryLeave, At, Leaving
<1>3. UNCHANGED resp \/ resp' = Status(resp, Target(r), 500)
  BY DEF Enter, LogoutHandler, HandleRecoverError, AccessLogLeave, RecoveryLeave, AbortWithError
<1>4. Target(r) \in Request /\ resp \in [Request -> Response] /\ Own(resp)
  BY TargetType DEF WebInv, Connections, PoolInv, OwnBody, Own
<1>5. Own(resp')
  BY <1>3, <1>4, StatusOwn
<1>6. SameTargets(gw')
  BY <1>2 DEF SameTargets
<1> QED BY <1>1, <1>2, <1>5, <1>6, PoolStep

(* The handler and errorHandle write to their own request's connection.     *)
LEMMA HandlerPool ==
    ASSUME GzipFirst, WebInv, PoolInv, NEW r \in Request, Handler(r) PROVE PoolInv'
<1> DEFINE chunk == [from |-> r, kind |-> "plain", shows |-> {}]
           W(act) == IF act.size = "none" THEN [rs |-> resp, gw |-> gw, ok |-> TRUE]
                     ELSE Write(r, resp, act.size, chunk)
<1>1. WebInv' /\ Moves(r)
  BY HandlerKeeps
<1>2. /\ UNCHANGED <<route, pool>> /\ chain[ctx[r].at] = "handler" /\ ctx[r].dir = "in"
      /\ route \in Routes
  BY DEF Handler, At, WebInv, Contexts
<1>3. Target(r) = r
  BY <1>2, OwnTarget
<1>4. PICK act \in route.acts : resp' = W(act).rs /\ gw' = W(act).gw
  BY Zenon DEF Handler
<1>5. act.size \in {"none", "small", "large"}
  BY <1>2, RouteAssumption DEF Acts
<1>6. /\ chunk \in Chunk /\ chunk.from = r /\ resp \in [Request -> Response] /\ Own(resp)
  BY DEF Chunk, WebInv, Connections, PoolInv, OwnBody, Own
<1> HIDE DEF chunk
<1>7. Own(resp') /\ SameTargets(gw')
  <2>1. CASE act.size = "none"
    BY <1>4, <1>6, <2>1 DEF SameTargets
  <2>2. CASE act.size # "none"
    <3>1. /\ act.size \in {"small", "large"} /\ resp' = Write(r, resp, act.size, chunk).rs
          /\ gw' = Write(r, resp, act.size, chunk).gw
      BY <1>4, <1>5, <2>2
    <3>2. SameTargets(Write(r, resp, act.size, chunk).gw)
      BY <1>6, <3>1, WriteType
    <3>3. Own(Write(r, resp, act.size, chunk).rs)
      BY <1>3, <1>6, <3>1, WriteOwn
    <3> QED BY <3>1, <3>2, <3>3
  <2> QED BY <2>1, <2>2
<1> QED BY <1>1, <1>2, <1>7, PoolStep

LEMMA ErrorHandlePool ==
    ASSUME GzipFirst, WebInv, PoolInv, NEW r \in Request, ErrorHandleLeave(r) PROVE PoolInv'
<1>1. WebInv' /\ Moves(r)
  BY ErrorHandleLeaveKeeps
<1>2. UNCHANGED <<route, pool>> /\ chain[ctx[r].at] = "errorHandle" /\ ctx[r].dir = "out"
  BY DEF ErrorHandleLeave, Leaving
<1>3. Target(r) = r
  BY <1>2, OwnTarget
<1>4. resp \in [Request -> Response] /\ Own(resp) /\ ctx[r] \in Context
  BY DEF WebInv, Contexts, Connections, PoolInv, OwnBody, Own
<1>5. PICK parsed : parsed = DefaultErrorParser(ctx[r], resp[r].status)
  OBVIOUS
<1>6. parsed.code \in Code /\ parsed.shows \in SUBSET Shown
  <2>1. resp[r].status \in Code
    BY <1>4 DEF Response
  <2> QED BY <1>4, <1>5, <2>1, ParserType
<1>7. Own(resp') /\ SameTargets(gw')
  <2>1. CASE UNCHANGED <<resp, gw>>
    BY <1>4, <2>1 DEF SameTargets, Own
  <2>2. CASE ctx[r].errors # <<>>
    <3> DEFINE status == IF resp[r].sent \/ resp[r].status # 200 THEN resp[r].status
                         ELSE parsed.code
               chunk == [from |-> r, kind |-> "plain", shows |-> parsed.shows]
               rs == [Status(resp, r, status) EXCEPT ![r].hdr = @ \cup {"json"}]
    <3>1. status \in Code /\ chunk \in Chunk /\ chunk.from = r
      BY <1>4, <1>6 DEF Response, Chunk
    <3>2. rs \in [Request -> Response] /\ Own(rs)
      <4>1. PICK base : base = Status(resp, r, status)
        OBVIOUS
      <4>2. base \in [Request -> Response] /\ Own(base)
        BY <1>4, <3>1, <4>1, StatusType, StatusOwn
      <4>3. base[r] \in Response /\ base[r].hdr \cup {"json"} \in SUBSET Header
        BY <4>2 DEF Response, Header
      <4>4. PICK new : new = [base[r] EXCEPT !.hdr = base[r].hdr \cup {"json"}]
        OBVIOUS
      <4>5. new \in Response /\ new.body = base[r].body
        BY <4>3, <4>4 DEF Response
      <4>6. rs = [base EXCEPT ![r] = new]
        BY <4>1, <4>4
      <4> HIDE DEF rs
      <4> QED BY <4>2, <4>5, <4>6 DEF Own
    <3>3. NegotiateResponse(r, parsed.code, parsed.shows)
      BY <1>3, <1>5, <2>2 DEF ErrorHandleLeave
    <3>4. \/ \E size \in {"small", "large"} :
               resp' = Write(r, rs, size, chunk).rs /\ gw' = Write(r, rs, size, chunk).gw
          \/ UNCHANGED <<resp, gw>>
          \/ gw' = gw /\ GinAbort(r, ctx[r], 406, <<Private("format")>>)
      BY <1>3, <3>3 DEF NegotiateResponse
    <3> HIDE DEF status, chunk, rs
    <3>5. ASSUME NEW size \in {"small", "large"}, resp' = Write(r, rs, size, chunk).rs,
                 gw' = Write(r, rs, size, chunk).gw
          PROVE  Own(resp') /\ SameTargets(gw')
      <4>1. SameTargets(Write(r, rs, size, chunk).gw)
        BY <3>1, <3>2, WriteType
      <4>2. Own(Write(r, rs, size, chunk).rs)
        BY <1>3, <3>1, <3>2, WriteOwn
      <4> QED BY <3>5, <4>1, <4>2
    <3>6. CASE gw' = gw /\ GinAbort(r, ctx[r], 406, <<Private("format")>>)
      BY <3>6, AbortOwn DEF Code, SameTargets
    <3> QED BY <2>1, <3>4, <3>5, <3>6
  <2> QED BY <2>1, <2>2 DEF ErrorHandleLeave
<1> QED BY <1>1, <1>2, <1>7, PoolStep


LEMMA OneGzip ==
    ASSUME GzipFirst, route \in Routes, NEW i \in DOMAIN chain, NEW j \in DOMAIN chain,
           chain[i] = "gzip", chain[j] = "gzip"
    PROVE  i = j /\ i \in Nat
<1>1. DOMAIN chain = 1..Len(chain) /\ Len(chain) \in Nat
  BY RouteAssumption DEF chain
<1>2. i <= j /\ j <= i
  BY DEF GzipFirst, chain
<1> QED BY <1>1, <1>2

(* gzip takes a writer that no request is inside of gzip with.              *)
LEMMA GzipEnterPool ==
    ASSUME GzipFirst, WebInv, PoolInv, NEW r \in Request, GzipEnter(r) PROVE PoolInv'
<1>0. ctx[r].dir = "in" /\ chain[ctx[r].at] = "gzip"
  BY DEF GzipEnter, At
<1>1. /\ ctx[r].dir = "in" /\ chain[ctx[r].at] = "gzip" /\ route \in Routes
      /\ ctx[r] \in Context /\ ctx \in [Request -> Context] /\ ctx[r].at \in DOMAIN chain
      /\ ctx[r].at \in Nat
  <2>1. route \in Routes /\ ctx[r] \in Context /\ ctx[r].at \in 1..Len(chain)
    BY <1>0, UnderWay
  <2>2. ctx[r].at \in DOMAIN chain /\ ctx[r].at \in Nat
    BY <2>1, RouteAssumption DEF chain
  <2> QED BY <1>0, <2>1, <2>2 DEF WebInv, Contexts
<1>2. UNCHANGED <<route, resp>> /\ chain' = chain
  BY DEF GzipEnter, chain
<1>3. ctx[r].writer = Direct
  <2> SUFFICES ASSUME ctx[r].writer # Direct PROVE FALSE
    OBVIOUS
  <2>1. PICK i \in 1..(ctx[r].at - 1) : chain[i] = "gzip"
    BY <1>1 DEF PoolInv, Wrapped
  <2>2. i \in DOMAIN chain
    BY <1>1, <2>1, RouteAssumption DEF chain
  <2>3. i = ctx[r].at
    BY <1>1, <2>1, <2>2, OneGzip
  <2> QED BY <1>1, <2>1, <2>3
<1>4. CASE ctx' = [ctx EXCEPT ![r] = Forward(@)] /\ UNCHANGED <<gw, pool>>
  <2>1. \A q \in Request : q # r => ctx'[q] = ctx[q]
    BY <1>1, <1>4
  <2>2. ctx'[r] = Forward(ctx[r])
    BY <1>1, <1>4
  <2>3. ctx'[r].writer = Direct
    BY <1>1, <1>3, <2>2, ForwardContext DEF Same
  <2>4. \A q \in Request : Wrapped(ctx[q])'
    BY <1>2, <2>1, <2>3 DEF PoolInv, Wrapped
  <2>5. Exclusive'
    BY <1>2, <1>4, <2>1, <2>3 DEF PoolInv, Exclusive, Inside
  <2> QED BY <1>2, <2>4, <2>5 DEF PoolInv, OwnBody
<1>5. ASSUME NEW w \in Writer, w \in pool \/ \A q \in Request : ctx[q].writer # w,
             gw' = [gw EXCEPT ![w] = [@ EXCEPT !.target = r, !.open = TRUE]],
             pool' = pool \ {w},
             ctx' = [ctx EXCEPT ![r] = [Forward(@) EXCEPT !.writer = w]]
      PROVE  PoolInv'
  <2>1. PICK k : k = Forward(ctx[r])
    OBVIOUS
  <2>2. k \in Context /\ k.dir = "in" /\ k.at = ctx[r].at + 1
    BY <1>1, <2>1, ForwardContext
  <2>3. PICK l : l = [k EXCEPT !.writer = w]
    OBVIOUS
  <2>4. l.writer = w /\ l.dir = "in" /\ l.at = ctx[r].at + 1
    BY <2>2, <2>3 DEF Context
  <2>5. ctx'[r] = l /\ \A q \in Request : q # r => ctx'[q] = ctx[q]
    BY <1>1, <1>5, <2>1, <2>3
  <2>6. /\ gw'[w].target = r
        /\ \A v \in Writer \ {w} : gw'[v] = gw[v]
    BY <1>5 DEF WebInv, Connections, GzipWriter
  <2>7. Wrapped(l)
    <3>1. ctx[r].at \in 1..(l.at - 1)
      BY <1>1, <2>4, RouteAssumption DEF chain
    <3> QED BY <1>1, <2>4, <3>1 DEF Wrapped
  <2>8. ASSUME NEW q \in Request PROVE Wrapped(ctx[q])'
    <3>1. Wrapped(ctx'[q])
      BY <2>5, <2>7 DEF PoolInv
    <3> QED BY <1>2, <3>1 DEF Wrapped
  <2>9. Exclusive'
    <3> SUFFICES ASSUME NEW q \in Request, Inside(ctx[q])'
                 PROVE  ctx'[q].writer \notin pool' /\ gw'[ctx'[q].writer].target = q
      BY DEF Exclusive
    <3>1. CASE q = r
      BY <1>5, <2>4, <2>5, <2>6, <3>1
    <3>2. CASE q # r
      <4>1. Inside(ctx[q]) /\ ctx'[q] = ctx[q]
        BY <1>2, <2>5, <3>2 DEF Inside
      <4>2. ctx[q].writer \notin pool /\ gw[ctx[q].writer].target = q
        BY <4>1 DEF PoolInv, Exclusive
      <4>3. ctx[q].writer \in Writer \ {w}
        BY <1>1, <1>5, <4>1, <4>2 DEF Inside, Context
      <4> QED BY <1>5, <2>6, <4>1, <4>2, <4>3
    <3> QED BY <3>1, <3>2
  <2> QED BY <1>2, <2>8, <2>9 DEF PoolInv, OwnBody
<1> QED BY <1>4, <1>5 DEF GzipEnter

(* It is the request's own writer that gzip gives back.                     *)
LEMMA GzipLeavePool ==
    ASSUME GzipFirst, WebInv, PoolInv, NEW r \in Request, GzipLeave(r) PROVE PoolInv'
<1> DEFINE w == ctx[r].writer
           frame == [from |-> r, kind |-> "frame", shows |-> {}]
<1>1. /\ ctx[r].dir \in {"out", "panic"} /\ chain[ctx[r].at] = "gzip" /\ route \in Routes
      /\ ctx \in [Request -> Context] /\ ctx[r].at \in DOMAIN chain /\ ctx[r].at \in Nat
      /\ UNCHANGED route /\ chain' = chain
  BY UnderWay, RouteAssumption DEF GzipLeave, WebInv, Contexts, Context, chain
<1>2. WebInv' /\ Moves(r)
  BY GzipLeaveKeeps
<1>3. Target(r) = r
  BY <1>1, OwnTarget
<1>4. CASE w = Direct
  BY <1>1, <1>2, <1>4, PoolStep DEF GzipLeave, SameTargets, PoolInv, OwnBody, Own
<1>5. CASE w # Direct
  <2>1. /\ gw' = [gw EXCEPT ![w].open = FALSE] /\ pool' = pool \cup {w}
        /\ resp' \in {resp, Emit(resp, r, frame), [resp EXCEPT ![r].closed = TRUE]}
    BY <1>3, <1>5 DEF GzipLeave
  <2>2. /\ w \in Writer /\ gw \in [Writer -> GzipWriter] /\ resp \in [Request -> Response]
        /\ Own(resp) /\ gw[w].target = r
    BY <1>1, <1>3, <1>5 DEF WebInv, Connections, Context, PoolInv, OwnBody, Own, Target
  <2>3. Own(resp')
    <3>1. frame \in Chunk /\ frame.from = r
      BY DEF Chunk
    <3> HIDE DEF frame
    <3>2. Own(Emit(resp, r, frame))
      BY <2>2, <3>1, EmitOwn
    <3>3. Own([resp EXCEPT ![r].closed = TRUE])
      <4>1. \A q \in Request : [resp EXCEPT ![r].closed = TRUE][q].body = resp[q].body
        BY <2>2 DEF Response
      <4> QED BY <2>2, <4>1 DEF Own
    <3> QED BY <2>1, <2>2, <3>2, <3>3
  <2>4. \A v \in Writer : gw'[v].target = gw[v].target
    BY <2>1, <2>2 DEF GzipWriter
  <2>5. PICK l : l = ctx'[r]
    OBVIOUS
  <2>6. /\ l.writer = w /\ l.at \in Nat
        /\ l = ctx[r] \/ (l.dir \in {"out", "panic", "done"} /\ l.at < ctx[r].at)
    BY <1>1, <1>2, <2>5 DEF Moves, Onward, WebInv, Contexts, Context
  <2>7. l.dir \in {"out", "panic", "done"} /\ l.at < ctx[r].at
    <3>1. PICK k, dir : k = ctx[r] /\ dir = ctx[r].dir
      OBVIOUS
    <3>2. k \in Context /\ dir \in {"out", "panic"} /\ k.at \in 1..Len(chain)
      BY <1>1, <3>1, UnderWay
    <3>3. Out(k, dir).dir \in {"out", "panic", "done"} /\ Out(k, dir).at < k.at
      BY <1>1, <3>2, OutContext
    <3>4. l = Out(k, dir)
      BY <1>1, <2>5, <3>1 DEF GzipLeave
    <3> QED BY <3>1, <3>3, <3>4
  <2>8. ~Inside(l)
    <3> SUFFICES ASSUME Inside(l) PROVE FALSE
      OBVIOUS
    <3>1. PICK i \in DOMAIN chain : chain[i] = "gzip" /\ (i < l.at \/ i = l.at)
      BY DEF Inside
    <3>2. i = ctx[r].at
      BY <1>1, <3>1, OneGzip
    <3> QED BY <1>1, <2>6, <2>7, <3>1, <3>2
  <2>9. Wrapped(l)
    BY <1>1, <2>7 DEF Wrapped
  <2>10. ASSUME NEW q \in Request PROVE Wrapped(ctx[q])'
    <3>1. Wrapped(ctx'[q])
      BY <1>2, <2>5, <2>9 DEF PoolInv, Moves
    <3> QED BY <1>1, <3>1 DEF Wrapped
  <2>11. Exclusive'
    <3> SUFFICES ASSUME NEW q \in Request, Inside(ctx[q])'
                 PROVE  ctx'[q].writer \notin pool' /\ gw'[ctx'[q].writer].target = q
      BY DEF Exclusive
    <3>1. Inside(ctx'[q])
      BY <1>1 DEF Inside
    <3>2. q # r /\ ctx'[q] = ctx[q]
      BY <1>2, <2>5, <2>8, <3>1 DEF Moves
    <3>3. ctx[q].writer \notin pool /\ gw[ctx[q].writer].target = q
      BY <3>1, <3>2 DEF PoolInv, Exclusive
    <3>4. ctx[q].writer \in Writer
      BY <1>1, <3>1, <3>2 DEF Inside, Context
    <3> QED BY <2>1, <2>2, <2>4, <3>2, <3>3, <3>4
  <2> QED BY <2>3, <2>10, <2>11 DEF PoolInv, OwnBody, Own
<1> QED BY <1>4, <1>5

LEMMA StartPool == ASSUME WebInv, PoolInv, NEW r \in Request, Start(r) PROVE PoolInv'
<1>1. PICK x \in BOOLEAN :
        ctx' = [ctx EXCEPT ![r] =
                  [ctx[r] EXCEPT !.dir = "in", !.at = 1, !.excluded = x, !.live = tokens]]
  BY Zenon DEF Start
<1>2. /\ ctx \in [Request -> Context] /\ ctx[r] \in Context /\ ctx[r].dir = "idle"
      /\ ctx[r].at = 0 /\ UNCHANGED <<route, resp, gw, pool>> /\ chain' = chain
  BY DEF Start, WebInv, Contexts, Sound, Placed, chain
<1>3. ctx[r].writer = Direct
  BY <1>2 DEF PoolInv, Wrapped
<1>4. ctx'[r].writer = Direct /\ \A q \in Request : q # r => ctx'[q] = ctx[q]
  <2>1. PICK l : l = [ctx[r] EXCEPT !.dir = "in", !.at = 1, !.excluded = x, !.live = tokens]
    OBVIOUS
  <2>2. l.writer = Direct
    BY <1>2, <1>3, <2>1 DEF Context
  <2>3. ctx' = [ctx EXCEPT ![r] = l]
    BY <1>1, <2>1
  <2> QED BY <1>2, <2>2, <2>3
<1>5. \A q \in Request : Wrapped(ctx[q])'
  BY <1>2, <1>4 DEF PoolInv, Wrapped
<1>6. Exclusive'
  BY <1>2, <1>4 DEF PoolInv, Exclusive, Inside
<1> QED BY <1>2, <1>5, <1>6 DEF PoolInv, OwnBody

LEMMA PoolInductive == GzipFirst /\ WebInv /\ PoolInv /\ [Next]_vars => PoolInv'
<1> SUFFICES ASSUME GzipFirst, WebInv, PoolInv, [Next]_vars PROVE PoolInv'
  OBVIOUS
<1>1. ASSUME NEW r \in Request, Start(r) PROVE PoolInv'
  BY <1>1, StartPool
<1>2. ASSUME NEW r \in Request, Step(r) PROVE PoolInv'
  BY <1>2, GuardsPool, OthersPool, HandlerPool, ErrorHandlePool, GzipEnterPool, GzipLeavePool
  DEF Step
<1>3. CASE UNCHANGED webVars
  <2>1. UNCHANGED <<route, ctx, resp, gw, pool>> /\ chain' = chain
    BY <1>3 DEF webVars, chain
  <2> QED BY <2>1 DEF PoolInv, Wrapped, Exclusive, Inside, OwnBody
<1> QED BY <1>1, <1>2, <1>3 DEF Next, Time, Expire, vars

LEMMA PoolInitially == Init => PoolInv
<1> SUFFICES ASSUME Init PROVE PoolInv
  OBVIOUS
<1>1. \A r \in Request : ctx[r].writer = Direct /\ resp[r].body = <<>>
  BY DEF Init, NewContext, NewResponse
<1> QED BY <1>1 DEF PoolInv, Wrapped, Exclusive, Inside, OwnBody

(* Every connection is given the body of its own request only, however      *)
(* requests share the pooled writers of gzip, if gzip stands before         *)
(* errorHandle wherever a route has both.                                   *)
THEOREM BodiesAreOwn == ASSUME GzipFirst PROVE Spec => []OwnBody
<1>1. Init => WebInv /\ PoolInv
  BY WebInitially, PoolInitially
<1>2. WebInv /\ PoolInv /\ [Next]_vars => (WebInv /\ PoolInv)'
  BY WebInductive, PoolInductive
<1>3. WebInv /\ PoolInv => OwnBody
  BY DEF PoolInv
<1> QED BY <1>1, <1>2, <1>3, PTL DEF Spec

-----------------------------------------------------------------------------
(* What the variables hold: a request is somewhere in its chain or nowhere, *)
(* has a writer, and its connection has one of the statuses the middlewares *)
(* set.                                                                     *)
THEOREM WebTyped == Spec => []TypeOK
<1>1. Init => SignInv
  BY SignInitially DEF Init
<1>2. SignInv /\ [Next]_vars => SignInv'
  BY SignStep, SignsAsPromised
<1>3. WebInv /\ SignInv => TypeOK
  <2> SUFFICES ASSUME WebInv, SignInv PROVE TypeOK
    OBVIOUS
  <2>1. ASSUME NEW r \in Request
        PROVE  /\ ctx[r].dir \in {"idle", "in", "out", "panic", "done"}
               /\ ctx[r].at \in 0..Len(chain) /\ (ctx[r].at = 0 <=> ctx[r].dir \in {"idle", "done"})
               /\ ctx[r].writer \in Writer \cup {Direct}
    BY <2>1 DEF WebInv, Contexts, Sound, Placed, Context
  <2>2. ASSUME NEW r \in Request PROVE resp[r].status \in {200, 401, 403, 406, 500}
    BY <2>2 DEF WebInv, Connections, Response, Code
  <2> QED BY <2>1, <2>2 DEF TypeOK, WebInv, Contexts, Connections, SignInv
<1> QED BY <1>1, <1>2, <1>3, WebInitially, WebInductive, PTL DEF Spec
=============================================================================
