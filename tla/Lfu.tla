-------------------------------- MODULE Lfu --------------------------------
(* The TinyLFU local cache of pkg/cache/lfu as operators on a store, a      *)
(* function from the keys it holds to [val, exp].  The admission policy of  *)
(* tinylfu.T is external: a store never drops a key before it expires here, *)
(* SignReplay models the dropping.  Times are whole units.                  *)
EXTENDS Integers, FiniteSetsExt, TLC

MaxOffset == 10

(* Apply: the offset is kept only by a subsidiary cache, and dividing by a  *)
(* Deviation of zero panics.                                                *)
Applies(cfg) == cfg.subsidiary => cfg.deviation # 0
Offset(cfg) ==
    IF cfg.subsidiary THEN Min({cfg.ttl \div cfg.deviation, MaxOffset}) ELSE 0

(* rand.Int63n(n): a value below n; it panics when n is not positive.       *)
Int63n(n) == 0..(n - 1)

(* fixTTL: every ttl the call may return; none when it panics.              *)
fixTTL(cfg, ttl, skipRemote) ==
    LET capped == IF cfg.subsidiary /\ ~skipRemote /\ ttl > cfg.ttl THEN cfg.ttl ELSE ttl
        given  == IF capped <= 0 THEN cfg.ttl ELSE capped
        spread == IF given >= cfg.ttl THEN Offset(cfg) ELSE given \div cfg.deviation
    IN  IF Offset(cfg) > 0 THEN {given + j : j \in Int63n(spread)} ELSE {given}

Held(store, k, now) == k \in DOMAIN store /\ now <= store[k].exp

(* setValue: a ttl of zero never expires.                                   *)
Never == 2147483647
setValue(store, k, v, ttl, now) ==
    (k :> [val |-> v, exp |-> IF ttl = 0 THEN Never ELSE now + ttl]) @@ store

(* setOptions: the stores the call may leave and the error it returns.      *)
setOptions(cfg, store, k, v, opt, now) ==
    IF \/ opt.xx /\ ~Held(store, k, now)
       \/ ~opt.xx /\ opt.nx /\ Held(store, k, now)
    THEN {[store |-> store, err |-> TRUE]}
    ELSE {[store |-> setValue(store, k, v, t, now), err |-> FALSE] :
             t \in fixTTL(cfg, opt.ttl, opt.skipRemote)}

(* GetInner, and Get with the getter it may be given: what the caller reads *)
(* and the store it leaves; the options of SetNX and SetXX are not looked   *)
(* at when a value the getter made is stored.                               *)
LfuGet(cfg, store, k, getter, opt, now) ==
    IF Held(store, k, now) THEN {[store |-> store, val |-> store[k].val]}
    ELSE IF getter = "none" THEN {[store |-> store, val |-> "miss"]}
    ELSE IF getter = "fails" THEN {[store |-> store, val |-> "error"]}
    ELSE {[store |-> setValue(store, k, getter, t, now), val |-> getter] :
             t \in fixTTL(cfg, opt.ttl, opt.skipRemote)}

LfuDel(store, k) == [j \in DOMAIN store \ {k} |-> store[j]]
LfuClean == [j \in {} |-> 0]

(* The reference: a stored value is readable for its ttl, capped by that of *)
(* a subsidiary cache, and for no longer than the spread the offset allows; *)
(* meanwhile SetNX refuses the key.  The call panics for a ttl that is less *)
(* than Deviation and than the cache's own, in a cache that has an offset,  *)
(* and for no other.                                                        *)
KeptForTTL(cfg, ttl, v) ==
    LET opt  == [xx |-> FALSE, nx |-> TRUE, ttl |-> ttl, skipRemote |-> FALSE]
        base == IF ttl <= 0 \/ (cfg.subsidiary /\ ttl > cfg.ttl) THEN cfg.ttl ELSE ttl
        late == IF cfg.subsidiary THEN base \div cfg.deviation ELSE 0
    IN  Applies(cfg) =>
        /\ (setOptions(cfg, LfuClean, "k", v, opt, 0) = {}) <=>
             Offset(cfg) > 0 /\ base < cfg.ttl /\ base < cfg.deviation
        /\ \A s \in setOptions(cfg, LfuClean, "k", v, opt, 0) :
             /\ \A n \in 0..base : \A g \in LfuGet(cfg, s.store, "k", "other", opt, n) : g.val = v
             /\ ~Held(s.store, "k", base + late + 1)
             /\ \A t \in setOptions(cfg, s.store, "k", "other", opt, base) : t.err
             /\ LfuDel(s.store, "k") = LfuClean
=============================================================================
