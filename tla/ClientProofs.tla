---------------------------- MODULE ClientProofs ----------------------------
(* Proofs about the two clients.  TokenSource: with a storage a request     *)
(* leaves with an expired token only if it took longer than the margin of   *)
(* its own check.  Polaris: a gRPC connection at rest knows the instances   *)
(* there are, calls are served from them also by a picker that has become   *)
(* stale, and Close leaves no watch behind.                                 *)
EXTENDS TokenSource, Polaris, TLAPS

-----------------------------------------------------------------------------
(* TokenSource.                                                             *)
TokenSpec == TokenInit /\ [][TokenNext]_tokenVars

LEMMA TokenInitially == TokenInit => TokenInv
BY TokenAssumption DEF TokenInit, TokenInv, TokenTypeOK, LookedAtValid

(* What the endpoint issues is a time.                                      *)
LEMMA IssuedType == ASSUME TokenTypeOK PROVE Issued \subseteq Nat
BY TokenAssumption DEF TokenTypeOK, Issued

(* A request moves on: to a place where it is about to store or to send a   *)
(* token only with one that was valid at the time it keeps.                 *)
LEMMA GotoKeeps ==
    ASSUME TokenInv, NEW c \in Caller,
           NEW where \in {"idle", "found", "base", "store", "put", "send", "failed"},
           NEW t \in Nat, NEW time \in Nat, Goto(c, where, t, time),
           UNCHANGED <<clock, source>>, held' \in Nat, cached' \in Nat,
           where = "put" \/ (source.storage /\ where = "send") => t = Forever \/ time + Delta <= t
    PROVE  TokenInv'
<1>1. TokenTypeOK'
  BY DEF TokenInv, TokenTypeOK, Goto
<1>2. LookedAtValid'
  <2> SUFFICES ASSUME NEW d \in Caller, at'[d] = "put" \/ (source.storage /\ at'[d] = "send")
               PROVE  token'[d] = Forever \/ since'[d] + Delta <= token'[d]
    BY DEF LookedAtValid
  <2>1. CASE d = c
    <3>1. at'[d] = where /\ token'[d] = t /\ since'[d] = time
      BY <2>1 DEF Goto, TokenInv, TokenTypeOK
    <3> QED BY <3>1
  <2>2. CASE d # c
    <3>1. at'[d] = at[d] /\ token'[d] = token[d] /\ since'[d] = since[d]
      BY <2>2 DEF Goto, TokenInv, TokenTypeOK
    <3> QED BY <3>1 DEF TokenInv, LookedAtValid
  <2> QED BY <2>1, <2>2
<1> QED BY <1>1, <1>2 DEF TokenInv

(* What Valid says of a token now.                                          *)
LEMMA ValidNow ==
    ASSUME TokenTypeOK, NEW t \in Nat, Valid(t)
    PROVE  t = Forever \/ clock + Delta <= t
BY TokenAssumption DEF Valid, TokenTypeOK

LEMMA TokenInductive == TokenInv /\ [TokenNext]_tokenVars => TokenInv'
<1> SUFFICES ASSUME TokenInv, [TokenNext]_tokenVars PROVE TokenInv'
  OBVIOUS
<1>0. clock \in Nat /\ held \in Nat /\ cached \in Nat
      /\ \A c \in Caller : token[c] \in Nat /\ since[c] \in Nat
  BY DEF TokenInv, TokenTypeOK
<1>1. ASSUME NEW c \in Caller, Token(c) PROVE TokenInv'
  BY <1>0, <1>1, GotoKeeps DEF Token, AskBase
<1>2. ASSUME NEW c \in Caller, TokenFound(c) PROVE TokenInv'
  <2>1. CASE Valid(token[c]) /\ Return(c, token[c])
    BY <1>0, <1>2, <2>1, ValidNow, GotoKeeps DEF TokenFound, Return, TokenInv
  <2>2. CASE AskBase(c)
    BY <1>0, <1>2, <2>2, GotoKeeps DEF TokenFound, AskBase
  <2> QED BY <1>2, <2>1, <2>2 DEF TokenFound
<1>3. ASSUME NEW c \in Caller, Exchange(c) PROVE TokenInv'
  <2>1. PICK t \in Issued : Goto(c, "store", t, 0)
    BY <1>3 DEF Exchange
  <2>2. t \in Nat
    BY IssuedType DEF TokenInv
  <2> QED BY <1>0, <1>3, <2>1, <2>2, GotoKeeps DEF Exchange
<1>4. ASSUME NEW c \in Caller, BaseToken(c) PROVE TokenInv'
  <2>1. PICK t \in IF source.grant = "client_credentials" /\ Valid(held) THEN {held} ELSE Issued \cup {0} :
          /\ held' = IF source.grant = "client_credentials" /\ t # 0 THEN t ELSE held
          /\ \/ t = 0 /\ Fail(c)
             \/ t # 0 /\ ~source.storage /\ Return(c, t)
             \/ t # 0 /\ source.storage /\ Goto(c, "store", t, 0)
    BY <1>4 DEF BaseToken
  <2>2. t \in Nat /\ held' \in Nat
    BY <1>0, <2>1, IssuedType DEF TokenInv
  <2>3. UNCHANGED <<clock, source, cached>>
    BY <1>4 DEF BaseToken
  <2>4. CASE Fail(c)
    BY <1>0, <2>2, <2>3, <2>4, GotoKeeps DEF Fail
  <2>5. CASE ~source.storage /\ Return(c, t)
    BY <1>0, <2>2, <2>3, <2>5, GotoKeeps DEF Return
  <2>6. CASE Goto(c, "store", t, 0)
    BY <1>0, <2>2, <2>3, <2>6, GotoKeeps
  <2> QED BY <2>1, <2>4, <2>5, <2>6
<1>5. ASSUME NEW c \in Caller, SetToken(c) PROVE TokenInv'
  <2>1. CASE Valid(token[c]) /\ Goto(c, "put", token[c], clock)
    BY <1>0, <1>5, <2>1, ValidNow, GotoKeeps DEF SetToken, TokenInv
  <2>2. CASE Fail(c)
    BY <1>0, <1>5, <2>2, GotoKeeps DEF SetToken, Fail
  <2> QED BY <1>5, <2>1, <2>2 DEF SetToken
<1>6. ASSUME NEW c \in Caller, CacheSet(c) PROVE TokenInv'
  <2>1. cached' \in Nat /\ UNCHANGED <<clock, source, held>>
    BY <1>0, <1>6 DEF CacheSet
  <2>2. CASE Goto(c, "send", token[c], since[c])
    <3>1. token[c] = Forever \/ since[c] + Delta <= token[c]
      BY <1>6 DEF CacheSet, TokenInv, LookedAtValid
    <3> QED BY <1>0, <2>1, <2>2, <3>1, GotoKeeps
  <2>3. CASE Fail(c)
    BY <1>0, <2>1, <2>3, GotoKeeps DEF Fail
  <2> QED BY <1>6, <2>2, <2>3 DEF CacheSet
<1>7. ASSUME NEW c \in Caller, RoundTrip(c) PROVE TokenInv'
  BY <1>0, <1>7, GotoKeeps DEF RoundTrip
<1>8. ASSUME Drop \/ TokenTick PROVE TokenInv'
  <2>1. TokenTypeOK'
    BY <1>8, TokenAssumption DEF Drop, TokenTick, TokenInv, TokenTypeOK
  <2>2. LookedAtValid'
    BY <1>8 DEF Drop, TokenTick, TokenInv, LookedAtValid
  <2> QED BY <2>1, <2>2 DEF TokenInv
<1>9. CASE UNCHANGED tokenVars
  BY <1>9 DEF tokenVars, TokenInv, TokenTypeOK, LookedAtValid
<1> QED BY <1>1, <1>2, <1>3, <1>4, <1>5, <1>6, <1>7, <1>8, <1>9 DEF TokenNext, CallerStep

(* Delta is the margin: what was valid when looked at has not expired for   *)
(* that long.                                                               *)
LEMMA SentAliveHolds == TokenInv => SentAlive
BY TokenAssumption DEF TokenInv, TokenTypeOK, LookedAtValid, SentAlive

(* With a storage, a request with an expired token took longer than Delta   *)
(* after its own check of the token, whatever the cache keeps and for how   *)
(* long, for any number of requests and any lifetimes (TokenSource.Token,   *)
(* SetToken).                                                               *)
THEOREM TokensStayAlive == TokenSpec => []TokensAlive
<1>1. TokenSpec => []TokenInv
  BY TokenInitially, TokenInductive, PTL DEF TokenSpec
<1>2. TokenInv => TokensAlive
  BY SentAliveHolds DEF TokenInv, TokensAlive
<1> QED BY <1>1, <1>2, PTL

-----------------------------------------------------------------------------
(* Polaris.                                                                 *)
(* Where the goroutine Watch and the listeners are, and which watches there *)
(* are at that.                                                             *)
Watches ==
    /\ closing = "no" => watchers = 1..made
    /\ \A p \in 1..MaxWatch : /\ pc[p] \in {"idle", "update", "apply"}
                              /\ pc[p] # "idle" => p <= made
    /\ pc[Watch] # "idle"
    /\ pc[Watch] \in {"update", "apply", "watch"} => made < MaxWatch
    /\ pc[Watch] = "watching" => made >= 1
    /\ closing = "no" /\ made = 0 /\ pc[Watch] = "select" => rn

(* Something will yet ask polaris for its instances.                        *)
AskPending == rn \/ notify # {} \/ \E q \in Goroutine : pc[q] = "update"

(* Unless excused, one answer at a time is under way.  The answer, and the  *)
(* response when there is none, is what polaris has, or polaris will be     *)
(* asked again; without any watch Watch has ended.                          *)
Answers ==
    ~excused =>
       /\ \A p, q \in Goroutine : pc[p] = "apply" /\ pc[q] = "apply" => p = q
       /\ closing = "no" =>
            /\ \A p \in Goroutine :
                  pc[p] = "apply" => got[p].addrs = Usable \/ AskPending
            /\ \/ response.addrs = Usable \/ AskPending
               \/ \E q \in Goroutine : pc[q] = "apply"
               \/ made = 0 /\ pc[Watch] = "stopped"

(* Without a second watch, the one watch there is, once kept, is the one    *)
(* that Close cancels.                                                      *)
OneWatch ==
    ~rewatched =>
       /\ closing = "no" => made <= 1 /\ (pc[Watch] # "watching" => last = made)
       /\ closing # "no" => watchers = {}

(* The picker is of the response and the connections the balancer knows of, *)
(* which are to addresses of the response, and the cluster has come with    *)
(* the first answer.                                                        *)
Balancer ==
    /\ picker = PickerBuild(response, known)
    /\ \A a \in Addr : /\ known[a] # "none" => a \in response.addrs
                       /\ known[a] = "none" <=> conn[a] = "none"
    /\ ClusterKept
    /\ \A p \in Goroutine : pc[p] = "apply" => got[p].cluster \/ response.cluster

(* A picker, published or loaded by a call, has an instance when it has a   *)
(* ready connection; a call that is not stale has the one in use; and the   *)
(* promise of PicksServe.                                                   *)
Calling ==
    /\ \A pk \in {picker, call.picker} :
          pk.instances \subseteq pk.ready /\ (pk.ready # {} => pk.instances # {})
    /\ call.at = "pick" /\ ~call.stale => call.picker = picker
    /\ PicksServe

PolarisInv == PolarisTypeOK /\ Watches /\ Answers /\ OneWatch /\ Balancer /\ Calling

-----------------------------------------------------------------------------
LEMMA Goroutines ==
    /\ Watch \in Goroutine /\ 1..MaxWatch \subseteq Goroutine /\ Watch \notin 1..MaxWatch
    /\ \A p \in Goroutine : p = Watch \/ p \in 1..MaxWatch
BY DEF Goroutine, Watch

LEMMA NoneMade == ASSUME NEW n \in Nat, 1..n = {} PROVE n = 0
<1> SUFFICES ASSUME n # 0 PROVE FALSE
  OBVIOUS
<1>1. 1 \in 1..n
  OBVIOUS
<1> QED BY <1>1

(* A picker built from a response and connections to addresses of it.       *)
LEMMA PickerType ==
    ASSUME NEW resp \in [addrs : SUBSET Addr, cluster : BOOLEAN], NEW conns
    PROVE  PickerBuild(resp, conns) \in Picker
BY DEF PickerBuild, Picker

LEMMA PickerBuilt ==
    ASSUME NEW resp \in [addrs : SUBSET Addr, cluster : BOOLEAN], NEW conns,
           \A a \in Addr : conns[a] # "none" => a \in resp.addrs
    PROVE  /\ PickerBuild(resp, conns).ready = {a \in resp.addrs : conns[a] = "ready"}
           /\ PickerBuild(resp, conns).instances = {a \in resp.addrs : conns[a] = "ready"}
BY DEF PickerBuild

(* Such a picker has an instance on every ready connection.                 *)
LEMMA PickerFits ==
    ASSUME NEW resp \in [addrs : SUBSET Addr, cluster : BOOLEAN], NEW conns,
           \A a \in Addr : conns[a] # "none" => a \in resp.addrs
    PROVE  /\ PickerBuild(resp, conns) \in Picker
           /\ PickerBuild(resp, conns).instances = PickerBuild(resp, conns).ready
<1>1. PickerBuild(resp, conns) \in Picker
  BY PickerType
<1>2. PickerBuild(resp, conns).instances = PickerBuild(resp, conns).ready
  BY PickerBuilt
<1> QED BY <1>1, <1>2

(* Steps that leave the balancer and the call alone.                        *)
LEMMA CallingKept == ASSUME Calling, UNCHANGED balancerVars PROVE Calling'
BY DEF Calling, PicksServe, Live, balancerVars

(* A new picker: the call that waits is woken, another one is stale.        *)
LEMMA PublishKeeps ==
    ASSUME Calling, PolarisTypeOK, NEW pk \in Picker, Publish(pk), pk.instances = pk.ready
    PROVE  Calling' /\ picker' \in Picker
           /\ call' \in [at : {"load", "pick", "wait", "sent", "refused", "empty"}, picker : Picker,
                         dst : SUBSET Addr, stale : BOOLEAN]
<1>1. /\ call'.at = IF call.at = "wait" THEN "load" ELSE call.at
      /\ call'.stale = (call.at \notin {"load", "wait"})
      /\ call'.picker = call.picker /\ call'.dst = call.dst
  BY DEF Publish, PolarisTypeOK
<1>2. call' \in [at : {"load", "pick", "wait", "sent", "refused", "empty"}, picker : Picker,
                 dst : SUBSET Addr, stale : BOOLEAN]
  BY DEF Publish, PolarisTypeOK
<1>3. Calling'
  <2>1. \A k \in {picker', call'.picker} : k.instances \subseteq k.ready /\ (k.ready # {} => k.instances # {})
    BY <1>1 DEF Publish, Calling
  <2>2. PicksServe'
    BY <1>1 DEF Calling, PicksServe
  <2> QED BY <1>1, <2>1, <2>2 DEF Calling
<1> QED BY <1>2, <1>3 DEF Publish

LEMMA PolarisInitially == PolarisInit => PolarisInv
<1> SUFFICES ASSUME PolarisInit PROVE PolarisInv
  OBVIOUS
<1>1. \A p \in Goroutine : pc[p] = IF p = Watch THEN "select" ELSE "idle"
  BY DEF PolarisInit
<1>2. PolarisTypeOK
  <2>1. NoInstances \in [addrs : SUBSET Addr, cluster : BOOLEAN]
    BY DEF NoInstances
  <2>2. /\ pc \in [Goroutine -> {"idle", "select", "update", "apply", "watch", "watching",
                                "stopped"}]
        /\ got \in [Goroutine -> [addrs : SUBSET Addr, cluster : BOOLEAN]]
    BY <2>1 DEF PolarisInit
  <2>3. /\ picker \in Picker
        /\ call \in [at : {"load", "pick", "wait", "sent", "refused", "empty"}, picker : Picker,
                     dst : SUBSET Addr, stale : BOOLEAN]
    BY DEF PolarisInit, NoPicker, Picker
  <2>4. /\ inst \in [Addr -> {"none", "up", "unusable"}]
        /\ {conn, known} \subseteq [Addr -> {"none", "connecting", "ready"}]
    BY DEF PolarisInit
  <2>5. /\ changes \in 0..MaxChanges /\ made \in 0..MaxWatch /\ last \in 0..made
        /\ watchers \subseteq 1..made /\ notify \subseteq watchers
    BY PolarisBounds DEF PolarisInit
  <2>6. /\ response = NoInstances /\ closing \in {"no", "cancelling", "closed"}
        /\ rn \in BOOLEAN /\ excused \in BOOLEAN /\ rewatched \in BOOLEAN
    BY DEF PolarisInit
  <2> QED BY <2>1, <2>2, <2>3, <2>4, <2>5, <2>6 DEF PolarisTypeOK
<1>3. Watches
  BY PolarisBounds, <1>1, Goroutines DEF PolarisInit, Watches
<1>4. Answers /\ OneWatch
  BY <1>1 DEF PolarisInit, Answers, AskPending, OneWatch
<1>5. Balancer
  BY <1>1 DEF PolarisInit, Balancer, ClusterKept, PickerBuild, NoInstances, NoPicker
<1>6. Calling
  BY DEF PolarisInit, Calling, PicksServe, NoPicker
<1> QED BY <1>2, <1>3, <1>4, <1>5, <1>6 DEF PolarisInv

LEMMA ChangeKeeps ==
    ASSUME PolarisInv, NEW a \in Addr, NEW state \in {"none", "up", "unusable"}, Change(a, state) PROVE PolarisInv'
<1> USE PolarisBounds, Goroutines DEF PolarisInv, balancerVars
<1>1. PolarisTypeOK'
  BY DEF Change, PolarisTypeOK
<1>2. Watches'
  BY DEF Change, PolarisTypeOK, Watches
<1>3. Answers'
  <2>1. CASE watchers # {}
    BY <2>1 DEF Change, Answers, AskPending
  <2>2. CASE watchers = {}
    <3>1. made = 0
      <4>1. made \in Nat
        BY DEF PolarisTypeOK
      <4>2. 1..made = {}
        BY <2>2 DEF Change, Watches
      <4> QED BY <4>1, <4>2, NoneMade
    <3>2. pc[Watch] \in {"select", "update", "apply", "watch", "stopped"}
      BY <3>1 DEF Watches, PolarisTypeOK
    <3>3. \A p \in 1..MaxWatch : pc[p] = "idle"
      BY <3>1 DEF Watches, PolarisTypeOK
    <3>4. CASE pc[Watch] \in {"apply", "watch"}
      BY <2>2, <3>4 DEF Change, Answers
    <3>5. CASE pc[Watch] \in {"select", "update", "stopped"}
      <4>1. \A p \in Goroutine : pc'[p] # "apply"
        BY <3>3, <3>5 DEF Change
      <4>2. AskPending' \/ (made' = 0 /\ pc'[Watch] = "stopped")
        BY <3>1, <3>5 DEF Change, AskPending, Watches
      <4> QED BY <4>1, <4>2 DEF Answers
    <3> QED BY <3>2, <3>4, <3>5
  <2> QED BY <2>1, <2>2
<1>4. OneWatch'
  BY DEF Change, PolarisTypeOK, Watches, OneWatch
<1>5. Balancer'
  BY DEF Change, PolarisTypeOK, Balancer, ClusterKept
<1>6. Calling'
  BY CallingKept DEF Change
<1> QED BY <1>1, <1>2, <1>3, <1>4, <1>5, <1>6

LEMMA ResolveNowKeeps ==
    ASSUME PolarisInv, ResolveNow PROVE PolarisInv'
<1> USE PolarisBounds, Goroutines DEF PolarisInv, balancerVars
<1>1. PolarisTypeOK'
  BY DEF ResolveNow, PolarisTypeOK
<1>2. Watches'
  BY DEF ResolveNow, PolarisTypeOK, Watches
<1>3. Answers'
  BY DEF ResolveNow, PolarisTypeOK, Watches, Answers, AskPending, Usable
<1>4. OneWatch'
  BY DEF ResolveNow, PolarisTypeOK, Watches, OneWatch
<1>5. Balancer'
  BY DEF ResolveNow, PolarisTypeOK, Balancer, ClusterKept
<1>6. Calling'
  BY CallingKept DEF ResolveNow
<1> QED BY <1>1, <1>2, <1>3, <1>4, <1>5, <1>6

LEMMA WatchSelectKeeps ==
    ASSUME PolarisInv, WatchSelect PROVE PolarisInv'
<1> USE PolarisBounds, Goroutines DEF PolarisInv, balancerVars
<1>1. PolarisTypeOK'
  BY DEF WatchSelect, PolarisTypeOK
<1>2. Watches'
  BY DEF WatchSelect, PolarisTypeOK, Watches
<1>3. Answers'
  BY DEF WatchSelect, PolarisTypeOK, Watches, Answers, AskPending, Usable
<1>4. OneWatch'
  BY DEF WatchSelect, PolarisTypeOK, Watches, OneWatch
<1>5. Balancer'
  BY DEF WatchSelect, PolarisTypeOK, Balancer, ClusterKept
<1>6. Calling'
  BY CallingKept DEF WatchSelect
<1> QED BY <1>1, <1>2, <1>3, <1>4, <1>5, <1>6

LEMMA OnInstancesUpdateKeeps ==
    ASSUME PolarisInv, NEW w \in 1..MaxWatch, OnInstancesUpdate(w) PROVE PolarisInv'
<1> USE PolarisBounds, Goroutines DEF PolarisInv, balancerVars
<1>1. PolarisTypeOK'
  BY DEF OnInstancesUpdate, PolarisTypeOK
<1>2. Watches'
  BY DEF OnInstancesUpdate, PolarisTypeOK, Watches
<1>3. Answers'
  BY DEF OnInstancesUpdate, PolarisTypeOK, Watches, Answers, AskPending, Usable
<1>4. OneWatch'
  BY DEF OnInstancesUpdate, PolarisTypeOK, Watches, OneWatch
<1>5. Balancer'
  BY DEF OnInstancesUpdate, PolarisTypeOK, Balancer, ClusterKept
<1>6. Calling'
  BY CallingKept DEF OnInstancesUpdate
<1> QED BY <1>1, <1>2, <1>3, <1>4, <1>5, <1>6

LEMMA GetInstancesKeeps ==
    ASSUME PolarisInv, NEW p \in Goroutine, GetInstances(p) PROVE PolarisInv'
<1> USE PolarisBounds, Goroutines DEF PolarisInv, balancerVars
<1>1. CASE /\ excused' /\ UNCHANGED got /\ pc' = [pc EXCEPT ![p] = After(p)]
  <2>1. PolarisTypeOK'
    BY <1>1 DEF GetInstances, After, PolarisTypeOK
  <2>2. Watches'
    BY <1>1 DEF GetInstances, After, PolarisTypeOK, Watches
  <2>3. OneWatch'
    BY <1>1 DEF GetInstances, After, PolarisTypeOK, OneWatch
  <2>4. Answers'
    BY <1>1 DEF Answers
  <2>5. Balancer'
    BY <1>1 DEF GetInstances, After, PolarisTypeOK, Balancer, ClusterKept
  <2>6. Calling'
    BY CallingKept DEF GetInstances
  <2> QED BY <2>1, <2>2, <2>3, <2>4, <2>5, <2>6
<1>2. ASSUME NEW cluster \in {TRUE, ~response.cluster},
             got' = [got EXCEPT ![p] = [addrs |-> Usable, cluster |-> cluster]],
             pc' = [pc EXCEPT ![p] = "apply"],
             excused' = (excused \/ \E q \in Goroutine : pc[q] = "apply")
      PROVE  PolarisInv'
  <2>1. /\ cluster \in BOOLEAN /\ (cluster \/ response.cluster)
        /\ [addrs |-> Usable, cluster |-> cluster] \in [addrs : SUBSET Addr, cluster : BOOLEAN]
    BY DEF PolarisTypeOK, Usable
  <2>2. /\ got'[p].addrs = Usable /\ got'[p].cluster = cluster /\ pc'[p] = "apply"
        /\ \A q \in Goroutine \ {p} : got'[q] = got[q] /\ pc'[q] = pc[q]
    BY <1>2 DEF PolarisTypeOK
  <2>3. /\ pc' \in [Goroutine -> {"idle", "select", "update", "apply", "watch", "watching",
                                 "stopped"}]
        /\ got' \in [Goroutine -> [addrs : SUBSET Addr, cluster : BOOLEAN]]
    BY <1>2, <2>1 DEF PolarisTypeOK
  <2>4. PolarisTypeOK'
    BY <1>2, <2>3 DEF GetInstances, PolarisTypeOK
  <2>5. Watches'
    BY <2>2 DEF GetInstances, Watches
  <2>6. OneWatch'
    BY <2>2 DEF GetInstances, OneWatch
  <2>7. Answers'
    <3>1. Usable' = Usable
      BY DEF GetInstances, Usable
    <3>2. ~excused' => \A q \in Goroutine : pc'[q] = "apply" => q = p
      BY <1>2, <2>2
    <3> QED BY <2>2, <3>1, <3>2 DEF Answers
  <2>8. Balancer'
    BY <2>1, <2>2 DEF GetInstances, Balancer, ClusterKept
  <2>9. Calling'
    BY CallingKept DEF GetInstances
  <2> QED BY <2>4, <2>5, <2>6, <2>7, <2>8, <2>9
<1> QED BY <1>1, <1>2 DEF GetInstances

LEMMA UpdateStateKeeps ==
    ASSUME PolarisInv, NEW p \in Goroutine, UpdateState(p) PROVE PolarisInv'
<1> USE PolarisBounds, Goroutines DEF PolarisInv, balancerVars
<1>1. /\ pc'[p] = After(p) /\ \A q \in Goroutine \ {p} : pc'[q] = pc[q] /\ got'[q] = got[q]
      /\ After(p) \in {"watch", "idle"}
  BY DEF UpdateState, PolarisTypeOK, After
<1>2. /\ pc' \in [Goroutine -> {"idle", "select", "update", "apply", "watch", "watching",
                               "stopped"}]
      /\ got' \in [Goroutine -> [addrs : SUBSET Addr, cluster : BOOLEAN]]
  <2>1. NoInstances \in [addrs : SUBSET Addr, cluster : BOOLEAN]
    BY DEF NoInstances
  <2> QED BY <1>1, <2>1 DEF UpdateState, PolarisTypeOK
<1>3. ASSUME closing = "no"
      PROVE  /\ response'.addrs = got[p].addrs /\ response'.cluster = TRUE
             /\ response' \in [addrs : SUBSET Addr, cluster : BOOLEAN]
             /\ {conn', known'} \subseteq [Addr -> {"none", "connecting", "ready"}]
             /\ \A a \in Addr : known'[a] # "none" => a \in response'.addrs
             /\ \A a \in Addr : known'[a] = "none" <=> conn'[a] = "none"
             /\ Publish(PickerBuild(response', known'))
  <2>1. got[p] \in [addrs : SUBSET Addr, cluster : BOOLEAN]
        /\ response \in [addrs : SUBSET Addr, cluster : BOOLEAN]
    BY DEF PolarisTypeOK
  <2>2. response' = [got[p] EXCEPT !.cluster = got[p].cluster \/ response.cluster]
    BY <1>3 DEF UpdateState, UpdateClientConnState
  <2>3. (got[p].cluster \/ response.cluster) = TRUE
    BY <2>1 DEF UpdateState, Balancer
  <2>4. response' = [got[p] EXCEPT !.cluster = TRUE]
    BY <2>2, <2>3
  <2>5. /\ response'.addrs = got[p].addrs /\ response'.cluster = TRUE
        /\ response' \in [addrs : SUBSET Addr, cluster : BOOLEAN]
    BY <2>1, <2>4
  <2>6. {conn', known'} \subseteq [Addr -> {"none", "connecting", "ready"}]
    BY <1>3 DEF UpdateState, UpdateClientConnState, PolarisTypeOK
  <2>7. /\ \A a \in Addr : known'[a] # "none" => a \in response'.addrs
        /\ \A a \in Addr : known'[a] = "none" <=> conn'[a] = "none"
    BY <1>3, <2>5 DEF UpdateState, UpdateClientConnState, Balancer
  <2>8. Publish(PickerBuild(response', known'))
    BY <1>3 DEF UpdateState, UpdateClientConnState
  <2> QED BY <2>5, <2>6, <2>7, <2>8
<1>4. closing # "no" => UNCHANGED balancerVars
  BY DEF UpdateState
<1>0. /\ Calling' /\ picker' \in Picker
      /\ call' \in [at : {"load", "pick", "wait", "sent", "refused", "empty"}, picker : Picker,
                    dst : SUBSET Addr, stale : BOOLEAN]
  <2>1. CASE closing = "no"
    <3>1. /\ PickerBuild(response', known') \in Picker
          /\ PickerBuild(response', known').instances = PickerBuild(response', known').ready
      <4>1. response' \in [addrs : SUBSET Addr, cluster : BOOLEAN]
        BY <1>3, <2>1
      <4>2. \A a \in Addr : known'[a] # "none" => a \in response'.addrs
        BY <1>3, <2>1
      <4> QED BY ONLY <4>1, <4>2, PickerFits
    <3> QED BY <1>3, <2>1, <3>1, PublishKeeps
  <2>2. CASE closing # "no"
    BY <1>4, <2>2, CallingKept DEF PolarisTypeOK
  <2> QED BY <2>1, <2>2
<1>5. PolarisTypeOK'
  <2>1. response' \in [addrs : SUBSET Addr, cluster : BOOLEAN]
        /\ {conn', known'} \subseteq [Addr -> {"none", "connecting", "ready"}]
    <3>1. CASE closing = "no"
      BY <1>3, <3>1
    <3>2. CASE closing # "no"
      BY <1>4, <3>2 DEF PolarisTypeOK
    <3> QED BY <3>1, <3>2
  <2>2. excused' \in BOOLEAN
    BY DEF UpdateState, PolarisTypeOK
  <2> QED BY <1>0, <1>2, <2>1, <2>2 DEF UpdateState, PolarisTypeOK
<1>6. Watches'
  BY <1>1 DEF UpdateState, Watches, After
<1>7. OneWatch'
  BY <1>1 DEF UpdateState, OneWatch
<1>8. Answers'
  <2> SUFFICES ASSUME ~excused' PROVE Answers'
    BY DEF Answers
  <2>1. Usable' = Usable
    BY DEF UpdateState, Usable
  <2>2. \A q \in Goroutine : pc'[q] # "apply"
    <3>1. CASE excused
      <4>1. Busy = {p}
        BY <3>1 DEF UpdateState
      <4> QED BY <1>1, <4>1 DEF Busy
    <3>2. CASE ~excused
      BY <1>1, <3>2 DEF UpdateState, Answers
    <3> QED BY <3>1, <3>2
  <2>3. closing = "no" => response'.addrs = Usable \/ AskPending
    <3>1. CASE excused
      BY <1>3, <3>1 DEF UpdateState
    <3>2. CASE ~excused
      BY <1>3, <3>2 DEF UpdateState, Answers
    <3> QED BY <3>1, <3>2
  <2>4. AskPending => AskPending'
    BY <1>1 DEF UpdateState, AskPending
  <2> QED BY <2>1, <2>2, <2>3, <2>4 DEF Answers, UpdateState
<1>9. Balancer'
  <2>1. \A q \in Goroutine : pc'[q] = "apply" => got'[q].cluster \/ response'.cluster
    BY <1>1, <1>3, <1>4 DEF Balancer
  <2> QED BY <1>3, <1>4, <2>1 DEF Balancer, ClusterKept, Publish
<1> QED BY <1>0, <1>5, <1>6, <1>7, <1>8, <1>9

LEMMA WatchAllInstancesKeeps ==
    ASSUME PolarisInv, WatchAllInstances PROVE PolarisInv'
<1> USE PolarisBounds, Goroutines DEF PolarisInv, balancerVars
<1>1. PolarisTypeOK'
  <2>1. CASE made' = made + 1 /\ watchers' = watchers \cup {made + 1}
    <3>1. made' \in 0..MaxWatch /\ last \in 0..made' /\ watchers' \subseteq 1..made'
      BY <2>1 DEF WatchAllInstances, Watches, PolarisTypeOK
    <3> QED BY <2>1, <3>1 DEF WatchAllInstances, PolarisTypeOK
  <2>2. CASE UNCHANGED <<made, watchers, rewatched>>
    BY <2>2 DEF WatchAllInstances, PolarisTypeOK
  <2> QED BY <2>1, <2>2 DEF WatchAllInstances
<1>2. Watches'
  <2>1. pc'[Watch] \in {"watching", "stopped"} /\ \A p \in 1..MaxWatch : pc'[p] = pc[p]
    BY DEF WatchAllInstances, PolarisTypeOK
  <2>2. CASE made' = made + 1 /\ watchers' = watchers \cup {made + 1}
    <3>1. closing = "no" => watchers' = 1..made'
      BY <2>2 DEF Watches, PolarisTypeOK
    <3> QED BY <2>1, <2>2, <3>1 DEF WatchAllInstances, Watches, PolarisTypeOK
  <2>3. CASE UNCHANGED <<made, watchers, rewatched>> /\ pc'[Watch] = "stopped"
    BY <2>1, <2>3 DEF WatchAllInstances, Watches
  <2> QED BY <2>2, <2>3 DEF WatchAllInstances, PolarisTypeOK
<1>3. Answers'
  BY DEF WatchAllInstances, PolarisTypeOK, Watches, Answers, AskPending, Usable
<1>4. OneWatch'
  <2>1. CASE /\ made' = made + 1 /\ pc'[Watch] = "watching"
             /\ rewatched' = (rewatched \/ watchers # {} \/ closing # "no")
    <3>1. ~rewatched' => made = 0 /\ closing = "no"
      <4> SUFFICES ASSUME ~rewatched' PROVE made = 0 /\ closing = "no"
        OBVIOUS
      <4>1. watchers = {} /\ closing = "no"
        BY <2>1
      <4>2. 1..made = {}
        BY <4>1 DEF Watches
      <4>3. made \in Nat
        BY DEF PolarisTypeOK
      <4> QED BY <4>1, <4>2, <4>3, NoneMade
    <3> QED BY <2>1, <3>1 DEF WatchAllInstances, OneWatch
  <2>2. CASE UNCHANGED <<made, watchers, rewatched>> /\ pc'[Watch] = "stopped"
    BY <2>2 DEF WatchAllInstances, OneWatch
  <2> QED BY <2>1, <2>2 DEF WatchAllInstances, PolarisTypeOK
<1>5. Balancer'
  BY DEF WatchAllInstances, PolarisTypeOK, Balancer, ClusterKept
<1>6. Calling'
  BY CallingKept DEF WatchAllInstances
<1> QED BY <1>1, <1>2, <1>3, <1>4, <1>5, <1>6

LEMMA KeepWatchKeeps ==
    ASSUME PolarisInv, KeepWatch PROVE PolarisInv'
<1> USE PolarisBounds, Goroutines DEF PolarisInv, balancerVars
<1>1. PolarisTypeOK'
  BY DEF KeepWatch, PolarisTypeOK
<1>2. Watches'
  BY DEF KeepWatch, PolarisTypeOK, Watches
<1>3. Answers'
  BY DEF KeepWatch, PolarisTypeOK, Watches, Answers, AskPending, Usable
<1>4. OneWatch'
  BY DEF KeepWatch, PolarisTypeOK, Watches, OneWatch
<1>5. Balancer'
  BY DEF KeepWatch, PolarisTypeOK, Balancer, ClusterKept
<1>6. Calling'
  BY CallingKept DEF KeepWatch
<1> QED BY <1>1, <1>2, <1>3, <1>4, <1>5, <1>6

LEMMA CancelWatchKeeps ==
    ASSUME PolarisInv, CancelWatch PROVE PolarisInv'
<1> USE PolarisBounds, Goroutines DEF PolarisInv, balancerVars
<1>1. PolarisTypeOK'
  BY DEF CancelWatch, PolarisTypeOK
<1>2. Watches'
  BY DEF CancelWatch, PolarisTypeOK, Watches
<1>3. Answers'
  BY DEF CancelWatch, PolarisTypeOK, Watches, Answers, AskPending, Usable
<1>4. OneWatch'
  <2> SUFFICES ASSUME ~rewatched' PROVE watchers' = {}
    BY DEF CancelWatch, OneWatch
  <2>1. made <= 1 /\ last = made /\ watchers = 1..made
    BY DEF CancelWatch, OneWatch, Watches
  <2>2. \A w \in watchers : w = last
    BY <2>1 DEF PolarisTypeOK
  <2> QED BY <2>2 DEF CancelWatch
<1>5. Balancer'
  BY DEF CancelWatch, PolarisTypeOK, Balancer, ClusterKept
<1>6. Calling'
  BY CallingKept DEF CancelWatch
<1> QED BY <1>1, <1>2, <1>3, <1>4, <1>5, <1>6

LEMMA CloseKeeps ==
    ASSUME PolarisInv, Close PROVE PolarisInv'
<1> USE PolarisBounds, Goroutines DEF PolarisInv, balancerVars
<1>1. PolarisTypeOK'
  BY DEF Close, PolarisTypeOK
<1>2. Watches'
  BY DEF Close, PolarisTypeOK, Watches
<1>3. Answers'
  BY DEF Close, PolarisTypeOK, Watches, Answers, AskPending, Usable
<1>4. OneWatch'
  BY DEF Close, PolarisTypeOK, Watches, OneWatch
<1>5. Balancer'
  BY DEF Close, PolarisTypeOK, Balancer, ClusterKept
<1>6. Calling'
  BY CallingKept DEF Close
<1> QED BY <1>1, <1>2, <1>3, <1>4, <1>5, <1>6

LEMMA ConnectedKeeps ==
    ASSUME PolarisInv, NEW a \in Addr, Connected(a) PROVE PolarisInv'
<1> USE PolarisBounds, Goroutines DEF PolarisInv, balancerVars
<1>1. PolarisTypeOK'
  BY DEF Connected, PolarisTypeOK
<1>2. Watches'
  BY DEF Connected, PolarisTypeOK, Watches
<1>3. Answers'
  BY DEF Connected, PolarisTypeOK, Watches, Answers, AskPending, Usable
<1>4. OneWatch'
  BY DEF Connected, PolarisTypeOK, Watches, OneWatch
<1>5. Balancer'
  BY DEF Connected, PolarisTypeOK, Balancer, ClusterKept
<1>6. Calling'
  <2>1. a \notin Live
    BY DEF Connected, Live
  <2>2. (\E b \in Live : conn[b] # "ready") => \E b \in Live : conn'[b] # "ready"
    BY <2>1 DEF Connected, PolarisTypeOK, Live
  <2>3. Live' = Live
    BY DEF Connected, Live
  <2> QED BY <2>2, <2>3 DEF Connected, Calling, PicksServe
<1> QED BY <1>1, <1>2, <1>3, <1>4, <1>5, <1>6

LEMMA LostKeeps ==
    ASSUME PolarisInv, NEW a \in Addr, Lost(a) PROVE PolarisInv'
<1> USE PolarisBounds, Goroutines DEF PolarisInv, balancerVars
<1>1. PolarisTypeOK'
  BY DEF Lost, PolarisTypeOK
<1>2. Watches'
  BY DEF Lost, PolarisTypeOK, Watches
<1>3. Answers'
  BY DEF Lost, PolarisTypeOK, Watches, Answers, AskPending, Usable
<1>4. OneWatch'
  BY DEF Lost, PolarisTypeOK, Watches, OneWatch
<1>5. Balancer'
  BY DEF Lost, PolarisTypeOK, Balancer, ClusterKept
<1>6. Calling'
  <2>1. (\E b \in Live : conn[b] # "ready") => \E b \in Live : conn'[b] # "ready"
    BY DEF Lost, PolarisTypeOK, Live
  <2>2. Live' = Live
    BY DEF Lost, Live
  <2> QED BY <2>1, <2>2 DEF Lost, Calling, PicksServe
<1> QED BY <1>1, <1>2, <1>3, <1>4, <1>5, <1>6

LEMMA UpdateSubConnStateKeeps ==
    ASSUME PolarisInv, NEW a \in Addr, UpdateSubConnState(a) PROVE PolarisInv'
<1> USE PolarisBounds, Goroutines DEF PolarisInv, balancerVars
<1>0. /\ Calling' /\ picker' = PickerBuild(response', known') /\ picker' \in Picker
      /\ \A b \in Addr : known'[b] # "none" => b \in response'.addrs
      /\ call' \in [at : {"load", "pick", "wait", "sent", "refused", "empty"}, picker : Picker,
                    dst : SUBSET Addr, stale : BOOLEAN]
  <2>1. response \in [addrs : SUBSET Addr, cluster : BOOLEAN]
    BY DEF PolarisTypeOK
  <2>2. \A b \in Addr : known'[b] # "none" => b \in response.addrs
    BY DEF UpdateSubConnState, PolarisTypeOK, Balancer
  <2>3. /\ PickerBuild(response, known') \in Picker
        /\ PickerBuild(response, known').instances = PickerBuild(response, known').ready
    BY ONLY <2>1, <2>2, PickerFits
  <2>4. Publish(PickerBuild(response, known')) /\ response' = response
    BY DEF UpdateSubConnState
  <2> QED BY <2>2, <2>3, <2>4, PublishKeeps DEF Publish
<1>1. PolarisTypeOK'
  <2>1. known' \in [Addr -> {"none", "connecting", "ready"}] /\ rn' \in BOOLEAN
    BY DEF UpdateSubConnState, PolarisTypeOK
  <2> QED BY <1>0, <2>1 DEF UpdateSubConnState, PolarisTypeOK
<1>2. Watches'
  BY DEF UpdateSubConnState, PolarisTypeOK, Watches
<1>3. Answers'
  BY DEF UpdateSubConnState, PolarisTypeOK, Watches, Answers, AskPending, Usable
<1>4. OneWatch'
  BY DEF UpdateSubConnState, PolarisTypeOK, Watches, OneWatch
<1>5. Balancer'
  BY <1>0 DEF UpdateSubConnState, PolarisTypeOK, Balancer, ClusterKept
<1>6. Calling'
  BY <1>0
<1> QED BY <1>1, <1>2, <1>3, <1>4, <1>5, <1>6

LEMMA LoadPickerKeeps ==
    ASSUME PolarisInv, LoadPicker PROVE PolarisInv'
<1> USE PolarisBounds, Goroutines DEF PolarisInv
<1>0. /\ call'.at = "pick" /\ call'.picker = picker /\ call'.stale = call.stale
      /\ call' \in [at : {"load", "pick", "wait", "sent", "refused", "empty"}, picker : Picker,
                    dst : SUBSET Addr, stale : BOOLEAN]
  BY DEF LoadPicker, PolarisTypeOK
<1>1. PolarisTypeOK'
  BY <1>0 DEF LoadPicker, PolarisTypeOK
<1>2. Watches' /\ Answers' /\ OneWatch' /\ Balancer'
  BY DEF LoadPicker, Watches, Answers, AskPending, Usable, OneWatch, Balancer, ClusterKept
<1>3. Calling'
  BY <1>0 DEF LoadPicker, Calling, PicksServe
<1> QED BY <1>1, <1>2, <1>3

(* What the picker a call has picks: with the picker in use the choice is   *)
(* live; a call blocks on it if nothing is, or if it met a lost connection. *)
LEMMA PickKeeps ==
    ASSUME PolarisInv, Pick PROVE PolarisInv'
<1> USE PolarisBounds, Goroutines DEF PolarisInv
<1>0. /\ UNCHANGED <<response, conn, known, picker>> /\ Live' = Live
      /\ call.picker \in Picker /\ call.dst \subseteq Addr /\ call.stale \in BOOLEAN
      /\ call.picker.instances \subseteq call.picker.ready
      /\ call.picker.ready # {} => call.picker.instances # {}
  BY DEF Pick, Live, PolarisTypeOK, Calling
<1>1. ~call.stale => call.picker.ready = Live /\ call.picker.instances = Live
  <2>1. /\ response \in [addrs : SUBSET Addr, cluster : BOOLEAN]
        /\ \A b \in Addr : known[b] # "none" => b \in response.addrs
        /\ picker = PickerBuild(response, known)
    BY DEF PolarisTypeOK, Balancer
  <2>2. picker.ready = Live /\ picker.instances = Live
    BY <2>1, PickerBuilt DEF Live
  <2> QED BY <2>2 DEF Pick, Calling
<1> DEFINE Good == /\ call' \in [at : {"load", "pick", "wait", "sent", "refused", "empty"},
                                 picker : Picker, dst : SUBSET Addr, stale : BOOLEAN]
                   /\ call'.picker = NoPicker /\ call'.at \notin {"pick", "empty"}
                   /\ PicksServe'
<1>2. NoPicker \in Picker /\ NoPicker.ready = {} /\ NoPicker.instances = {}
  BY DEF NoPicker, Picker
<1>3. ASSUME Block, ~call.stale => Live = {} \/ \E b \in Live : conn[b] # "ready" PROVE Good
  <2>1. /\ call'.at = IF call.stale THEN "load" ELSE "wait"
        /\ call'.picker = NoPicker /\ call'.dst = {} /\ call'.stale = FALSE
    BY <1>3 DEF Block
  <2>2. call' \in [at : {"load", "pick", "wait", "sent", "refused", "empty"},
                   picker : Picker, dst : SUBSET Addr, stale : BOOLEAN]
    BY <1>2, <1>3 DEF Block
  <2>3. PicksServe'
    BY <1>0, <1>3, <2>1 DEF PicksServe
  <2> QED BY <2>1, <2>2, <2>3
<1>4. ASSUME NEW where \in {"refused", "sent"}, NEW dst \in SUBSET Addr, Ends(where, dst),
             where = "sent" /\ ~call.stale => dst \subseteq Live
      PROVE  Good
  <2>1. /\ call'.at = where /\ call'.picker = NoPicker /\ call'.dst = dst
        /\ call'.stale = call.stale
        /\ call' \in [at : {"load", "pick", "wait", "sent", "refused", "empty"},
                      picker : Picker, dst : SUBSET Addr, stale : BOOLEAN]
    BY <1>2, <1>4 DEF Ends, PolarisTypeOK
  <2>2. PicksServe'
    BY <1>0, <1>4, <2>1 DEF PicksServe
  <2> QED BY <2>1, <2>2
<1>5. Good
  <2>1. CASE call.picker.ready = {} /\ Block
    BY <1>1, <1>3, <2>1
  <2>2. CASE call.picker.ready # {} /\ Ends(IF call.picker.instances = {} THEN "empty" ELSE "refused", {})
    BY <1>0, <1>4, <2>2
  <2>3. ASSUME NEW b \in call.picker.instances,
               IF b \in call.picker.ready /\ conn[b] = "ready" THEN Ends("sent", {b}) ELSE Block
        PROVE  Good
    <3>1. b \in Addr /\ b \in call.picker.ready /\ (~call.stale => b \in Live)
      BY <1>0, <1>1, <2>3 DEF Picker
    <3>2. CASE conn[b] = "ready"
      BY <1>4, <2>3, <3>1, <3>2
    <3>3. CASE conn[b] # "ready"
      BY <1>3, <2>3, <3>1, <3>3
    <3> QED BY <3>2, <3>3
  <2> QED BY <2>1, <2>2, <2>3 DEF Pick
<1>6. PolarisTypeOK'
  BY <1>5 DEF Pick, PolarisTypeOK
<1>7. Watches' /\ Answers' /\ OneWatch' /\ Balancer'
  BY DEF Pick, Watches, Answers, AskPending, Usable, OneWatch, Balancer, ClusterKept
<1>8. Calling'
  BY <1>0, <1>2, <1>5 DEF Calling
<1> QED BY <1>6, <1>7, <1>8

LEMMA StutterKeeps ==
    ASSUME PolarisInv, UNCHANGED polarisVars PROVE PolarisInv'
<1> USE PolarisBounds, Goroutines DEF PolarisInv, balancerVars
<1>1. PolarisTypeOK'
  BY DEF polarisVars, PolarisTypeOK
<1>2. Watches'
  BY DEF polarisVars, PolarisTypeOK, Watches
<1>3. Answers'
  BY DEF polarisVars, PolarisTypeOK, Watches, Answers, AskPending, Usable
<1>4. OneWatch'
  BY DEF polarisVars, PolarisTypeOK, Watches, OneWatch
<1>5. Balancer' /\ Calling'
  BY CallingKept DEF polarisVars, PolarisTypeOK, Balancer, ClusterKept
<1> QED BY <1>1, <1>2, <1>3, <1>4, <1>5

LEMMA PolarisInductive == PolarisInv /\ [PolarisNext]_polarisVars => PolarisInv'
<1> SUFFICES ASSUME PolarisInv, [PolarisNext]_polarisVars PROVE PolarisInv'
  OBVIOUS
<1>1. ASSUME NEW a \in Addr,
             \/ Register(a) \/ Unregister(a) \/ Degrade(a)
             \/ Connected(a) \/ Lost(a) \/ UpdateSubConnState(a)
      PROVE  PolarisInv'
  BY <1>1, ChangeKeeps, ConnectedKeeps, LostKeeps, UpdateSubConnStateKeeps
     DEF Register, Unregister, Degrade
<1>2. ASSUME Resolver PROVE PolarisInv'
  BY <1>2, WatchSelectKeeps, WatchAllInstancesKeeps, KeepWatchKeeps,
     OnInstancesUpdateKeeps, GetInstancesKeeps, UpdateStateKeeps DEF Resolver
<1> QED BY <1>1, <1>2, ResolveNowKeeps, CancelWatchKeeps, CloseKeeps, LoadPickerKeeps,
           PickKeeps, StutterKeeps DEF PolarisNext, Connection

LEMMA PolarisInvariant == PolarisSpec => []PolarisInv
BY PolarisInitially, PolarisInductive, PTL DEF PolarisSpec

(* A connection at rest knows what polaris has: with a watch live, no       *)
(* update under way and none pending, the balancer's response is the set of *)
(* usable instances, unless one of the races of onInstancesUpdate and Watch *)
(* (resolver.go) that the property names happened since.                    *)
THEOREM AtRestCurrent == PolarisSpec => []SettledIsCurrent
<1>1. PolarisInv => SettledIsCurrent
  <2> SUFFICES ASSUME PolarisInv, closing = "no", Busy = {}, notify = {}, watchers # {},
                      ~rn, ~excused
               PROVE  response.addrs = Usable
    BY DEF SettledIsCurrent
  <2>1. made # 0
    <3>1. PICK w \in watchers : w \in 1..made
      BY DEF PolarisInv, PolarisTypeOK
    <3> QED BY <3>1
  <2>2. \A q \in Goroutine : pc[q] \notin {"update", "apply"}
    BY DEF Busy
  <2> QED BY <2>1, <2>2 DEF PolarisInv, Answers, AskPending
<1> QED BY <1>1, PolarisInvariant, PTL

(* A call goes to a live instance unless a newer picker was published       *)
(* since it loaded its own, is refused by routing or load balancing only,   *)
(* and waits only while there is no live instance or the loss of one is     *)
(* about to be reported; the cluster is never lost (balancer.go).           *)
THEOREM PicksGoOut == PolarisSpec => []Picking
<1>1. PolarisInv => Picking
  BY DEF PolarisInv, Balancer, Calling, Picking
<1> QED BY <1>1, PolarisInvariant, PTL

(* Close of the resolver leaves no watch, however many requests to resolve  *)
(* there were, unless Watch made a second one or made its watch during or   *)
(* after Close, the cases rewatched records (resolver.go).                  *)
THEOREM CloseLeavesNoWatch == PolarisSpec => []NoWatchLeft
<1>1. PolarisInv => NoWatchLeft
  BY DEF PolarisInv, OneWatch, NoWatchLeft
<1> QED BY <1>1, PolarisInvariant, PTL
=============================================================================
