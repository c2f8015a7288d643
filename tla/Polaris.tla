------------------------------ MODULE Polaris ------------------------------
(***************************************************************************)
(* contrib/polarismesh: a gRPC client connection that finds its servers    *)
(* through polaris.  The resolver asks for the instances of a service and  *)
(* watches them, the balancer keeps what the resolver found and builds a   *)
(* picker whenever it learns that a connection became ready or was lost; a *)
(* call uses the picker it loaded, which may be an older one by then.      *)
(*                                                                         *)
(* External: the polaris server with its SDK (the instances, their health, *)
(* the listeners of a watch) and gRPC (connections; the base balancer,     *)
(* which has a connection per address and rebuilds the picker; a call that *)
(* finds no connection waits for another picker; updates of a closed       *)
(* client connection are ignored).                                         *)
(***************************************************************************)
EXTENDS Integers, FiniteSets

CONSTANTS Addr,       \* the addresses servers register
          MaxChanges, \* bound of the changes of instances
          MaxWatch    \* bound of the watches, and so of resolutions

ASSUME PolarisBounds == MaxChanges \in Nat /\ MaxWatch \in Nat \ {0}

VARIABLES inst,      \* inst[a]: what polaris knows of a
          changes,   \* the changes so far
          notify,    \* the watches whose listener is to be called
          rn,        \* whether the channel rn is full
          pc,        \* pc[p]: where the goroutine p is
          got,       \* got[p]: the instances p fetched
          watchers,  \* the watches that were not cancelled
          made,      \* the watches made so far
          last,      \* watcherResp, 0 for nil
          closing,   \* how far Close is
          response,  \* the balancer's response
          conn,      \* conn[a]: the connection to a
          known,     \* known[a]: its state as the balancer was last told
          picker,    \* [ready, instances] of the picker
          call,      \* a call: its progress, the picker it loaded, where it
                     \* went, and whether another picker was published since
          excused,   \* an update failed, was overtaken or came before the watch
          rewatched  \* a watch was made while another one was live, or past Close

balancerVars == <<response, conn, known, picker, call>>
polarisVars == <<inst, changes, notify, rn, pc, got, watchers, made, last, closing,
                 balancerVars, excused, rewatched>>

Watch == 0                            \* the goroutine Watch
Goroutine == {Watch} \cup 1..MaxWatch  \* and the listener of each watch
NoInstances == [addrs |-> {}, cluster |-> FALSE]
NoPicker == [ready |-> {}, instances |-> {}]

(* Build of the resolver: Watch is started and ResolveNow called once.     *)
PolarisInit ==
    /\ inst \in [Addr -> {"none", "up"}]
    /\ changes = 0 /\ notify = {} /\ rn = TRUE
    /\ pc = [p \in Goroutine |-> IF p = Watch THEN "select" ELSE "idle"]
    /\ got = [p \in Goroutine |-> NoInstances]
    /\ watchers = {} /\ made = 0 /\ last = 0 /\ closing = "no"
    /\ response = NoInstances
    /\ conn = [a \in Addr |-> "none"] /\ known = conn
    /\ picker = NoPicker
    /\ call = [at |-> "load", picker |-> NoPicker, dst |-> {}, stale |-> FALSE]
    /\ excused = FALSE /\ rewatched = FALSE

Busy == {p \in Goroutine : pc[p] \in {"update", "apply"}}

-----------------------------------------------------------------------------
(* The service's side: Register and Unregister of a server, and polaris,   *)
(* which finds an instance unhealthy or isolates it: unusable.  Every live *)
(* watch is to be told.                                                    *)
Change(a, state) ==
    /\ changes < MaxChanges /\ closing = "no" /\ inst[a] # state
    /\ inst' = [inst EXCEPT ![a] = state]
    /\ changes' = changes + 1 /\ notify' = watchers
    /\ excused' = (excused \/ (watchers = {} /\ pc[Watch] \in {"apply", "watch"}))
    /\ UNCHANGED <<rn, pc, got, watchers, made, last, closing, balancerVars, rewatched>>
Register(a) == Change(a, "up")
Unregister(a) == Change(a, "none")
Degrade(a) == inst[a] = "up" /\ Change(a, "unusable")

-----------------------------------------------------------------------------
(* The resolver.                                                           *)

(* A second request is dropped while one waits in the channel.             *)
ResolveNow ==
    /\ closing = "no" /\ ~rn /\ made < MaxWatch
    /\ rn' = TRUE
    /\ UNCHANGED <<inst, changes, notify, pc, got, watchers, made, last, closing, balancerVars, excused, rewatched>>

\* Mutant: Watch does not look at the context.
MutantWatchSelect ==
    /\ pc[Watch] = "select" /\ rn /\ made < MaxWatch
    /\ rn' = FALSE /\ pc' = [pc EXCEPT ![Watch] = "update"]
    /\ UNCHANGED <<inst, changes, notify, got, watchers, made, last, closing, balancerVars, excused, rewatched>>

WatchSelect ==
    /\ pc[Watch] = "select"
    /\ \/ closing = "closed" /\ pc' = [pc EXCEPT ![Watch] = "stopped"] /\ UNCHANGED rn
       \/ rn /\ made < MaxWatch /\ rn' = FALSE /\ pc' = [pc EXCEPT ![Watch] = "update"]
    /\ UNCHANGED <<inst, changes, notify, got, watchers, made, last, closing, balancerVars, excused, rewatched>>

\* Mutant: an event is taken without asking for the instances.
MutantOnInstancesUpdate(w) ==
    /\ w \in notify \cap watchers /\ pc[w] = "idle"
    /\ notify' = notify \ {w}
    /\ UNCHANGED <<inst, changes, rn, pc, got, watchers, made, last, closing, balancerVars, excused, rewatched>>

(* The SDK calls the listener of a watch in a goroutine of its own.        *)
OnInstancesUpdate(w) ==
    /\ w \in notify \cap watchers /\ pc[w] = "idle"
    /\ notify' = notify \ {w}
    /\ pc' = [pc EXCEPT ![w] = "update"]
    /\ UNCHANGED <<inst, changes, rn, got, watchers, made, last, closing, balancerVars, excused, rewatched>>

(* onInstancesUpdate, up to GetInstances: unhealthy and isolated instances *)
(* are dropped; an error is reported and the update ends.  The cluster may *)
(* be missing, but not when the service is asked for the first time.       *)
Usable == {a \in Addr : inst[a] = "up"}
After(p) == IF p = Watch THEN "watch" ELSE "idle"
GetInstances(p) ==
    /\ pc[p] = "update"
    /\ \/ /\ \E cluster \in {TRUE, ~response.cluster} :
               got' = [got EXCEPT ![p] = [addrs |-> Usable, cluster |-> cluster]]
          /\ pc' = [pc EXCEPT ![p] = "apply"]
          /\ excused' = (excused \/ \E q \in Goroutine : pc[q] = "apply")
       \/ /\ pc' = [pc EXCEPT ![p] = After(p)] /\ excused' = TRUE /\ UNCHANGED got
    /\ UNCHANGED <<inst, changes, notify, rn, watchers, made, last, closing, balancerVars, rewatched>>

\* Mutant: the picker keeps instances without a ready connection.
MutantPickerBuild(resp, conns) ==
    [ready |-> {a \in Addr : conns[a] = "ready"}, instances |-> resp.addrs]

(* pickerBuilder.Build: the ready connections, and the instances of the    *)
(* response among them.                                                    *)
PickerBuild(resp, conns) ==
    LET ready == {a \in Addr : conns[a] = "ready"}
    IN  [ready |-> ready, instances |-> resp.addrs \cap ready]

(* A new picker wakes the call that waits, and is not the one that a call  *)
(* under way has loaded.                                                   *)
Publish(pk) ==
    /\ picker' = pk
    /\ call' = [call EXCEPT !.at = IF @ = "wait" THEN "load" ELSE @,
                            !.stale = call.at \notin {"load", "wait"}]

(* UpdateClientConnState: a response without cluster gets the one before;  *)
(* the base balancer then connects to new addresses and drops old ones.    *)
UpdateClientConnState(resp) ==
    LET keep(states) ==
          [a \in Addr |-> IF a \notin resp.addrs THEN "none"
                          ELSE IF states[a] = "none" THEN "connecting" ELSE states[a]]
    IN  /\ response' = [resp EXCEPT !.cluster = @ \/ response.cluster]
        /\ conn' = keep(conn) /\ known' = keep(known)
        /\ Publish(PickerBuild(response', known'))

(* onInstancesUpdate, its end: UpdateState of the connection.              *)
UpdateState(p) ==
    /\ pc[p] = "apply"
    /\ IF closing = "no" THEN UpdateClientConnState(got[p])
       ELSE UNCHANGED balancerVars
    /\ pc' = [pc EXCEPT ![p] = After(p)]
    /\ got' = [got EXCEPT ![p] = NoInstances]
    /\ excused' = (excused /\ ~(Busy = {p} /\ got[p].addrs = Usable))
    /\ UNCHANGED <<inst, changes, notify, rn, watchers, made, last, closing, rewatched>>

(* Watch after an update: a new watch every time; Watch ends on an error.  *)
WatchAllInstances ==
    /\ pc[Watch] = "watch"
    /\ \/ /\ made' = made + 1 /\ watchers' = watchers \cup {made + 1}
          /\ pc' = [pc EXCEPT ![Watch] = "watching"]
          /\ rewatched' = (rewatched \/ watchers # {} \/ closing # "no")
       \/ /\ pc' = [pc EXCEPT ![Watch] = "stopped"]
          /\ UNCHANGED <<made, watchers, rewatched>>
    /\ UNCHANGED <<inst, changes, notify, rn, got, last, closing, balancerVars, excused>>

\* Mutant: only the first watch is kept for Close.
MutantKeepWatch ==
    /\ pc[Watch] = "watching"
    /\ last' = made - 1
    /\ pc' = [pc EXCEPT ![Watch] = "select"]
    /\ UNCHANGED <<inst, changes, notify, rn, got, watchers, made, closing, balancerVars, excused, rewatched>>

KeepWatch ==
    /\ pc[Watch] = "watching"
    /\ last' = made
    /\ pc' = [pc EXCEPT ![Watch] = "select"]
    /\ UNCHANGED <<inst, changes, notify, rn, got, watchers, made, closing, balancerVars, excused, rewatched>>

(* Close: CancelWatch of the last watch kept, then the context.            *)
CancelWatch ==
    /\ closing = "no" /\ closing' = "cancelling"
    /\ watchers' = watchers \ {last} /\ notify' = notify \ {last}
    /\ rewatched' = (rewatched \/ pc[Watch] = "watching")
    /\ UNCHANGED <<inst, changes, rn, pc, got, made, last, balancerVars, excused>>
Close ==
    /\ closing = "cancelling" /\ closing' = "closed"
    /\ UNCHANGED <<inst, changes, notify, rn, pc, got, watchers, made, last, balancerVars, excused, rewatched>>

-----------------------------------------------------------------------------
(* gRPC: a connection becomes ready, or is lost; the balancer is told      *)
(* later, and asks for a lost connection, and to resolve, anew.            *)
Connected(a) ==
    /\ closing = "no" /\ conn[a] = "connecting" /\ known[a] = "connecting"
    /\ conn' = [conn EXCEPT ![a] = "ready"]
    /\ UNCHANGED <<inst, changes, notify, rn, pc, got, watchers, made, last, closing, response,
                   known, picker, call, excused, rewatched>>
Lost(a) ==
    /\ closing = "no" /\ conn[a] = "ready"
    /\ conn' = [conn EXCEPT ![a] = "connecting"]
    /\ UNCHANGED <<inst, changes, notify, rn, pc, got, watchers, made, last, closing, response,
                   known, picker, call, excused, rewatched>>
UpdateSubConnState(a) ==
    /\ closing = "no" /\ known[a] # conn[a]
    /\ known' = [known EXCEPT ![a] = conn[a]]
    /\ Publish(PickerBuild(response, known'))
    /\ rn' = (rn \/ (conn[a] # "ready" /\ made < MaxWatch))
    /\ UNCHANGED <<inst, changes, notify, pc, got, watchers, made, last, closing, response, conn,
                   excused, rewatched>>

(* A call, begun at any time, loads the picker and picks from it later.    *)
LoadPicker ==
    /\ closing = "no" /\ call.at = "load"
    /\ call' = [call EXCEPT !.at = "pick", !.picker = picker]
    /\ UNCHANGED <<inst, changes, notify, rn, pc, got, watchers, made, last, closing, response,
                   conn, known, picker, excused, rewatched>>

(* gRPC waits for another picker than the one the call has.                *)
Block ==
    call' = [at |-> IF call.stale THEN "load" ELSE "wait", picker |-> NoPicker,
             dst |-> {}, stale |-> FALSE]
Ends(at, dst) == call' = [call EXCEPT !.at = at, !.picker = NoPicker, !.dst = dst]

(* Pick.  The error picker, built without ready connections, makes the     *)
(* call wait.  ProcessRouters may fail, or leave any of the instances;     *)
(* ProcessLoadBalance may fail, and does if there is none, or takes one.   *)
(* ErrNoSubConnAvailable, and a connection that gRPC finds lost, make the  *)
(* call wait.                                                              *)
Pick ==
    /\ closing = "no" /\ call.at = "pick"
    /\ \/ call.picker.ready = {} /\ Block
       \/ /\ call.picker.ready # {}
          /\ Ends(IF call.picker.instances = {} THEN "empty" ELSE "refused", {})
       \/ /\ call.picker.ready # {}
          /\ \E a \in call.picker.instances :
               IF a \in call.picker.ready /\ conn[a] = "ready" THEN Ends("sent", {a})
               ELSE Block
    /\ UNCHANGED <<inst, changes, notify, rn, pc, got, watchers, made, last, closing, response,
                   conn, known, picker, excused, rewatched>>

Resolver ==
    \/ WatchSelect \/ WatchAllInstances \/ KeepWatch
    \/ \E w \in 1..MaxWatch : OnInstancesUpdate(w)
    \/ \E p \in Goroutine : GetInstances(p) \/ UpdateState(p)
Connection ==
    \/ \E a \in Addr : Register(a) \/ Unregister(a) \/ Degrade(a)
    \/ \E a \in Addr : Connected(a) \/ Lost(a) \/ UpdateSubConnState(a)
    \/ ResolveNow \/ Resolver \/ CancelWatch \/ Close
PolarisNext == Connection \/ LoadPicker \/ Pick

PolarisSpec == PolarisInit /\ [][PolarisNext]_polarisVars

-----------------------------------------------------------------------------
Picker == [ready : SUBSET Addr, instances : SUBSET Addr]
PolarisTypeOK ==
    /\ inst \in [Addr -> {"none", "up", "unusable"}]
    /\ changes \in 0..MaxChanges /\ made \in 0..MaxWatch /\ last \in 0..made
    /\ watchers \subseteq 1..made /\ notify \subseteq watchers
    /\ pc \in [Goroutine -> {"idle", "select", "update", "apply", "watch", "watching", "stopped"}]
    /\ got \in [Goroutine -> [addrs : SUBSET Addr, cluster : BOOLEAN]]
    /\ response \in [addrs : SUBSET Addr, cluster : BOOLEAN]
    /\ {conn, known} \subseteq [Addr -> {"none", "connecting", "ready"}]
    /\ picker \in Picker
    /\ call \in [at : {"load", "pick", "wait", "sent", "refused", "empty"}, picker : Picker,
                 dst : SUBSET Addr, stale : BOOLEAN]
    /\ closing \in {"no", "cancelling", "closed"}
    /\ rn \in BOOLEAN /\ excused \in BOOLEAN /\ rewatched \in BOOLEAN

(* When nothing is under way and a watch is live, the balancer knows the   *)
(* usable instances polaris has.  Three races are the exceptions: an older *)
(* answer applied after a newer one, a failed GetInstances, and a change   *)
(* between the first GetInstances and the watch.                           *)
SettledIsCurrent ==
    closing = "no" /\ Busy = {} /\ notify = {} /\ watchers # {} /\ ~rn /\ ~excused
        => response.addrs = Usable

(* Calls go out, although a picker can be an old one when it picks.  A     *)
(* call goes to an instance of the response whose connection the balancer  *)
(* takes for ready, unless a newer picker was published under it; none is  *)
(* lost because the picker had ready connections and no instance on them,  *)
(* so that only an error of routing or load balancing refuses one; and a   *)
(* call waits only while there is no such instance, or while gRPC is about *)
(* to tell the balancer that the connection of one is lost: no picker that *)
(* could serve it goes by unnoticed.                                       *)
Live == {a \in response.addrs : known[a] = "ready"}
PicksServe ==
    /\ call.at = "sent" /\ ~call.stale => call.dst \subseteq Live
    /\ call.at # "empty"
    /\ call.at = "wait" => Live = {} \/ \E a \in Live : conn[a] # "ready"

(* The balancer never loses the cluster its routing needs.                 *)
ClusterKept == response.addrs # {} => response.cluster

(* A closed resolver whose Watch has ended leaves no watch behind, unless  *)
(* it watched again before (Close cancels only the last watch it kept) or  *)
(* was closed while a watch was being made.                                *)
NoWatchLeft ==
    closing = "closed" /\ pc[Watch] = "stopped" /\ ~rewatched => watchers = {}

(* Close ends the goroutine Watch.                                         *)
WatchEnds == closing = "closed" ~> pc[Watch] = "stopped"

(* The picker serves from a balancer that knows its instances and cluster. *)
Picking == PolarisTypeOK /\ ClusterKept /\ PicksServe
=============================================================================
