----------------------------- MODULE GrpcServer -----------------------------
(***************************************************************************)
(* The life of an rpc/grpcx Server with a service registry:                *)
(* ListenAndServe, the registry goroutine it starts, the goroutines that   *)
(* goroutine starts at every TTL tick, and calls of Stop.                  *)
(*                                                                         *)
(* Every call of the registry driver is a step of its own, and may fail.   *)
(* The gRPC engine and the registry behind the driver are external.  The   *)
(* engine serves until stopped and refuses to serve after that; stopping   *)
(* it gracefully waits for the RPCs that are running.  The registry is the *)
(* set of services a client would find; one with a TTL drops an entry that *)
(* is not renewed, and as the server renews its entries with the TTL as    *)
(* the period, any of them may run out before its next renewal.            *)
(***************************************************************************)
EXTENDS FiniteSets

CONSTANTS Service,      \* the services an engine may have
          Stopper       \* the goroutines that call Stop, each once

VARIABLES
    infos,         \* s.ServiceInfos: the services registered on the engine
    registry,      \* s.registry: none, or one with or without a TTL
    graceful,      \* s.opts.gracefulStop
    start,         \* where ListenAndServe is
    startErr,      \* it returned an error
    todo,          \* services it still has to register, or to deregister
    registryDone,  \* s.registryDone
    keeper,        \* where the registry goroutine is
    keeperTodo,    \* services it still has to deregister
    refresh,       \* services whose TTL Register is under way
    stop,          \* stop[p]: where the call of Stop by p is
    engine,        \* the gRPC engine
    calls,         \* an RPC is running on the engine
    registered,    \* the services in the registry
    stuck,         \* history: services an Unregister call failed for
    late,          \* history: refreshes done after the goroutine left its loop
    early          \* history: a Stop found registryDone unset

config == <<infos, registry, graceful>>
startVars == <<start, startErr, todo, registryDone>>
keeperVars == <<keeper, keeperTodo>>
engineVars == <<engine, calls>>
vars == <<config, startVars, keeperVars, refresh, stop, engineVars,
          registered, stuck, late, early>>

(* The calls of Stop that hold mu for reading: from RLock to the return.   *)
Inside == {p \in Stopper : stop[p] \in {"send", "wait", "engine", "drain"}}

HasRegistry == registry # "none"

Init ==
    /\ infos \in SUBSET Service /\ registry \in {"none", "static", "ttl"}
    /\ graceful \in BOOLEAN
    /\ start = "listen" /\ startErr = FALSE /\ todo = {}
    /\ registryDone = FALSE
    /\ keeper = "none" /\ keeperTodo = {}
    /\ refresh = {}
    /\ stop = [p \in Stopper |-> "idle"]
    /\ engine = "new" /\ calls = FALSE
    /\ registered = {} /\ stuck = {} /\ late = {} /\ early = FALSE

-----------------------------------------------------------------------------
(* The registry driver.  A Register that fails may have reached the        *)
(* registry; an Unregister that fails has not.                             *)
Return(err) == start' = "returned" /\ startErr' = err

Unregister(s) ==
    \/ registered' = registered \ {s} /\ UNCHANGED stuck
    \/ UNCHANGED registered /\ stuck' = stuck \cup {s}

(* ListenAndServe, step by step.                                           *)

Listen ==
    /\ start = "listen"
    /\ \/ Return(TRUE) /\ UNCHANGED todo
       \/ /\ start' = IF HasRegistry THEN "register" ELSE "serve"
          /\ todo' = IF HasRegistry THEN infos ELSE {}
          /\ UNCHANGED startErr
    /\ UNCHANGED <<config, registryDone, keeperVars, refresh, stop, engineVars,
                   registered, stuck, late, early>>

RegisterOK(s) ==
    /\ start = "register" /\ s \in todo
    /\ registered' = registered \cup {s}
    /\ todo' = todo \ {s}
    /\ UNCHANGED <<config, start, startErr, registryDone, keeperVars, refresh,
                   stop, engineVars, stuck, late, early>>

(* One Register failed: all services are deregistered.                     *)
Undo(s) == todo' = infos

RegisterFails(s) ==
    /\ start = "register" /\ s \in todo
    /\ registered' \in {registered, registered \cup {s}}
    /\ start' = "undo" /\ Undo(s)
    /\ UNCHANGED <<config, startErr, registryDone, keeperVars, refresh, stop,
                   engineVars, stuck, late, early>>

UndoOne(s) ==
    /\ start = "undo" /\ s \in todo
    /\ Unregister(s)
    /\ todo' = todo \ {s}
    /\ UNCHANGED <<config, start, startErr, registryDone, keeperVars, refresh,
                   stop, engineVars, late, early>>

UndoDone ==
    /\ start = "undo" /\ todo = {}
    /\ Return(TRUE)
    /\ UNCHANGED <<config, todo, registryDone, keeperVars, refresh, stop,
                   engineVars, registered, stuck, late, early>>

(* registryDone is set under mu, and only if there are services.           *)
Mark ==
    /\ start = "register" /\ todo = {}
    /\ \/ infos = {} /\ UNCHANGED registryDone
       \/ infos # {} /\ Inside = {} /\ registryDone' = TRUE
    /\ start' = "spawn"
    /\ UNCHANGED <<config, startErr, todo, keeperVars, refresh, stop, engineVars,
                   registered, stuck, late, early>>

SpawnKeeper ==
    /\ start = "spawn"
    /\ keeper' = "loop" /\ start' = "serve"
    /\ UNCHANGED <<config, startErr, todo, registryDone, keeperTodo, refresh,
                   stop, engineVars, registered, stuck, late, early>>

(* engine.Serve: ErrServerStopped, for an engine that somebody has begun   *)
(* to stop, becomes nil.                                                   *)
Serve ==
    /\ start = "serve"
    /\ \/ engine \in {"stopping", "stopped"} /\ Return(FALSE) /\ UNCHANGED engine
       \/ /\ engine = "new" /\ engine' = "serving"
          /\ start' = "serving" /\ UNCHANGED startErr
    /\ UNCHANGED <<config, todo, registryDone, keeperVars, refresh, stop,
                   calls, registered, stuck, late, early>>

(* Serve returns with a listener's error, or when the engine is stopped,   *)
(* for which it waits once the stop has begun.                             *)
ServeReturns ==
    /\ start = "serving"
    /\ \/ engine = "stopped" /\ Return(FALSE)
       \/ engine = "serving" /\ Return(TRUE)
    /\ UNCHANGED <<config, todo, registryDone, keeperVars, refresh, stop,
                   engineVars, registered, stuck, late, early>>

-----------------------------------------------------------------------------
(* The RPCs of the clients: nothing makes one end.                         *)
CallBegins ==
    /\ engine = "serving" /\ ~calls /\ calls' = TRUE
    /\ UNCHANGED <<config, startVars, keeperVars, refresh, stop, engine,
                   registered, stuck, late, early>>

CallEnds ==
    /\ calls /\ calls' = FALSE
    /\ UNCHANGED <<config, startVars, keeperVars, refresh, stop, engine,
                   registered, stuck, late, early>>

-----------------------------------------------------------------------------
(* The registry goroutine.  At a tick it starts one goroutine per service  *)
(* and does not wait for them.  The variable of the loop is passed to each *)
(* as an argument, so every service gets one.                              *)
MutantTTLTick ==
    /\ keeper = "loop" /\ registry = "ttl"
    /\ refresh' = {s \in infos : s = CHOOSE last \in infos : TRUE}
    /\ UNCHANGED <<config, startVars, keeperVars, stop, engineVars, registered,
                   stuck, late, early>>

TTLTick ==
    /\ keeper = "loop" /\ registry = "ttl"
    /\ refresh' = infos
    /\ UNCHANGED <<config, startVars, keeperVars, stop, engineVars, registered,
                   stuck, late, early>>

Refresh(s) ==
    /\ s \in refresh
    /\ refresh' = refresh \ {s}
    /\ \/ /\ registered' = registered \cup {s}
          /\ late' = IF keeper = "loop" THEN late ELSE late \cup {s}
       \/ UNCHANGED <<registered, late>>
    /\ UNCHANGED <<config, startVars, keeperVars, stop, engineVars, stuck, early>>

(* The TTL of an entry runs out.                                           *)
Expire(s) ==
    /\ registry = "ttl" /\ s \in registered
    /\ registered' = registered \ {s}
    /\ UNCHANGED <<config, startVars, keeperVars, refresh, stop, engineVars,
                   stuck, late, early>>

(* s.exit is unbuffered: the goroutine takes the channel of one Stop.      *)
TakeExit(p) ==
    /\ keeper = "loop" /\ stop[p] = "send"
    /\ keeper' = "deregister" /\ keeperTodo' = infos
    /\ stop' = [stop EXCEPT ![p] = "wait"]
    /\ UNCHANGED <<config, startVars, refresh, engineVars, registered, stuck,
                   late, early>>

Deregister(s) ==
    /\ keeper = "deregister" /\ s \in keeperTodo
    /\ Unregister(s)
    /\ keeperTodo' = keeperTodo \ {s}
    /\ UNCHANGED <<config, startVars, keeper, refresh, stop, engineVars, late,
                   early>>

MutantReply(p) ==
    /\ keeper = "deregister" /\ stop[p] = "wait"
    /\ keeper' = "gone" /\ stop' = [stop EXCEPT ![p] = "engine"]
    /\ UNCHANGED <<config, startVars, keeperTodo, refresh, engineVars, registered,
                   stuck, late, early>>

Reply(p) ==
    /\ keeper = "deregister" /\ keeperTodo = {} /\ stop[p] = "wait"
    /\ keeper' = "gone" /\ stop' = [stop EXCEPT ![p] = "engine"]
    /\ UNCHANGED <<config, startVars, keeperTodo, refresh, engineVars, registered,
                   stuck, late, early>>

-----------------------------------------------------------------------------
(* Stop: RLock and the test of registryDone, then the handshake with the   *)
(* registry goroutine, then the engine.                                    *)
MutantStopCall(p) ==
    /\ stop[p] = "idle"
    /\ stop' = [stop EXCEPT ![p] = IF HasRegistry THEN "send" ELSE "engine"]
    /\ UNCHANGED early
    /\ UNCHANGED <<config, startVars, keeperVars, refresh, engineVars, registered,
                   stuck, late>>

StopCall(p) ==
    /\ stop[p] = "idle"
    /\ LET handshake == HasRegistry /\ registryDone IN
       /\ stop' = [stop EXCEPT ![p] = IF handshake THEN "send" ELSE "engine"]
       /\ early' = (early \/ (HasRegistry /\ ~registryDone))
    /\ UNCHANGED <<config, startVars, keeperVars, refresh, engineVars, registered,
                   stuck, late>>

(* engine.Stop or GracefulStop: the engine takes no more RPCs, and when it *)
(* is graceful the call waits for those that run, whatever the context of  *)
(* Stop says; then the deferred RUnlock.                                   *)
StopEngine(p) ==
    /\ stop[p] = "engine"
    /\ engine' = IF engine = "stopped" THEN "stopped" ELSE "stopping"
    /\ stop' = [stop EXCEPT ![p] = "drain"]
    /\ UNCHANGED <<config, startVars, keeperVars, refresh, calls, registered,
                   stuck, late, early>>

EngineStopped(p) ==
    /\ stop[p] = "drain" /\ (graceful => ~calls)
    /\ engine' = "stopped" /\ calls' = FALSE
    /\ stop' = [stop EXCEPT ![p] = "returned"]
    /\ UNCHANGED <<config, startVars, keeperVars, refresh, registered, stuck,
                   late, early>>

-----------------------------------------------------------------------------
StartStep ==
    \/ Listen \/ UndoDone \/ Mark \/ SpawnKeeper \/ Serve
    \/ \E s \in Service : RegisterOK(s) \/ RegisterFails(s) \/ UndoOne(s)

KeeperStep ==
    \/ \E p \in Stopper : TakeExit(p) \/ Reply(p)
    \/ \E s \in Service : Deregister(s)

StopStep(p) == StopEngine(p) \/ EngineStopped(p)

Environment == CallBegins \/ CallEnds \/ \E s \in Service : Expire(s)

Next ==
    \/ StartStep
    \/ ServeReturns
    \/ KeeperStep
    \/ TTLTick
    \/ Environment
    \/ \E s \in Service : Refresh(s)
    \/ \E p \in Stopper : StopCall(p) \/ StopStep(p)

Spec == Init /\ [][Next]_vars

-----------------------------------------------------------------------------
(* Every variable within its states; whatever is registered, refreshed or  *)
(* deregistered is a service of this server's engine.                      *)
TypeOK ==
    /\ start \in {"listen", "register", "undo", "spawn", "serve", "serving",
                  "returned"}
    /\ infos \subseteq Service /\ registry \in {"none", "static", "ttl"}
    /\ graceful \in BOOLEAN /\ calls \in BOOLEAN
    /\ startErr \in BOOLEAN /\ registryDone \in BOOLEAN /\ early \in BOOLEAN
    /\ keeper \in {"none", "loop", "deregister", "gone"}
    /\ {todo, keeperTodo, refresh, registered, stuck, late}
          \subseteq SUBSET infos
    /\ stop \in [Stopper -> {"idle", "send", "wait", "engine", "drain",
                            "returned"}]
    /\ engine \in {"new", "serving", "stopping", "stopped"}

Stopped == \E p \in Stopper : stop[p] = "returned"

(* "deregister all services if one fails" (server.go:163): a start that    *)
(* fails to register leaves no service behind, also not the one whose      *)
(* Register failed after it reached the registry, unless Unregister fails. *)
FailedStartCleans ==
    start = "returned" /\ keeper = "none" => registered \subseteq stuck

(* As long as the server serves and nobody stops it, a client of a         *)
(* registry without a TTL finds all its services.                          *)
ServingIsRegistered ==
    start = "serving" /\ keeper = "loop" /\ registry = "static" =>
        registered = infos

(* Once ListenAndServe and a Stop have returned, a service can still be    *)
(* found only if its Unregister failed, if a TTL refresh was under way     *)
(* when the registry goroutine was told to exit, or if Stop ran before     *)
(* registryDone was set: the three ways the code leaves one behind.        *)
LeftBehind ==
    start = "returned" /\ Stopped =>
        registered \subseteq stuck \cup late \/ early

(* The registry goroutine outlives the server only in that last case.      *)
KeeperLeak ==
    start = "returned" /\ Stopped => keeper \in {"none", "gone"} \/ early

(* A running RPC keeps a graceful stop waiting for as long as it runs.     *)
CallsEnd == []<>(graceful => ~calls)

(* Whenever Stop is called, a call of Stop returns once no RPC holds up a  *)
(* graceful one.  Another one may not: registryDone is never reset, and a  *)
(* second handshake would be with a goroutine that is gone.                *)
StopReturns == CallsEnd => ((\E p \in Stopper : stop[p] # "idle") ~> Stopped)

(* Start returns once the server has been stopped, also when Stop overtook *)
(* it before Serve.                                                        *)
StartReturns == Stopped ~> start = "returned"

(* With a TTL an entry of a running server may run out, between two ticks  *)
(* or because its refreshes fail; it comes back while the registry         *)
(* goroutine ticks.  After a Stop that was not too early nothing renews an *)
(* entry any more, so that also the ones left behind run out.              *)
ComesBack ==
    \A s \in Service :
        s \in infos /\ keeper = "loop" ~> s \in registered \/ keeper # "loop"
LeftoversRunOut ==
    registry = "ttl" /\ Stopped /\ ~early ~> [](registered = {})
RegistryConverges == ComesBack /\ LeftoversRunOut

(* The registry follows the server: a registry without a TTL is complete   *)
(* while it serves, and any registry is empty after a failed start or a    *)
(* Stop, and without the goroutine that keeps it, except in the ways named *)
(* above.                                                                  *)
RegistrySound ==
    TypeOK /\ FailedStartCleans /\ ServingIsRegistered /\ LeftBehind /\ KeeperLeak

(* Stop and Start return once the server is told to stop and the RPCs that *)
(* a graceful stop waits for have ended.                                   *)
CallsReturn == StopReturns /\ StartReturns
=============================================================================
