----------------------------- MODULE GrpcProofs -----------------------------
(* Proofs about GrpcServer and GrpcRun, for every set of services and of    *)
(* goroutines that call Stop: the registry follows the server, and Run      *)
(* leaves nothing behind, except in the ways the properties name.           *)
EXTENDS GrpcRun, TLAPS

(* The registry goroutine exists once ListenAndServe has registered all     *)
(* services, and never without a registry.                                  *)
Phases ==
    /\ start \in {"listen", "register", "undo", "spawn"} => keeper = "none"
    /\ ~HasRegistry => /\ keeper = "none" /\ registered = {}
                       /\ start \notin {"register", "undo", "spawn"}
    /\ HasRegistry /\ start \in {"serve", "serving"} => keeper # "none"
    /\ keeper = "none" => refresh = {}

(* What the registry holds at each stage of ListenAndServe and of the       *)
(* registry goroutine.                                                      *)
Registration ==
    /\ start = "listen" => registered = {}
    /\ start = "register" /\ registry = "static" => infos \ todo \subseteq registered
    /\ start = "undo" => registered \subseteq stuck \cup todo
    /\ (start = "spawn" \/ keeper = "loop") /\ registry = "static" => registered = infos
    /\ keeper = "deregister" => registered \subseteq stuck \cup late \cup keeperTodo
    /\ keeper = "gone" => registered \subseteq stuck \cup late

(* The engine is stopped by Stop only; a Stop that found registryDone set   *)
(* is past the handshake only after the registry goroutine has gone.        *)
Past(p) == stop[p] \in {"engine", "drain", "returned"}
Stopping == \E p \in Stopper : stop[p] \in {"drain", "returned"}

Stops ==
    /\ engine \in {"stopping", "stopped"} => Stopping
    /\ Stopped => engine = "stopped"
    /\ start = "returned" /\ ~startErr => Stopping
    /\ HasRegistry /\ ~early => \A p \in Stopper : Past(p) => keeper = "gone"

ServerInv == TypeOK /\ Phases /\ Registration /\ FailedStartCleans /\ Stops

(* Run and the goroutine that calls Start.                                  *)
RunInv ==
    /\ main \in {"select", "quit", "returned"} /\ out \in BOOLEAN
    /\ reporter \in {"starting", "sending", "gone"}
    /\ chClosed => reporter = "gone" /\ start = "returned" /\ ~startErr
    /\ main = "select" => ~out
    /\ main # "select" => reporter = "gone" \/ (signalled /\ ~out)
    /\ main = "returned" => chClosed \/ stop[Runner] = "returned"

GrpcInv == ServerInv /\ RunInv

-----------------------------------------------------------------------------
LEMMA ServerInitially == Init => ServerInv
BY DEF Init, ServerInv, TypeOK, Phases, Registration, FailedStartCleans, Stops, Stopped, Stopping, Past

(* A step that changes no call of Stop and not the engine.                  *)
LEMMA StopsKept ==
    ASSUME Stops, UNCHANGED <<registry, stop, engine, early>>,
           keeper = "gone" => keeper' = "gone",
           start' = "returned" /\ ~startErr' => Stopping
    PROVE  Stops'
BY DEF Stops, Stopped, Stopping, Past, HasRegistry

LEMMA StartKeeps == ServerInv /\ (StartStep \/ ServeReturns) => ServerInv'
<1> SUFFICES ASSUME ServerInv, StartStep \/ ServeReturns PROVE ServerInv'
  OBVIOUS
<1> USE DEF ServerInv, config, engineVars, keeperVars, HasRegistry
<1>1. ASSUME Listen PROVE ServerInv'
  <2>1. TypeOK'
    <3>1. todo' \subseteq infos /\ startErr' \in BOOLEAN
          /\ start' \in {"register", "serve", "returned"}
      BY <1>1 DEF Listen, Return, TypeOK
    <3> QED BY <1>1, <3>1 DEF Listen, TypeOK
  <2>2. Phases' /\ Registration' /\ FailedStartCleans'
    BY <1>1 DEF Listen, Return, TypeOK, Phases, Registration, FailedStartCleans
  <2>3. Stops'
    BY <1>1, StopsKept DEF Listen, Return, TypeOK, Phases, Stops
  <2> QED BY <2>1, <2>2, <2>3
<1>2. ASSUME UndoDone PROVE ServerInv'
  <2>1. TypeOK'
    BY <1>2 DEF UndoDone, Return, TypeOK
  <2>2. Phases' /\ Registration' /\ FailedStartCleans'
    BY <1>2 DEF UndoDone, Return, TypeOK, Phases, Registration, FailedStartCleans
  <2>3. Stops'
    BY <1>2, StopsKept DEF UndoDone, Return, TypeOK, Phases, Stops
  <2> QED BY <2>1, <2>2, <2>3
<1>3. ASSUME Mark PROVE ServerInv'
  <2>1. TypeOK'
    BY <1>3 DEF Mark, TypeOK
  <2>2. Phases' /\ Registration' /\ FailedStartCleans'
    BY <1>3 DEF Mark, TypeOK, Phases, Registration, FailedStartCleans
  <2>3. Stops'
    BY <1>3, StopsKept DEF Mark, TypeOK, Phases, Stops
  <2> QED BY <2>1, <2>2, <2>3
<1>4. ASSUME SpawnKeeper PROVE ServerInv'
  <2>1. TypeOK'
    BY <1>4 DEF SpawnKeeper, TypeOK
  <2>2. Phases' /\ Registration' /\ FailedStartCleans'
    BY <1>4 DEF SpawnKeeper, TypeOK, Phases, Registration, FailedStartCleans
  <2>3. Stops'
    BY <1>4, StopsKept DEF SpawnKeeper, TypeOK, Phases, Stops
  <2> QED BY <2>1, <2>2, <2>3
<1>5. ASSUME Serve PROVE ServerInv'
  <2>1. TypeOK'
    BY <1>5 DEF Serve, Return, TypeOK
  <2>2. Phases' /\ Registration' /\ FailedStartCleans'
    BY <1>5 DEF Serve, Return, TypeOK, Phases, Registration, FailedStartCleans
  <2>3. Stops'
    BY <1>5 DEF Serve, Return, Phases, Stops, Stopped, Stopping, Past
  <2> QED BY <2>1, <2>2, <2>3
<1>6. ASSUME NEW s \in Service, RegisterOK(s) PROVE ServerInv'
  <2>1. TypeOK'
    BY <1>6 DEF RegisterOK, TypeOK
  <2>2. Phases' /\ Registration' /\ FailedStartCleans'
    BY <1>6 DEF RegisterOK, TypeOK, Phases, Registration, FailedStartCleans
  <2>3. Stops'
    BY <1>6, StopsKept DEF RegisterOK, TypeOK, Phases, Stops
  <2> QED BY <2>1, <2>2, <2>3
<1>7. ASSUME NEW s \in Service, RegisterFails(s) PROVE ServerInv'
  <2>1. TypeOK'
    BY <1>7 DEF RegisterFails, Undo, TypeOK
  <2>2. Phases' /\ Registration' /\ FailedStartCleans'
    BY <1>7 DEF RegisterFails, Undo, TypeOK, Phases, Registration, FailedStartCleans
  <2>3. Stops'
    BY <1>7, StopsKept DEF RegisterFails, Undo, TypeOK, Phases, Stops
  <2> QED BY <2>1, <2>2, <2>3
<1>8. ASSUME NEW s \in Service, UndoOne(s) PROVE ServerInv'
  <2>1. TypeOK'
    BY <1>8 DEF UndoOne, Unregister, TypeOK
  <2>2. Phases' /\ Registration' /\ FailedStartCleans'
    BY <1>8 DEF UndoOne, Unregister, TypeOK, Phases, Registration, FailedStartCleans
  <2>3. Stops'
    BY <1>8, StopsKept DEF UndoOne, Unregister, TypeOK, Phases, Stops
  <2> QED BY <2>1, <2>2, <2>3
<1>9. ASSUME ServeReturns PROVE ServerInv'
  <2>1. TypeOK'
    BY <1>9 DEF ServeReturns, Return, TypeOK
  <2>2. Phases' /\ Registration' /\ FailedStartCleans'
    BY <1>9 DEF ServeReturns, Return, TypeOK, Phases, Registration, FailedStartCleans
  <2>3. Stops'
    BY <1>9, StopsKept DEF ServeReturns, Return, TypeOK, Phases, Stops
  <2> QED BY <2>1, <2>2, <2>3
<1> QED BY <1>1, <1>2, <1>3, <1>4, <1>5, <1>6, <1>7, <1>8, <1>9 DEF StartStep

LEMMA KeeperKeeps ==
    ServerInv /\ (KeeperStep \/ TTLTick \/ \E s \in Service : Refresh(s)) => ServerInv'
<1> SUFFICES ASSUME ServerInv, KeeperStep \/ TTLTick \/ \E s \in Service : Refresh(s)
             PROVE  ServerInv'
  OBVIOUS
<1> USE DEF ServerInv, config, engineVars, startVars, keeperVars, HasRegistry
<1>1. ASSUME NEW p \in Stopper, TakeExit(p) PROVE ServerInv'
  <2>1. TypeOK'
    BY <1>1 DEF TakeExit, TypeOK
  <2>2. Phases' /\ Registration' /\ FailedStartCleans'
    BY <1>1 DEF TakeExit, TypeOK, Phases, Registration, FailedStartCleans
  <2>3. Stops'
    BY <1>1 DEF TakeExit, TypeOK, Stops, Stopped, Stopping, Past
  <2> QED BY <2>1, <2>2, <2>3
<1>2. ASSUME NEW p \in Stopper, Reply(p) PROVE ServerInv'
  <2>1. TypeOK'
    BY <1>2 DEF Reply, TypeOK
  <2>2. Phases' /\ Registration' /\ FailedStartCleans'
    BY <1>2 DEF Reply, TypeOK, Phases, Registration, FailedStartCleans
  <2>3. Stops'
    BY <1>2 DEF Reply, TypeOK, Stops, Stopped, Stopping, Past
  <2> QED BY <2>1, <2>2, <2>3
<1>3. ASSUME NEW s \in Service, Deregister(s) PROVE ServerInv'
  <2>1. TypeOK'
    BY <1>3 DEF Deregister, Unregister, TypeOK
  <2>2. Phases' /\ Registration' /\ FailedStartCleans'
    BY <1>3 DEF Deregister, Unregister, TypeOK, Phases, Registration, FailedStartCleans
  <2>3. Stops'
    BY <1>3, StopsKept DEF Deregister, Unregister, TypeOK, Stops
  <2> QED BY <2>1, <2>2, <2>3
<1>4. ASSUME TTLTick PROVE ServerInv'
  <2>1. TypeOK'
    BY <1>4 DEF TTLTick, TypeOK
  <2>2. Phases' /\ Registration' /\ FailedStartCleans'
    BY <1>4 DEF TTLTick, TypeOK, Phases, Registration, FailedStartCleans
  <2>3. Stops'
    BY <1>4, StopsKept DEF TTLTick, TypeOK, Stops
  <2> QED BY <2>1, <2>2, <2>3
<1>5. ASSUME NEW s \in Service, Refresh(s) PROVE ServerInv'
  <2>1. TypeOK'
    BY <1>5 DEF Refresh, TypeOK
  <2>2. Phases' /\ Registration' /\ FailedStartCleans'
    BY <1>5 DEF Refresh, TypeOK, Phases, Registration, FailedStartCleans
  <2>3. Stops'
    BY <1>5, StopsKept DEF Refresh, TypeOK, Stops
  <2> QED BY <2>1, <2>2, <2>3
<1> QED BY <1>1, <1>2, <1>3, <1>4, <1>5 DEF KeeperStep

(* The clients' RPCs, and the entries of the registry that run out.         *)
LEMMA EnvironmentKeeps == ServerInv /\ Environment => ServerInv'
<1> SUFFICES ASSUME ServerInv, Environment PROVE ServerInv'
  OBVIOUS
<1> USE DEF ServerInv, config, startVars, keeperVars, engineVars, HasRegistry
<1>1. ASSUME NEW s \in Service, Expire(s) PROVE ServerInv'
  <2>1. TypeOK'
    BY <1>1 DEF Expire, TypeOK
  <2>2. Phases' /\ Registration' /\ FailedStartCleans'
    BY <1>1 DEF Expire, TypeOK, Phases, Registration, FailedStartCleans
  <2>3. Stops'
    BY <1>1, StopsKept DEF Expire, Stops
  <2> QED BY <2>1, <2>2, <2>3
<1>2. ASSUME CallBegins \/ CallEnds PROVE ServerInv'
  <2>1. TypeOK'
    BY <1>2 DEF CallBegins, CallEnds, TypeOK
  <2>2. Phases' /\ Registration' /\ FailedStartCleans'
    BY <1>2 DEF CallBegins, CallEnds, Phases, Registration, FailedStartCleans
  <2>3. Stops'
    BY <1>2, StopsKept DEF CallBegins, CallEnds, Stops
  <2> QED BY <2>1, <2>2, <2>3
<1> QED BY <1>1, <1>2 DEF Environment

LEMMA StopKeeps ==
    ASSUME ServerInv, NEW p \in Stopper, StopCall(p) \/ StopStep(p)
    PROVE  ServerInv'
<1> USE DEF ServerInv, config, startVars, keeperVars, engineVars, HasRegistry
<1>1. TypeOK'
  BY DEF StopCall, StopStep, StopEngine, EngineStopped, TypeOK
<1>2. Phases' /\ Registration' /\ FailedStartCleans'
  BY DEF StopCall, StopStep, StopEngine, EngineStopped, Phases, Registration, FailedStartCleans
<1>3. Stops'
  <2>1. CASE StopCall(p)
    BY <2>1 DEF StopCall, TypeOK, Stops, Stopped, Stopping, Past, Phases
  <2>2. CASE StopEngine(p)
    BY <2>2 DEF StopEngine, TypeOK, Stops, Stopped, Stopping, Past
  <2>3. CASE EngineStopped(p)
    BY <2>3 DEF EngineStopped, TypeOK, Stops, Stopped, Stopping, Past
  <2> QED BY <2>1, <2>2, <2>3 DEF StopStep
<1> QED BY <1>1, <1>2, <1>3

LEMMA ServerInductive == ServerInv /\ [Next]_vars => ServerInv'
<1> SUFFICES ASSUME ServerInv, [Next]_vars PROVE ServerInv'
  OBVIOUS
<1>1. CASE UNCHANGED vars
  BY <1>1 DEF vars, config, startVars, keeperVars, engineVars, ServerInv, TypeOK, Phases, Registration, FailedStartCleans, Stops, Stopped, Stopping, Past, HasRegistry
<1> QED BY <1>1, StartKeeps, KeeperKeeps, EnvironmentKeeps, StopKeeps DEF Next

(* The stages imply what is promised of the registry.                       *)
LEMMA ServerInvSound == ServerInv => RegistrySound
BY DEF ServerInv, RegistrySound, TypeOK, Phases, Registration, FailedStartCleans, Stops, Stopped, Stopping, Past,
       ServingIsRegistered, LeftBehind, KeeperLeak

(* For any services and any calls of Stop: while the server serves, a       *)
(* registry whose entries do not run out has all its services; after a      *)
(* start that failed, or after Start and a Stop have returned, no registry  *)
(* has any, and the registry goroutine is gone, unless Unregister failed, a *)
(* refresh came late, or Stop came too early.                               *)
THEOREM RegistryFollows == Spec => []RegistrySound
<1>1. Spec => []ServerInv
  BY ServerInitially, ServerInductive, PTL DEF Spec
<1> QED BY <1>1, ServerInvSound, PTL

-----------------------------------------------------------------------------
LEMMA RunInitially == RInit => GrpcInv
BY ServerInitially DEF RInit, GrpcInv, RunInv

(* A step of the server moves neither Run nor its goroutine, and does not   *)
(* take back what they saw: that Start, or the Stop of Run, returned.       *)
LEMMA ServerStepKeepsRun ==
    ASSUME GrpcInv, [Next]_vars, UNCHANGED runVars
    PROVE  RunInv'
<1>1. start = "returned" => start' = "returned" /\ startErr' = startErr
  BY DEF Next, StartStep, KeeperStep, StopStep, Environment, vars, config, startVars, keeperVars, engineVars, Listen, UndoDone, Mark, SpawnKeeper,
         Serve, RegisterOK, RegisterFails, UndoOne, ServeReturns, TakeExit, Reply, Deregister,
         TTLTick, Refresh, CallBegins, CallEnds, Expire, StopCall, StopEngine, EngineStopped
<1>2. stop[Runner] = "returned" => stop'[Runner] = "returned"
  BY RunnerAssumption DEF GrpcInv, ServerInv, TypeOK, Next, StartStep, KeeperStep, StopStep, Environment, vars,
         Listen, UndoDone, Mark, SpawnKeeper, Serve, RegisterOK, RegisterFails, UndoOne, ServeReturns,
         TakeExit, Reply, Deregister, TTLTick, Refresh, CallBegins, CallEnds, Expire, StopCall, StopEngine, EngineStopped
<1> QED BY <1>1, <1>2 DEF GrpcInv, RunInv, runVars

LEMMA RunInductive == GrpcInv /\ [RNext]_allVars => GrpcInv'
<1> SUFFICES ASSUME GrpcInv, [RNext]_allVars PROVE GrpcInv'
  OBVIOUS
<1>1. CASE ServerStep
  <2>1. [Next]_vars /\ UNCHANGED runVars
    BY <1>1 DEF ServerStep, Next
  <2> QED BY <2>1, ServerInductive, ServerStepKeepsRun DEF GrpcInv
<1>2. CASE CallStop
  <2>1. [Next]_vars /\ UNCHANGED runVars
    BY <1>2, RunnerAssumption DEF CallStop, Next
  <2> QED BY <2>1, ServerInductive, ServerStepKeepsRun DEF GrpcInv
<1>3. ASSUME UNCHANGED vars PROVE ServerInv'
  BY <1>3, ServerInductive DEF GrpcInv
<1>4. CASE Report \/ Signal
  <2>1. UNCHANGED vars
    BY <1>4 DEF Report, Signal
  <2>2. RunInv'
    BY <1>4 DEF Report, Signal, vars, startVars, GrpcInv, RunInv
  <2> QED BY <1>3, <2>1, <2>2 DEF GrpcInv
<1>5. CASE SelectQuit \/ SelectErr \/ SelectClosed \/ StopDone
  <2>1. UNCHANGED vars
    BY <1>5 DEF SelectQuit, SelectErr, SelectClosed, StopDone
  <2>2. RunInv'
    <3>1. CASE SelectQuit
      BY <3>1 DEF SelectQuit, vars, startVars, GrpcInv, RunInv
    <3>2. CASE SelectErr
      BY <3>2 DEF SelectErr, vars, startVars, GrpcInv, RunInv
    <3>3. CASE SelectClosed \/ StopDone
      BY <3>3 DEF SelectClosed, StopDone, vars, startVars, GrpcInv, RunInv
    <3> QED BY <1>5, <3>1, <3>2, <3>3
  <2> QED BY <1>3, <2>1, <2>2 DEF GrpcInv
<1>6. CASE UNCHANGED allVars
  BY <1>6, ServerInductive, ServerStepKeepsRun DEF GrpcInv, allVars
<1> QED BY <1>1, <1>2, <1>4, <1>5, <1>6 DEF RNext, RunStep

(* Run returns only after its Stop has, or after Serve ended because of     *)
(* another one: what is promised of a stopped server holds for it.          *)
LEMMA GrpcInvSound == GrpcInv => RunSound
<1> SUFFICES ASSUME GrpcInv PROVE RunSound
  OBVIOUS
<1>1. main = "returned" => (chClosed /\ start = "returned" /\ Stopping) \/ Stopped
  BY RunnerAssumption DEF GrpcInv, RunInv, ServerInv, Stops, Stopped
<1>2. NeverAbandoned
  BY <1>1 DEF GrpcInv, ServerInv, Stops, NeverAbandoned
<1>3. RunCleans
  <2>1. main = "returned" => \E p \in Stopper : Past(p)
    BY <1>1 DEF Stopping, Stopped, Past
  <2>2. main = "returned" /\ HasRegistry /\ ~early => keeper = "gone"
    BY <2>1 DEF GrpcInv, ServerInv, Stops
  <2> QED BY <2>2 DEF GrpcInv, ServerInv, Phases, Registration, RunCleans
<1>4. HangsOnlyAfterSignal
  BY DEF GrpcInv, RunInv, HangsOnlyAfterSignal
<1> QED BY <1>2, <1>3, <1>4 DEF RunSound

(* When Run returns the server is stopped or has ended by itself, nothing   *)
(* stays registered and no registry goroutine is left, but for the gaps of  *)
(* Stop; the goroutine that called Start hangs only if a signal was taken   *)
(* before its error.                                                        *)
THEOREM RunLeavesNothing == RSpec => [](RegistrySound /\ RunSound)
<1>1. RSpec => []GrpcInv
  BY RunInitially, RunInductive, PTL DEF RSpec
<1>2. GrpcInv => RegistrySound /\ RunSound
  BY ServerInvSound, GrpcInvSound DEF GrpcInv
<1> QED BY <1>1, <1>2, PTL
=============================================================================
