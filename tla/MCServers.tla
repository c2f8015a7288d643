----------------------------- MODULE MCServers -----------------------------
(* The ways of this repository to run things until they are told to stop,   *)
(* which share nothing: an App with its servers, a Group of actors, and the *)
(* web server's Run.  A behaviour is one of either.                         *)
EXTENDS AppRun, ActorGroup, WebServer

VARIABLE kind

serversVars == <<kind, appVars, vars, webServerVars>>

(* An App without servers whose Run has returned: the behaviour is of       *)
(* another kind.                                                            *)
AppOver ==
    /\ servers = {} /\ mini = FALSE /\ run = "returned" /\ todo = {} /\ wg = 0
    /\ startOf = [s \in Server |-> "none"] /\ stopOf = startOf /\ quitter = "done"
    /\ appCtx = "canceled" /\ ctx = "canceled" /\ signalled = FALSE
    /\ firstErr = NoErr /\ output = NoErr /\ serverErr = NoErr

ServersInit ==
    /\ kind \in {"app", "group", "web"}
    /\ IF kind = "app" THEN AppInit ELSE AppOver
    /\ Init /\ WebServerInit
    /\ kind # "web" => config = [graceful |-> TRUE, tls |-> FALSE, cert |-> TRUE]
    /\ kind # "group" => \A a, b \in Actor : res[a] = res[b]
ServersNext ==
    \/ kind = "app" /\ AppNext /\ UNCHANGED <<kind, vars, webServerVars>>
    \/ kind = "group" /\ Next /\ UNCHANGED <<kind, appVars, webServerVars>>
    \/ kind = "web" /\ WebServerNext /\ UNCHANGED <<kind, appVars, vars>>
ServersSpec ==
    /\ ServersInit /\ [][ServersNext]_serversVars
    /\ AppFairness /\ Fairness
    /\ WF_serversVars(kind = "web" /\ WebGoroutines /\ UNCHANGED <<kind, appVars, vars>>)
=============================================================================
