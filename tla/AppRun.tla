------------------------------- MODULE AppRun -------------------------------
(***************************************************************************)
(* App.Run of app.go: the goroutines it starts in an errgroup, one that    *)
(* starts and one that stops each server and one that waits for the end,   *)
(* and the errors they report.  The errgroup and the contexts are external *)
(* (golang.org/x/sync/errgroup, context): the group keeps the first error  *)
(* that is not nil and cancels its context then, which is derived from     *)
(* a.ctx.                                                                  *)
(*                                                                         *)
(* A server is anything with Start and Stop; it may return from either     *)
(* with or without an error.                                               *)
(***************************************************************************)
EXTENDS Integers, FiniteSets

CONSTANT Server      \* the servers that may be registered

ASSUME ServerAssumption == IsFiniteSet(Server)

VARIABLES servers,   \* a.opts.servers
          mini,      \* Run is that of a MiniApp, which has no quitCh
          run,       \* where Run is
          todo,      \* servers its loop has not reached
          wg,        \* the counter of the WaitGroup
          startOf,   \* startOf[s]: the goroutine that calls Start
          stopOf,    \* stopOf[s]: the goroutine that calls Stop
          quitter,   \* the goroutine that waits for the end
          appCtx,    \* a.ctx: live, or why it is done
          ctx,       \* the context of the errgroup
          signalled, \* a signal is in the quit channel
          firstErr,  \* the error the errgroup keeps
          output,    \* what Run returned
          serverErr  \* history: the first error a server returned

appConfig == <<servers, mini>>
appVars == <<servers, mini, run, todo, wg, startOf, stopOf, quitter, appCtx, ctx,
          signalled, firstErr, output, serverErr>>

Cause == {"canceled", "deadline"}
RunError == Cause \cup {"failed"}
NoErr == "nil"

AppInit ==
    /\ servers \in SUBSET Server /\ mini \in BOOLEAN
    /\ run = "spawn" /\ todo = servers /\ wg = 0
    /\ startOf = [s \in Server |-> "none"]
    /\ stopOf = [s \in Server |-> "none"]
    /\ quitter = "none"
    /\ appCtx = "live" /\ ctx = "live" /\ signalled = FALSE
    /\ firstErr = NoErr /\ output = NoErr /\ serverErr = NoErr

-----------------------------------------------------------------------------
(* A goroutine of the group returns r.                                     *)
Report(r) ==
    /\ firstErr' = IF firstErr = NoErr THEN r ELSE firstErr
    /\ ctx' = IF r # NoErr /\ ctx = "live" THEN "canceled" ELSE ctx

ReportServer(r) ==
    /\ Report(r)
    /\ serverErr' = IF serverErr = NoErr THEN r ELSE serverErr

(* One turn of the loop over the servers.  An error of an earlier server   *)
(* does not end the loop.                                                  *)
Spawn(s) ==
    /\ run = "spawn" /\ s \in todo
    /\ todo' = todo \ {s}
    /\ stopOf' = [stopOf EXCEPT ![s] = "waiting"]
    /\ wg' = wg + 1
    /\ startOf' = [startOf EXCEPT ![s] = "ready"]
    /\ UNCHANGED <<appConfig, run, quitter, appCtx, ctx, signalled,
                   firstErr, output, serverErr>>

Begin(s) ==
    /\ startOf[s] = "ready"
    /\ wg' = wg - 1
    /\ startOf' = [startOf EXCEPT ![s] = "running"]
    /\ UNCHANGED <<appConfig, run, todo, stopOf, quitter, appCtx, ctx,
                   signalled, firstErr, output, serverErr>>

(* Start gets a.ctx, not the context of the group: it can report that      *)
(* a.ctx is done, fail, or return nil.                                     *)
StartReturns(s, r) ==
    /\ startOf[s] = "running"
    /\ r \in Cause => r = appCtx
    /\ startOf' = [startOf EXCEPT ![s] = "done"]
    /\ ReportServer(r)
    /\ UNCHANGED <<appConfig, run, todo, wg, stopOf, quitter, appCtx,
                   signalled, output>>

StopCall(s) ==
    /\ stopOf[s] = "waiting" /\ ctx # "live"
    /\ stopOf' = [stopOf EXCEPT ![s] = "stopping"]
    /\ UNCHANGED <<appConfig, run, todo, wg, startOf, quitter, appCtx, ctx,
                   signalled, firstErr, output, serverErr>>

(* Its context is a fresh one: Stop fails on its own or at StopTimeout.    *)
StopReturns(s, r) ==
    /\ stopOf[s] = "stopping" /\ r \in {NoErr, "failed"}
    /\ stopOf' = [stopOf EXCEPT ![s] = "done"]
    /\ ReportServer(r)
    /\ UNCHANGED <<appConfig, run, todo, wg, startOf, quitter, appCtx,
                   signalled, output>>

(* wg.Wait, and the goroutine that waits for a signal or for the context.  *)
SpawnQuitter ==
    /\ run = "spawn" /\ todo = {} /\ wg = 0
    /\ run' = "wait" /\ quitter' = "waiting"
    /\ UNCHANGED <<appConfig, todo, wg, startOf, stopOf, appCtx, ctx,
                   signalled, firstErr, output, serverErr>>

(* The context is done: a MiniApp reports why, an App reports nothing.     *)
MutantQuitError == ctx
QuitError == IF mini THEN ctx ELSE NoErr

MutantQuitDone ==
    /\ mini
    /\ quitter = "waiting" /\ ctx # "live"
    /\ quitter' = "done"
    /\ Report(QuitError)
    /\ UNCHANGED <<appConfig, run, todo, wg, startOf, stopOf, appCtx,
                   signalled, output, serverErr>>

QuitDone ==
    /\ quitter = "waiting" /\ ctx # "live"
    /\ quitter' = "done"
    /\ Report(QuitError)
    /\ UNCHANGED <<appConfig, run, todo, wg, startOf, stopOf, appCtx,
                   signalled, output, serverErr>>

CancelApp == appCtx' = IF appCtx = "live" THEN "canceled" ELSE appCtx

QuitSignal ==
    /\ quitter = "waiting" /\ ~mini /\ signalled
    /\ quitter' = "done"
    /\ CancelApp
    /\ UNCHANGED <<appConfig, run, todo, wg, startOf, stopOf, ctx, signalled,
                   firstErr, output, serverErr>>

(* eg.Wait, and the error that Run passes on.                              *)
PassedOn(e) == IF e = "canceled" THEN NoErr ELSE e

MutantAppReturn ==
    /\ run = "wait" /\ quitter = "done"
    /\ \A s \in servers : startOf[s] = "done"
    /\ run' = "returned"
    /\ output' = PassedOn(firstErr)
    /\ UNCHANGED <<appConfig, todo, wg, startOf, stopOf, quitter, appCtx, ctx,
                   signalled, firstErr, serverErr>>

AppReturn ==
    /\ run = "wait" /\ quitter = "done"
    /\ \A s \in servers : startOf[s] = "done" /\ stopOf[s] = "done"
    /\ run' = "returned"
    /\ output' = PassedOn(firstErr)
    /\ UNCHANGED <<appConfig, todo, wg, startOf, stopOf, quitter, appCtx, ctx,
                   signalled, firstErr, serverErr>>

-----------------------------------------------------------------------------
(* The environment: a signal, a call of Stop from anywhere, the timeout of *)
(* a MiniApp or of its parent, and the end of a.ctx reaching ctx.          *)
AppSignal ==
    /\ ~mini /\ quitter # "none" /\ ~signalled /\ run # "returned"
    /\ signalled' = TRUE
    /\ UNCHANGED <<appConfig, run, todo, wg, startOf, stopOf, quitter, appCtx,
                   ctx, firstErr, output, serverErr>>

AppStop ==
    /\ appCtx = "live" /\ CancelApp
    /\ UNCHANGED <<appConfig, run, todo, wg, startOf, stopOf, quitter, ctx,
                   signalled, firstErr, output, serverErr>>

Timeout ==
    /\ mini /\ appCtx = "live" /\ appCtx' = "deadline"
    /\ UNCHANGED <<appConfig, run, todo, wg, startOf, stopOf, quitter, ctx,
                   signalled, firstErr, output, serverErr>>

Propagate ==
    /\ appCtx # "live" /\ ctx = "live" /\ ctx' = appCtx
    /\ UNCHANGED <<appConfig, run, todo, wg, startOf, stopOf, quitter, appCtx,
                   signalled, firstErr, output, serverErr>>

MainStep == SpawnQuitter \/ AppReturn \/ \E s \in Server : Spawn(s)
QuitStep == QuitDone \/ QuitSignal

AppNext ==
    \/ MainStep \/ QuitStep
    \/ \E s \in Server : Begin(s) \/ StopCall(s)
    \/ \E s \in Server, r \in RunError \cup {NoErr} :
          StartReturns(s, r) \/ StopReturns(s, r)
    \/ AppSignal \/ AppStop \/ Timeout \/ Propagate

(* Goroutines run, Stop returns, and Start returns once Stop has: what the *)
(* interface asks of a server, and what GrpcServer shows of grpcx.         *)
AppFairness ==
    /\ WF_appVars(MainStep) /\ WF_appVars(QuitStep) /\ WF_appVars(Propagate)
    /\ \A s \in Server :
         /\ WF_appVars(Begin(s)) /\ WF_appVars(StopCall(s))
         /\ WF_appVars(\E r \in RunError \cup {NoErr} : StopReturns(s, r))
         /\ WF_appVars(stopOf[s] = "done" /\
                    \E r \in RunError \cup {NoErr} : StartReturns(s, r))

AppSpec == AppInit /\ [][AppNext]_appVars /\ AppFairness

-----------------------------------------------------------------------------
(* The WaitGroup counter stays within what sync.WaitGroup accepts (it      *)
(* panics below zero), every other variable within its states.             *)
TypeOK ==
    /\ servers \subseteq Server /\ todo \subseteq servers /\ mini \in BOOLEAN
    /\ run \in {"spawn", "wait", "returned"}
    /\ wg \in Nat
    /\ startOf \in [Server -> {"none", "ready", "running", "done"}]
    /\ stopOf \in [Server -> {"none", "waiting", "stopping", "done"}]
    /\ quitter \in {"none", "waiting", "done"}
    /\ appCtx \in Cause \cup {"live"} /\ ctx \in Cause \cup {"live"}
    /\ signalled \in BOOLEAN
    /\ {firstErr, output, serverErr} \subseteq RunError \cup {NoErr}

(* No server is stopped without a cause: a call of Stop, a signal, the     *)
(* timeout, or an error some server returned.  A server that returns nil   *)
(* takes no other one down with it.                                        *)
StoppedForCause ==
    \A s \in Server : stopOf[s] \in {"stopping", "done"} =>
        appCtx # "live" \/ serverErr # NoErr

(* Run leaves nothing behind: when it returns, every Start it called has   *)
(* returned and so has one Stop of each server, also of those the loop     *)
(* started after the application was already going down.                   *)
NothingLeftRunning ==
    run = "returned" =>
        \A s \in servers : startOf[s] = "done" /\ stopOf[s] = "done"

(* "Run returns the first non-nil error (if any) from them" (app.go:68),   *)
(* context.Canceled being taken for none, whichever of the goroutines of   *)
(* Run sees the end of the context first.  (A MiniApp differs, see below.) *)
FirstServerError ==
    ~mini /\ run = "returned" =>
        output = IF serverErr = "canceled" THEN NoErr ELSE serverErr

(* What TestMiniApp (app_test.go:80-88) expects of a MiniApp whose servers *)
(* do not fail: DeadlineExceeded after its timeout, nil after stop.        *)
MiniOutcome ==
    mini /\ run = "returned" /\ serverErr \in {NoErr, appCtx} =>
        output = IF appCtx = "deadline" THEN "deadline" ELSE NoErr

(* Whatever ends the application, a Stop, a signal, the timeout, or a      *)
(* server that fails, however early, Run returns.                          *)
ShutdownCompletes ==
    signalled \/ appCtx # "live" \/ serverErr # NoErr ~> run = "returned"

(* Run stops servers only for a cause, and then every one of them.         *)
Orderly == TypeOK /\ StoppedForCause /\ NothingLeftRunning

(* Run returns the right error, of an App and of a MiniApp.                *)
Outcome == FirstServerError /\ MiniOutcome
=============================================================================
