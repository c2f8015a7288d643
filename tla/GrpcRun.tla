------------------------------ MODULE GrpcRun -------------------------------
(***************************************************************************)
(* Server.Run of rpc/grpcx (web.Server.Run has the same shape): Start in a *)
(* goroutine that reports on the unbuffered channel ch, a select on that   *)
(* channel and a signal, and a deferred Stop.  The server is GrpcServer.   *)
(* Runner is the goroutine of Run; others may call Stop as well.           *)
(***************************************************************************)
EXTENDS GrpcServer

CONSTANT Runner

ASSUME RunnerAssumption == Runner \in Stopper

VARIABLES main,       \* where Run is
          out,        \* it returned an error
          reporter,   \* the goroutine that called Start
          chClosed,   \* ch is closed
          signalled   \* a signal is in the quit channel

runVars == <<main, out, reporter, chClosed, signalled>>
allVars == <<vars, runVars>>

RInit ==
    /\ Init
    /\ main = "select" /\ out = FALSE
    /\ reporter = "starting" /\ chClosed = FALSE
    /\ signalled = FALSE

(* Start has returned: the goroutine sends the error or closes ch.         *)
MutantReport ==
    /\ reporter = "starting" /\ start = "returned"
    /\ reporter' = "gone" /\ chClosed' = ~startErr
    /\ UNCHANGED <<vars, main, out, signalled>>

Report ==
    /\ reporter = "starting" /\ start = "returned"
    /\ \/ startErr /\ reporter' = "sending" /\ UNCHANGED chClosed
       \/ ~startErr /\ reporter' = "gone" /\ chClosed' = TRUE
    /\ UNCHANGED <<vars, main, out, signalled>>

Signal ==
    /\ ~signalled /\ main = "select"
    /\ signalled' = TRUE
    /\ UNCHANGED <<vars, main, out, reporter, chClosed>>

(* The three ways out of the select; the first two defer quitFunc.         *)

SelectQuit ==
    /\ main = "select" /\ signalled
    /\ main' = "quit"
    /\ UNCHANGED <<vars, out, reporter, chClosed, signalled>>

MutantSelectErr ==
    /\ main = "select" /\ reporter = "sending"
    /\ reporter' = "gone" /\ main' = "returned" /\ out' = TRUE
    /\ UNCHANGED <<vars, chClosed, signalled>>

SelectErr ==
    /\ main = "select" /\ reporter = "sending"
    /\ reporter' = "gone" /\ main' = "quit" /\ out' = TRUE
    /\ UNCHANGED <<vars, chClosed, signalled>>

SelectClosed ==
    /\ main = "select" /\ chClosed
    /\ main' = "returned"
    /\ UNCHANGED <<vars, out, reporter, chClosed, signalled>>

(* quitFunc calls Stop, and Run returns when Stop does.                    *)
CallStop ==
    /\ main = "quit" /\ StopCall(Runner)
    /\ UNCHANGED runVars

StopDone ==
    /\ main = "quit" /\ stop[Runner] = "returned"
    /\ main' = "returned"
    /\ UNCHANGED <<vars, out, reporter, chClosed, signalled>>

ServerStep ==
    /\ \/ StartStep \/ ServeReturns \/ KeeperStep \/ TTLTick \/ Environment
       \/ \E s \in Service : Refresh(s)
       \/ \E p \in Stopper : StopStep(p)
       \/ \E p \in Stopper \ {Runner} : StopCall(p)
    /\ UNCHANGED runVars

RunStep == SelectQuit \/ SelectErr \/ SelectClosed \/ CallStop \/ StopDone

RNext == ServerStep \/ Report \/ Signal \/ RunStep

(* Goroutines that can run do run; nobody has to call Stop or send a       *)
(* signal, the engine serves until it is stopped, and no RPC has to end.   *)
(* The ticker ticks; a service whose refresh is tried again and again is   *)
(* renewed some time, and an entry that is never renewed runs out.         *)
Renewed(s) == Refresh(s) /\ s \in registered'

RSpec ==
    /\ RInit /\ [][RNext]_allVars
    /\ WF_allVars(Report) /\ WF_allVars(RunStep)
    /\ WF_allVars(StartStep /\ UNCHANGED runVars)
    /\ WF_allVars(start = "serving" /\ engine = "stopped" /\ ServeReturns
                    /\ UNCHANGED runVars)
    /\ WF_allVars(KeeperStep /\ UNCHANGED runVars)
    /\ WF_allVars(TTLTick /\ UNCHANGED runVars)
    /\ \A s \in Service : /\ SF_allVars(Renewed(s) /\ UNCHANGED runVars)
                          /\ WF_allVars(Expire(s) /\ UNCHANGED runVars)
    /\ \A p \in Stopper : WF_allVars(StopStep(p) /\ UNCHANGED runVars)

-----------------------------------------------------------------------------
(* Run never returns while the server goes on serving: it stopped it, or   *)
(* ListenAndServe had returned by itself.                                  *)
NeverAbandoned ==
    main = "returned" => engine = "stopped" \/ start = "returned"

(* After Run and ListenAndServe are done, no registry goroutine is left    *)
(* and no service can be found, other than through the gaps of Stop (see   *)
(* LeftBehind in GrpcServer).                                              *)
RunCleans ==
    main = "returned" /\ start = "returned" =>
        \/ keeper \in {"none", "gone"} /\ registered \subseteq stuck \cup late
        \/ early

(* The unbuffered ch: the goroutine that called Start hangs on it for ever *)
(* only if a signal was taken before its error was.                        *)
HangsOnlyAfterSignal ==
    reporter = "sending" /\ main # "select" => signalled /\ ~out

(* A signal, or the end of ListenAndServe, makes Run return if no RPC      *)
(* holds up a graceful stop and nobody else calls Stop, which can take the *)
(* one answer of the registry goroutine from the Stop of Run.              *)
Alone == \A p \in Stopper \ {Runner} : stop[p] = "idle"
RunReturns ==
    []Alone /\ CallsEnd =>
        (signalled \/ start = "returned" ~> main = "returned")

(* "Wait for interrupt signal to gracefully runAndClose the server with a  *)
(* timeout of 5 seconds" (server.go:261): once the signal came Run returns,*)
(* also while an RPC runs.  The code passes the timeout to Stop, which     *)
(* drops its context: an RPC that goes on keeps Run from returning.        *)
ReturnsInTime == []Alone => (signalled ~> main = "returned")

(* What is left when Run is done: no server, no registration and no        *)
(* goroutine, except in the ways named above.                              *)
RunSound == NeverAbandoned /\ RunCleans /\ HangsOnlyAfterSignal
=============================================================================
