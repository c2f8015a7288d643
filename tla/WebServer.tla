----------------------------- MODULE WebServer -----------------------------
(***************************************************************************)
(* web/server.go: Run starts the server in a goroutine and waits for a     *)
(* signal or for the end of Start; Stop may also be called by others (an   *)
(* App, a test) at any time.                                               *)
(*                                                                         *)
(* External, net/http: Serve closes its listener when it returns, returns  *)
(* ErrServerClosed at once when the server was shut down, before or while  *)
(* it serves, and ServeTLS fails on a bad certificate before it takes the  *)
(* listener; Close and Shutdown close the listener of Serve; Shutdown then *)
(* waits for the requests until its context ends, Close cuts their         *)
(* connections, and their handlers run on.                                 *)
(***************************************************************************)
EXTENDS Integers

CONSTANT MaxRequest   \* bound of the requests

ASSUME RequestBound == MaxRequest \in Nat \ {0}

VARIABLES config,    \* [graceful, tls, cert]: gracefulStop, TLS, and whether its files load
          listener,  \* opts.listener
          shut,      \* the http.Server was shut down
          starter,   \* where the goroutine that calls Start is
          closed,    \* ch is closed
          quit,      \* a signal waits in quit
          stopper,   \* stopper[p]: where Run's, or another's, call of Stop is
          runner,    \* where Run is
          result,    \* what Run returns
          active,    \* the requests being handled
          served,    \* the requests so far
          late,      \* the 5 seconds of a graceful stop ended
          released   \* the middlewares were shut down

webServerVars == <<config, listener, shut, starter, closed, quit, stopper, runner, result,
                   active, served, late, released>>

WebServerInit ==
    /\ config \in [graceful : BOOLEAN, tls : BOOLEAN, cert : BOOLEAN]
    /\ listener = "none" /\ shut = FALSE
    /\ starter = "listen" /\ closed = FALSE /\ quit = FALSE
    /\ stopper = [p \in {"run", "other"} |-> "idle"]
    /\ runner = "select" /\ result = "none"
    /\ active = 0 /\ served = 0 /\ late = FALSE /\ released = FALSE

-----------------------------------------------------------------------------
(* The goroutine: ListenAndServe, and what Run does with its error.        *)
ListenAndServe ==
    /\ starter = "listen"
    /\ \/ listener' = "open" /\ starter' = "serve"
       \/ starter' = "send" /\ UNCHANGED listener
    /\ UNCHANGED <<config, shut, closed, quit, stopper, runner, result, active, served, late, released>>
Serve ==
    /\ starter = "serve"
    /\ IF config.tls /\ ~config.cert THEN starter' = "send" /\ UNCHANGED listener
       ELSE IF shut THEN starter' = "close" /\ listener' = "closed"
       ELSE starter' = "serving" /\ UNCHANGED listener
    /\ UNCHANGED <<config, shut, closed, quit, stopper, runner, result, active, served, late, released>>
(* Accept fails for another reason, or the server is shut down: Start      *)
(* returns the error, or nil for ErrServerClosed.                          *)
ServeEnds ==
    /\ starter = "serving"
    /\ starter' = IF shut THEN "close" ELSE "send"
    /\ listener' = "closed"
    /\ UNCHANGED <<config, shut, closed, quit, stopper, runner, result, active, served, late, released>>

\* Mutant: the goroutine does not close ch.
MutantCloseCh ==
    /\ starter = "close" /\ starter' = "gone"
    /\ UNCHANGED <<config, listener, shut, closed, quit, stopper, runner, result, active, served, late, released>>

CloseCh ==
    /\ starter = "close" /\ starter' = "gone" /\ closed' = TRUE
    /\ UNCHANGED <<config, listener, shut, quit, stopper, runner, result, active, served, late, released>>

Accepts ==
    /\ starter = "serving" /\ listener = "open" /\ served < MaxRequest
    /\ active' = active + 1 /\ served' = served + 1
    /\ UNCHANGED <<config, listener, shut, starter, closed, quit, stopper, runner, result, late, released>>
Finishes ==
    /\ active > 0 /\ active' = active - 1
    /\ UNCHANGED <<config, listener, shut, starter, closed, quit, stopper, runner, result, served, late, released>>

-----------------------------------------------------------------------------
(* Stop, in the steps of httpServerStop and HandlerManager.Shutdown.       *)

\* Mutant: a server that does not serve yet is not shut down.
MutantHttpServerStop(p) ==
    /\ stopper[p] = "begin"
    /\ shut' = (shut \/ starter = "serving")
    /\ listener' = IF starter = "serving" THEN "closed" ELSE listener
    /\ stopper' = [stopper EXCEPT ![p] = "wait"]
    /\ UNCHANGED <<config, starter, closed, quit, runner, result, active, served, late, released>>

httpServerStop(p) ==
    /\ stopper[p] = "begin"
    /\ shut' = TRUE
    /\ listener' = IF starter = "serving" THEN "closed" ELSE listener
    /\ stopper' = [stopper EXCEPT ![p] = "wait"]
    /\ UNCHANGED <<config, starter, closed, quit, runner, result, active, served, late, released>>

StopWaits(p) ==
    /\ stopper[p] = "wait"
    /\ \/ ~config.graceful /\ UNCHANGED late
       \/ config.graceful /\ active = 0 /\ UNCHANGED late
       \/ config.graceful /\ active > 0 /\ late' = TRUE
    /\ stopper' = [stopper EXCEPT ![p] = "release"]
    /\ UNCHANGED <<config, listener, shut, starter, closed, quit, runner, result, active, served, released>>
ShutdownHandlers(p) ==
    /\ stopper[p] = "release"
    /\ released' = TRUE
    /\ stopper' = [stopper EXCEPT ![p] = "done"]
    /\ UNCHANGED <<config, listener, shut, starter, closed, quit, runner, result, active, served, late>>
Stop ==
    /\ stopper["other"] = "idle"
    /\ stopper' = [stopper EXCEPT !["other"] = "begin"]
    /\ UNCHANGED <<config, listener, shut, starter, closed, quit, runner, result, active, served, late, released>>

-----------------------------------------------------------------------------
(* Run: the select, and the deferred quitFunc.                             *)
Signal ==
    /\ ~quit /\ quit' = TRUE
    /\ UNCHANGED <<config, listener, shut, starter, closed, stopper, runner, result, active, served, late, released>>
SelectQuit ==
    /\ runner = "select" /\ quit
    /\ quit' = FALSE /\ runner' = "stop" /\ result' = "nil"
    /\ stopper' = [stopper EXCEPT !["run"] = "begin"]
    /\ UNCHANGED <<config, listener, shut, starter, closed, active, served, late, released>>

SelectErr ==
    /\ runner = "select" /\ starter = "send"
    /\ starter' = "gone" /\ runner' = "stop" /\ result' = "error"
    /\ stopper' = [stopper EXCEPT !["run"] = "begin"]
    /\ UNCHANGED <<config, listener, shut, closed, quit, active, served, late, released>>
SelectClosed ==
    /\ runner = "select" /\ closed
    /\ runner' = "returned" /\ result' = "nil"
    /\ UNCHANGED <<config, listener, shut, starter, closed, quit, stopper, active, served, late, released>>
RunReturn ==
    /\ runner = "stop" /\ stopper["run"] = "done"
    /\ runner' = "returned"
    /\ UNCHANGED <<config, listener, shut, starter, closed, quit, stopper, result, active, served, late, released>>

WebGoroutines ==
    \/ ListenAndServe \/ Serve \/ (shut /\ ServeEnds) \/ CloseCh
    \/ SelectQuit \/ SelectErr \/ SelectClosed \/ RunReturn
    \/ \E p \in {"run", "other"} : httpServerStop(p) \/ StopWaits(p) \/ ShutdownHandlers(p)
WebServerNext == WebGoroutines \/ ServeEnds \/ Accepts \/ Finishes \/ Stop \/ Signal

-----------------------------------------------------------------------------
(* When Run has returned no request is being handled any more, unless the  *)
(* server does not stop gracefully, the five seconds ran out, or another   *)
(* called Stop: then Start ends as soon as Stop begins, and Run with it,   *)
(* while Stop still waits for the requests.                                *)
Drained ==
    runner = "returned" /\ config.graceful /\ ~late /\ stopper["other"] = "idle" =>
        active = 0 /\ released

(* Once Run has returned nobody listens, as soon as Start is past calling  *)
(* Serve, whether Stop came before, between or after listening and         *)
(* serving.  A certificate that does not load is the exception: its        *)
(* listener stays open.                                                    *)
NoListenerLeft ==
    runner = "returned" /\ starter \notin {"listen", "serve"} =>
        listener # "open" \/ (config.tls /\ ~config.cert)

(* A signal or a Stop ends Run, and ends the goroutine too unless its      *)
(* error finds Run gone: nobody receives it from ch then.                  *)
WebRunReturns ==
    (quit \/ shut) ~> (runner = "returned" /\ starter \in {"gone", "send"})

(* When Run has returned, requests and listener are gone, but for the      *)
(* exceptions above.                                                       *)
WebStopped == Drained /\ NoListenerLeft
=============================================================================
