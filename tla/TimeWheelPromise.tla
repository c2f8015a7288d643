-------------------------- MODULE TimeWheelPromise --------------------------
(***************************************************************************)
(* The timing wheel of pkg/gds/timewheel.go together with what its caller  *)
(* was last promised for each id: which call was answered with nil, and    *)
(* how many ticks it asked for.  A tick records, next to every task it     *)
(* hands to doTasks, the promise that stood for its id.                    *)
(***************************************************************************)
EXTENDS TimeWheel

VARIABLES promise,   \* promise[k]: the last call for id k and the ticks left
          honoured   \* the promises of the tasks the last tick fired

pvars == <<vars, promise, honoured>>

Call == {"none", "add", "readd", "reset", "removed", "fired"}

PInit == /\ Init
         /\ promise = [k \in Key |-> [call |-> "none", left |-> 0]]
         /\ honoured = {}

Standing(k) == promise[k].call \in {"add", "readd", "reset"}

(* The caller is promised the delay it asks for, at least one interval.    *)
Promised(k, call, d) ==
    /\ promise' = [promise EXCEPT ![k] =
           [call |-> call, left |-> Steps(AtLeastInterval(d))]]
    /\ honoured' = {}

PAddTimer(k, d, t) ==
    /\ AddTimer(k, d, t)
    /\ Promised(k, IF Standing(k) THEN "readd" ELSE "add", d)

PResetTask(k, d) == Standing(k) /\ ResetTask(k, d) /\ Promised(k, "reset", d)

(* RemoveTask also returns nil when the id is not indexed.                 *)
PRemoveTask(k) ==
    /\ Standing(k) /\ Accepting
    /\ \/ RemoveTask(k)
       \/ timers[k] = NoEntry /\ UNCHANGED vars
    /\ promise' = [promise EXCEPT ![k] = [call |-> "removed", left |-> 0]]
    /\ honoured' = {}

PTick ==
    /\ Tick
    /\ LET out == {f.taskID : f \in fired'} IN
       /\ promise' = [k \in Key |->
              IF k \in out THEN [call |-> "fired", left |-> 0]
              ELSE IF Standing(k) THEN [promise[k] EXCEPT !.left = @ - 1]
              ELSE promise[k]]
       /\ honoured' = {promise[k] : k \in out}

PStop == Stop /\ honoured' = {} /\ UNCHANGED promise
PExit == Exit /\ honoured' = {} /\ UNCHANGED promise

PNext ==
    \/ \E k \in Key, d \in Delay, t \in Data : PAddTimer(k, d, t)
    \/ \E k \in Key, d \in Delay : PResetTask(k, d)
    \/ \E k \in Key : PRemoveTask(k)
    \/ PTick \/ PStop \/ PExit

PSpec == PInit /\ [][PNext]_pvars

-----------------------------------------------------------------------------
(* A task removed by RemoveTask is not run any more: TestMoveAndRemoveTask *)
(* (timewheel_test.go:177) expects no callback after a reset and a remove. *)
RemovedNeverFires == \A p \in honoured : p.call # "removed"

(* "ResetTask reset timer by the given key to the given delay"             *)
(* (timewheel.go:153) and "AddTimer add a timer task, if task id exists,   *)
(* do reset operator" (timewheel.go:137): a task fires at the delay given  *)
(* to the last of these calls.                                             *)
ResetToGivenDelay ==
    \A p \in honoured : p.call \in {"reset", "readd"} => p.left = 1
=============================================================================
