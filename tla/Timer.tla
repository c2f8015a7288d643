-------------------------------- MODULE Timer --------------------------------
(***************************************************************************)
(* What a timer service promises its callers: a timer set for n ticks      *)
(* fires at the n-th tick after that, with its data, and then is gone; a   *)
(* cancelled timer never fires.  The specification the timing wheel of     *)
(* pkg/gds/timewheel.go is measured against.                               *)
(***************************************************************************)
EXTENDS Integers

CONSTANTS Key, Data, Idle    \* Idle: a timer that is not set

VARIABLES timer,   \* timer[k]: ticks left and data, or Idle
          out,     \* the timers that fired at the last step
          running

TInit == timer = [k \in Key |-> Idle] /\ out = {} /\ running = TRUE

Set(k) ==
    /\ running /\ timer[k] = Idle /\ timer'[k] # Idle
    /\ timer'[k].left \in Nat \ {0} /\ timer'[k].task \in Data
    /\ timer' = [timer EXCEPT ![k] = [left |-> timer'[k].left,
                                     task |-> timer'[k].task]]
    /\ out' = {} /\ UNCHANGED running

Cancel(k) ==
    /\ running /\ timer[k] # Idle
    /\ timer' = [timer EXCEPT ![k] = Idle]
    /\ out' = {} /\ UNCHANGED running

Expiring == {k \in Key : timer[k] # Idle /\ timer[k].left = 1}

Advance ==
    /\ running
    /\ timer' = [k \in Key |-> IF timer[k] = Idle \/ k \in Expiring THEN Idle
                               ELSE [timer[k] EXCEPT !.left = @ - 1]]
    /\ out' = {[taskID |-> k, task |-> timer[k].task] : k \in Expiring}
    /\ UNCHANGED running

(* A step that only ends the report of what fired.                         *)
Settle == out' = {} /\ UNCHANGED <<timer, running>>

Halt == running /\ running' = FALSE /\ out' = {} /\ UNCHANGED timer

TNext ==
    \/ \E k \in Key : Set(k)
    \/ \E k \in Key : Cancel(k)
    \/ Advance
    \/ Settle
    \/ Halt

TVars == <<timer, out, running>>
TSpec == TInit /\ [][TNext]_TVars
=============================================================================
