----------------------------- MODULE ActorGroup -----------------------------
(***************************************************************************)
(* Group.Run of app.go: every actor's execute runs in a goroutine of its   *)
(* own and sends its error to errs; Run takes the first one, interrupts    *)
(* all actors and takes the others.                                        *)
(***************************************************************************)
EXTENDS Integers, Sequences, FiniteSets

CONSTANTS Actor,   \* g.actors, at least one
          Error    \* the errors execute may return, nil among them

Nobody == "nobody"

ASSUME GroupAssumption ==
    IsFiniteSet(Actor) /\ Actor # {} /\ Nobody \notin Actor /\ Error # {}

VARIABLES actor,        \* actor[a]: where its goroutine is
          res,          \* res[a]: what its execute returned
          errs,         \* the buffered channel, as the actors that sent
          main,         \* where Run is
          err,          \* Run's err: the actor it came from
          interrupted,  \* the actors interrupted so far
          i,            \* the counter of the last loop
          first         \* history: the first actor to send

vars == <<actor, res, errs, main, err, interrupted, i, first>>

MutantCap == 1
Cap == Cardinality(Actor)

Init ==
    /\ actor = [a \in Actor |-> "running"]
    /\ res \in [Actor -> Error]
    /\ errs = <<>>
    /\ main = "first" /\ err = Nobody /\ interrupted = {} /\ i = 0
    /\ first = Nobody

(* execute returns, and its goroutine sends: two steps, so the first to    *)
(* return need not be the first to send.                                   *)
Execute(a) ==
    /\ actor[a] = "running"
    /\ actor' = [actor EXCEPT ![a] = "sending"]
    /\ UNCHANGED <<res, errs, main, err, interrupted, i, first>>

Send(a) ==
    /\ actor[a] = "sending" /\ Len(errs) < Cap
    /\ actor' = [actor EXCEPT ![a] = "gone"]
    /\ errs' = Append(errs, a)
    /\ first' = IF first = Nobody THEN a ELSE first
    /\ UNCHANGED <<res, main, err, interrupted, i>>

First ==
    /\ main = "first" /\ errs # <<>>
    /\ err' = Head(errs) /\ errs' = Tail(errs)
    /\ main' = "interrupt"
    /\ UNCHANGED <<actor, res, interrupted, i, first>>

Interrupt(a) ==
    /\ main = "interrupt" /\ a \notin interrupted
    /\ interrupted' = interrupted \cup {a}
    /\ UNCHANGED <<actor, res, errs, main, err, i, first>>

StartDrain ==
    /\ main = "interrupt" /\ interrupted = Actor
    /\ main' = "drain" /\ i' = 1
    /\ UNCHANGED <<actor, res, errs, err, interrupted, first>>

MutantDrain ==
    /\ main = "drain" /\ i < Cap /\ errs # <<>>
    /\ err' = Head(errs) /\ errs' = Tail(errs) /\ i' = i + 1
    /\ UNCHANGED <<actor, res, main, interrupted, first>>

Drain ==
    /\ main = "drain" /\ i < Cap /\ errs # <<>>
    /\ errs' = Tail(errs) /\ i' = i + 1
    /\ UNCHANGED <<actor, res, main, err, interrupted, first>>

Return ==
    /\ main = "drain" /\ i >= Cap
    /\ main' = "returned"
    /\ UNCHANGED <<actor, res, errs, err, interrupted, i, first>>

Next ==
    \/ \E a \in Actor : Execute(a) \/ Send(a) \/ Interrupt(a)
    \/ First \/ StartDrain \/ Drain \/ Return

(* An interrupted actor returns ("if interrupt is invoked, execute should  *)
(* return", app.go:174); an interrupt function itself need not.            *)
Fairness ==
    /\ WF_vars(First \/ StartDrain \/ Drain \/ Return)
    /\ \A a \in Actor : WF_vars(Send(a)) /\
                        WF_vars(a \in interrupted /\ Execute(a))

Spec == Init /\ [][Next]_vars /\ Fairness

-----------------------------------------------------------------------------
(* Every error is sent once and received once: what was sent is in the     *)
(* channel or was taken by the first receive or by the loop that follows,  *)
(* so its count, which starts at 1, ends the loop neither early nor never. *)
Received == IF main = "first" THEN 0 ELSE IF main = "interrupt" THEN 1 ELSE i
Accounted ==
    /\ i \in 0 .. Cap /\ err \in Actor \cup {Nobody}
    /\ Len(errs) + Received = Cardinality({a \in Actor : actor[a] = "gone"})

(* "Run only returns when all actors have exited" (app.go:186), and every  *)
(* one of them was interrupted.                                            *)
AllExited ==
    main = "returned" =>
        interrupted = Actor /\ \A a \in Actor : actor[a] = "gone"

(* "Run returns the error returned by the first exiting actor"             *)
(* (app.go:187): the first to send, whatever arrives while the others are  *)
(* interrupted and drained.                                                *)
FirstResult == main = "returned" => res[err] = res[first]

(* An actor that has returned is never kept waiting by Run: errs has room  *)
(* for all of them, so one that is still interrupting others, perhaps for  *)
(* ever, holds up nobody.                                                  *)
NobodyBlocked == \A a \in Actor : actor[a] = "sending" ~> actor[a] = "gone"

(* Once an actor has returned, Run returns, unless it waits for ever for   *)
(* an interrupt function.                                                  *)
InInterrupt == main = "interrupt" /\ interrupted # Actor
RunReturns ==
    \/ (\E a \in Actor : actor[a] # "running") ~> main = "returned"
    \/ <>[]InInterrupt

(* Run returns the first error after all actors, each counted once.        *)
GroupResult == Accounted /\ AllExited /\ FirstResult

(* Neither the actors nor Run wait for each other for ever.                *)
GroupReturns == NobodyBlocked /\ RunReturns
=============================================================================
