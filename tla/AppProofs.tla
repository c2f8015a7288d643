----------------------------- MODULE AppProofs -----------------------------
(* Proofs about AppRun, for every finite set of servers: Run stops servers  *)
(* only for a cause and leaves none running, its WaitGroup never goes below *)
(* zero, and it returns the right error.                                    *)
EXTENDS AppRun, FiniteSetTheorems, TLAPS

(* The WaitGroup counts the goroutines that have not begun; only servers    *)
(* that the loop has reached have goroutines.                               *)
Ready == {s \in Server : startOf[s] = "ready"}
Spawned ==
    /\ wg = Cardinality(Ready)
    /\ \A s \in todo : startOf[s] = "none"
    /\ \A s \in Server : s \notin servers => startOf[s] = "none" /\ stopOf[s] = "none"

(* The context of the group ends with a.ctx or with an error of a server;   *)
(* a server is stopped after that.                                          *)
EndedForCause ==
    /\ ctx # "live" => appCtx # "live" \/ serverErr # NoErr
    /\ \A s \in Server : stopOf[s] \in {"stopping", "done"} => ctx # "live"

(* Of an App, the group keeps the first error of a server and no other.     *)
AppError ==
    /\ ~mini => firstErr = serverErr
    /\ run = "returned" => output = PassedOn(firstErr)

(* Of a MiniApp whose servers do not fail, the group keeps why a.ctx ended: *)
(* a server that reports the end of its context reports that of a.ctx.      *)
MiniError ==
    /\ serverErr \in Cause => serverErr = appCtx
    /\ firstErr # NoErr => ctx # "live"
    /\ serverErr # NoErr => firstErr # NoErr
    /\ mini /\ quitter = "done" => firstErr # NoErr
    /\ run = "returned" => quitter = "done"
    /\ mini /\ serverErr \in {NoErr, appCtx} =>
          /\ firstErr \in {NoErr, appCtx}
          /\ ctx # "live" /\ firstErr = NoErr => ctx = appCtx

AppInv == TypeOK /\ Spawned /\ EndedForCause /\ NothingLeftRunning /\ AppError /\ MiniError

-----------------------------------------------------------------------------
(* The goroutines that have not begun are finitely many: there are finitely *)
(* many servers.                                                            *)
LEMMA ReadyFinite == IsFiniteSet(Ready) /\ Cardinality(Ready) \in Nat
<1>1. Ready \in SUBSET Server
  BY DEF Ready
<1> QED BY <1>1, ServerAssumption, FS_Subset, FS_CardinalityType

LEMMA AppInitially == AppInit => AppInv
<1> SUFFICES ASSUME AppInit PROVE AppInv
  OBVIOUS
<1>1. TypeOK
  BY DEF AppInit, TypeOK, Cause, RunError, NoErr
<1>2. Spawned
  <2>1. Ready = {}
    BY DEF AppInit, Ready
  <2> QED BY <2>1, FS_EmptySet DEF AppInit, Spawned
<1>3. EndedForCause /\ NothingLeftRunning /\ AppError /\ MiniError
  BY DEF AppInit, EndedForCause, NothingLeftRunning, AppError, MiniError, Cause, NoErr
<1> QED BY <1>1, <1>2, <1>3 DEF AppInv

(* What a server returns is kept by the group only if it is the first       *)
(* error: the error parts of the invariant survive any return of a server   *)
(* that has not returned before.                                            *)
LEMMA ServerReports ==
    ASSUME AppInv, NEW r \in RunError \cup {NoErr}, r \in Cause => r = appCtx,
           ReportServer(r), run # "returned",
           UNCHANGED <<mini, run, quitter, appCtx, output>>
    PROVE  /\ ctx \in Cause \cup {"live"} => ctx' \in Cause \cup {"live"}
           /\ {firstErr', serverErr'} \subseteq RunError \cup {NoErr}
           /\ ctx # "live" => ctx' # "live"
           /\ ctx' # "live" => appCtx # "live" \/ serverErr' # NoErr
           /\ AppError' /\ MiniError'
<1> USE DEF AppInv, TypeOK, ReportServer, Report, RunError, Cause, NoErr
<1>1. /\ ctx \in Cause \cup {"live"} => ctx' \in Cause \cup {"live"}
      /\ {firstErr', serverErr'} \subseteq RunError \cup {NoErr}
      /\ ctx # "live" => ctx' # "live"
  OBVIOUS
<1>2. ctx' # "live" => appCtx # "live" \/ serverErr' # NoErr
  BY DEF EndedForCause
<1>3. AppError'
  BY DEF AppError
<1>4. MiniError'
  <2>1. CASE r = NoErr
    BY <2>1 DEF MiniError
  <2>2. CASE r = "failed"
    BY <2>2 DEF MiniError
  <2>3. CASE r \in Cause
    BY <2>3 DEF MiniError
  <2> QED BY <2>1, <2>2, <2>3
<1> QED BY <1>1, <1>2, <1>3, <1>4

(* A step that leaves the group's results alone.                            *)
LEMMA ErrorsKept ==
    ASSUME AppInv,
           UNCHANGED <<mini, run, quitter, appCtx, ctx, firstErr, output, serverErr>>
    PROVE  AppError' /\ MiniError'
BY DEF AppInv, AppError, MiniError, PassedOn

LEMMA AppInductive == AppInv /\ [AppNext]_appVars => AppInv'
<1> SUFFICES ASSUME AppInv, [AppNext]_appVars PROVE AppInv'
  OBVIOUS
<1> USE DEF AppInv
<1>1. ASSUME NEW s \in Server, Spawn(s) PROVE AppInv'
  <2>1. TypeOK'
    BY <1>1 DEF Spawn, TypeOK, appConfig
  <2>2. Spawned'
    <3>1. s \notin Ready /\ Ready' = Ready \cup {s}
      BY <1>1 DEF Spawn, TypeOK, Spawned, Ready
    <3>2. wg' = Cardinality(Ready')
      BY <1>1, <3>1, ReadyFinite, FS_AddElement DEF Spawn, Spawned
    <3> QED BY <1>1, <3>2 DEF Spawn, TypeOK, Spawned, appConfig
  <2>3. EndedForCause' /\ NothingLeftRunning'
    BY <1>1 DEF Spawn, TypeOK, appConfig, EndedForCause, NothingLeftRunning
  <2> QED BY <1>1, <2>1, <2>2, <2>3, ErrorsKept DEF Spawn, appConfig
<1>2. ASSUME NEW s \in Server, Begin(s) PROVE AppInv'
  <2>1. s \in Ready /\ Ready' = Ready \ {s}
    BY <1>2 DEF Begin, TypeOK, Ready
  <2>2. wg' = Cardinality(Ready') /\ wg' \in Nat
    <3>1. wg - 1 = Cardinality(Ready \ {s}) /\ IsFiniteSet(Ready \ {s})
      BY <2>1, ReadyFinite, FS_RemoveElement DEF Spawned
    <3> QED BY <1>2, <2>1, <3>1, FS_CardinalityType DEF Begin
  <2>3. TypeOK'
    BY <1>2, <2>2 DEF Begin, TypeOK, appConfig
  <2>4. Spawned'
    BY <1>2, <2>2 DEF Begin, TypeOK, Spawned, appConfig
  <2>5. EndedForCause' /\ NothingLeftRunning'
    BY <1>2 DEF Begin, TypeOK, appConfig, EndedForCause, NothingLeftRunning
  <2> QED BY <1>2, <2>3, <2>4, <2>5, ErrorsKept DEF Begin, appConfig
<1>3. ASSUME NEW s \in Server, NEW r \in RunError \cup {NoErr}, StartReturns(s, r)
      PROVE  AppInv'
  <2>1. run # "returned"
    BY <1>3 DEF StartReturns, TypeOK, Spawned, NothingLeftRunning
  <2>2. /\ ctx' \in Cause \cup {"live"} /\ {firstErr', serverErr'} \subseteq RunError \cup {NoErr}
        /\ ctx # "live" => ctx' # "live"
        /\ ctx' # "live" => appCtx # "live" \/ serverErr' # NoErr
        /\ AppError' /\ MiniError'
    BY <1>3, <2>1, ServerReports DEF StartReturns, appConfig, TypeOK
  <2>3. TypeOK'
    BY <1>3, <2>2 DEF StartReturns, TypeOK, appConfig
  <2>4. Spawned'
    <3>1. Ready' = Ready
      BY <1>3 DEF StartReturns, TypeOK, Ready
    <3> QED BY <1>3, <3>1 DEF StartReturns, TypeOK, Spawned, appConfig
  <2>5. EndedForCause' /\ NothingLeftRunning'
    BY <1>3, <2>1, <2>2 DEF StartReturns, TypeOK, appConfig, EndedForCause, NothingLeftRunning
  <2> QED BY <2>2, <2>3, <2>4, <2>5
<1>4. ASSUME NEW s \in Server, StopCall(s) PROVE AppInv'
  <2>1. Ready' = Ready
    BY <1>4 DEF StopCall, Ready
  <2>2. TypeOK' /\ Spawned'
    BY <1>4, <2>1 DEF StopCall, TypeOK, Spawned, appConfig
  <2>3. EndedForCause' /\ NothingLeftRunning'
    BY <1>4 DEF StopCall, TypeOK, appConfig, EndedForCause, NothingLeftRunning, Spawned
  <2> QED BY <1>4, <2>2, <2>3, ErrorsKept DEF StopCall, appConfig
<1>5. ASSUME NEW s \in Server, NEW r \in RunError \cup {NoErr}, StopReturns(s, r)
      PROVE  AppInv'
  <2>1. run # "returned" /\ r \notin Cause
    BY <1>5 DEF StopReturns, TypeOK, Spawned, NothingLeftRunning, Cause, NoErr
  <2>2. /\ ctx' \in Cause \cup {"live"} /\ {firstErr', serverErr'} \subseteq RunError \cup {NoErr}
        /\ ctx # "live" => ctx' # "live"
        /\ ctx' # "live" => appCtx # "live" \/ serverErr' # NoErr
        /\ AppError' /\ MiniError'
    BY <1>5, <2>1, ServerReports DEF StopReturns, appConfig, TypeOK
  <2>3. TypeOK' /\ Spawned'
    <3>1. Ready' = Ready
      BY <1>5 DEF StopReturns, Ready
    <3> QED BY <1>5, <2>2, <3>1 DEF StopReturns, TypeOK, Spawned, appConfig
  <2>4. EndedForCause' /\ NothingLeftRunning'
    BY <1>5, <2>1, <2>2 DEF StopReturns, TypeOK, appConfig, EndedForCause, NothingLeftRunning
  <2> QED BY <2>2, <2>3, <2>4
<1>6. ASSUME SpawnQuitter PROVE AppInv'
  <2>1. Ready' = Ready
    BY <1>6 DEF SpawnQuitter, Ready
  <2> QED BY <1>6, <2>1 DEF SpawnQuitter, TypeOK, Spawned, EndedForCause, NothingLeftRunning,
               AppError, MiniError, PassedOn, appConfig
<1>7. ASSUME QuitDone PROVE AppInv'
  <2>1. Ready' = Ready
    BY <1>7 DEF QuitDone, Ready
  <2>2. TypeOK' /\ Spawned' /\ EndedForCause' /\ NothingLeftRunning'
    BY <1>7, <2>1 DEF QuitDone, Report, QuitError, TypeOK, Spawned, EndedForCause,
         NothingLeftRunning, appConfig, RunError, Cause, NoErr
  <2>3. AppError' /\ MiniError'
    BY <1>7 DEF QuitDone, Report, QuitError, TypeOK, AppError, MiniError, PassedOn, appConfig,
         RunError, Cause, NoErr
  <2> QED BY <2>2, <2>3
<1>8. ASSUME QuitSignal PROVE AppInv'
  <2>1. Ready' = Ready
    BY <1>8 DEF QuitSignal, Ready
  <2> QED BY <1>8, <2>1 DEF QuitSignal, CancelApp, TypeOK, Spawned, EndedForCause,
               NothingLeftRunning, AppError, MiniError, PassedOn, appConfig, RunError, Cause, NoErr
<1>9. ASSUME AppReturn PROVE AppInv'
  <2>1. Ready' = Ready
    BY <1>9 DEF AppReturn, Ready
  <2> QED BY <1>9, <2>1 DEF AppReturn, TypeOK, Spawned, EndedForCause, NothingLeftRunning,
               AppError, MiniError, PassedOn, appConfig, RunError, Cause, NoErr
<1>10. ASSUME AppSignal PROVE AppInv'
  <2>1. Ready' = Ready
    BY <1>10 DEF AppSignal, Ready
  <2> QED BY <1>10, <2>1, ErrorsKept DEF AppSignal, TypeOK, Spawned, EndedForCause,
               NothingLeftRunning, appConfig
(* a.ctx ends: serverErr and firstErr did not wait for it.                  *)
<1>11. ASSUME AppStop \/ Timeout PROVE AppInv'
  <2>1. Ready' = Ready
    BY <1>11 DEF AppStop, Timeout, Ready
  <2>2. TypeOK' /\ Spawned' /\ EndedForCause' /\ NothingLeftRunning' /\ AppError'
    BY <1>11, <2>1 DEF AppStop, Timeout, CancelApp, TypeOK, Spawned, EndedForCause,
         NothingLeftRunning, AppError, PassedOn, appConfig, Cause
  <2>3. MiniError'
    BY <1>11 DEF AppStop, Timeout, CancelApp, TypeOK, MiniError, EndedForCause, appConfig, RunError,
         Cause, NoErr
  <2> QED BY <2>2, <2>3
<1>12. ASSUME Propagate PROVE AppInv'
  <2>1. Ready' = Ready
    BY <1>12 DEF Propagate, Ready
  <2> QED BY <1>12, <2>1 DEF Propagate, TypeOK, Spawned, EndedForCause, NothingLeftRunning,
               AppError, MiniError, PassedOn, appConfig, RunError, Cause, NoErr
<1>13. CASE UNCHANGED appVars
  <2>1. Ready' = Ready
    BY <1>13 DEF appVars, Ready
  <2> QED BY <1>13, <2>1, ErrorsKept DEF appVars, TypeOK, Spawned, EndedForCause, NothingLeftRunning
<1> QED BY <1>1, <1>2, <1>3, <1>4, <1>5, <1>6, <1>7, <1>8, <1>9, <1>10, <1>11, <1>12, <1>13
         DEF AppNext, MainStep, QuitStep

-----------------------------------------------------------------------------
LEMMA AppInvariant == AppSpec => []AppInv
BY AppInitially, AppInductive, PTL DEF AppSpec

(* Run stops a server only if a.ctx ended or a server failed; when it       *)
(* returns every server has been started and stopped to the end; the        *)
(* counter of the WaitGroup stays within the natural numbers.               *)
THEOREM RunIsOrderly == AppSpec => []Orderly
<1>1. AppInv => Orderly
  BY DEF AppInv, Orderly, StoppedForCause, EndedForCause
<1> QED BY <1>1, AppInvariant, PTL

(* App.Run returns the first error of a server, nil for context.Canceled; a *)
(* MiniApp whose servers do not fail returns DeadlineExceeded after its     *)
(* timeout and nil after a Stop.                                            *)
THEOREM RunReturnsItsError == AppSpec => []Outcome
<1>1. AppInv => FirstServerError
  BY DEF AppInv, FirstServerError, AppError, PassedOn
<1>2. AppInv => MiniOutcome
  BY DEF AppInv, TypeOK, MiniOutcome, AppError, MiniError, EndedForCause, PassedOn, RunError, Cause, NoErr
<1> QED BY <1>1, <1>2, AppInvariant, PTL DEF Outcome
=============================================================================
