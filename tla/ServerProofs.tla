---------------------------- MODULE ServerProofs ----------------------------
(* Proofs about the two ways to run things until they are told to stop:     *)
(* Group.Run, for every finite set of actors, and the web server's Run, for *)
(* any number of requests.                                                  *)
EXTENDS ActorGroup, WebServer, FiniteSetTheorems, SequenceTheorems, TLAPS

-----------------------------------------------------------------------------
(* Group.Run: its channel, where it is, and the actors that have sent.      *)
Gone == {a \in Actor : actor[a] = "gone"}
GroupTypeOK ==
    /\ actor \in [Actor -> {"running", "sending", "gone"}]
    /\ errs \in Seq(Actor)
    /\ main \in {"first", "interrupt", "drain", "returned"}
    /\ interrupted \subseteq Actor
    /\ main \in {"drain", "returned"} => interrupted = Actor /\ i >= 1
    /\ main = "returned" => i = Cap

(* The first actor to send is at the head of the channel until Run takes    *)
(* its error.                                                               *)
FirstKept ==
    IF main = "first"
    THEN first = IF errs = <<>> THEN Nobody ELSE Head(errs)
    ELSE err = first /\ first \in Actor

GroupInv == GroupTypeOK /\ Accounted /\ FirstKept

-----------------------------------------------------------------------------
(* The web server: its calls of Stop and its goroutines.                    *)
WebTypeOK ==
    /\ stopper \in [{"run", "other"} -> {"idle", "begin", "wait", "release", "done"}]
    /\ starter \in {"listen", "serve", "serving", "send", "close", "gone"}
    /\ runner \in {"select", "stop", "returned"}
    /\ active \in Nat

(* Nothing is shut down unless Stop was called; ch is closed only then.     *)
ShutByStop ==
    /\ runner = "select" => stopper["run"] = "idle"
    /\ shut => \E p \in {"run", "other"} : stopper[p] \in {"wait", "release", "done"}
    /\ \A p \in {"run", "other"} : stopper[p] \in {"wait", "release", "done"} => shut
    /\ stopper["run"] = "done" => released
    /\ starter = "close" \/ closed => shut
    /\ closed => starter = "gone"
    /\ runner = "returned" => (closed /\ stopper["run"] = "idle") \/ stopper["run"] = "done"

(* The listener is open only from listening to the end of Serve, and not    *)
(* while a server that was shut down serves.                                *)
ListenerHeld ==
    /\ starter = "listen" => listener = "none"
    /\ starter = "serving" /\ shut => listener # "open"
    /\ starter \in {"send", "close", "gone"} =>
          listener # "open" \/ (config.tls /\ ~config.cert)

(* The graceful Stop of Run has waited for the requests.                    *)
Waited ==
    stopper["run"] \in {"release", "done"} /\ config.graceful /\ ~late
        /\ stopper["other"] = "idle" => active = 0

WebInv == WebTypeOK /\ ShutByStop /\ ListenerHeld /\ Waited

-----------------------------------------------------------------------------
(* The channel has room for every actor, of which there is at least one.    *)
LEMMA CapType == Cap \in Nat /\ Cap >= 1
<1>1. Cap \in Nat /\ Cap # 0
  BY GroupAssumption, FS_CardinalityType, FS_EmptySet DEF Cap
<1> QED BY <1>1

LEMMA GoneFinite ==
    /\ IsFiniteSet(Gone) /\ Cardinality(Gone) \in Nat
    /\ Cardinality(Gone) <= Cap
    /\ Cardinality(Gone) = Cap => Gone = Actor
<1>1. Gone \in SUBSET Actor
  BY DEF Gone
<1> QED BY <1>1, GroupAssumption, FS_Subset, FS_CardinalityType DEF Cap

(* What a receive takes and leaves.                                         *)
LEMMA ReceiveErrs ==
    ASSUME errs \in Seq(Actor), errs # <<>>
    PROVE  /\ Head(errs) \in Actor /\ Tail(errs) \in Seq(Actor)
           /\ Len(errs) \in Nat \ {0} /\ Len(Tail(errs)) = Len(errs) - 1
BY HeadTailProperties, LenProperties, EmptySeq

LEMMA GroupInitially == Init => GroupInv
<1> SUFFICES ASSUME Init PROVE GroupInv
  OBVIOUS
<1>1. Cardinality({a \in Actor : actor[a] = "gone"}) = 0
  <2>1. {a \in Actor : actor[a] = "gone"} = {}
    BY DEF Init
  <2> QED BY <2>1, FS_EmptySet
<1> QED BY <1>1, CapType, EmptySeq DEF Init, GroupInv, GroupTypeOK, Accounted, Received, FirstKept

LEMMA GroupInductive == GroupInv /\ [Next]_vars => GroupInv'
<1> SUFFICES ASSUME GroupInv, [Next]_vars PROVE GroupInv'
  OBVIOUS
<1> USE CapType, LenProperties DEF GroupInv
<1>0. Cap' = Cap
  BY DEF Cap
<1>1. ASSUME NEW a \in Actor, Execute(a) PROVE GroupInv'
  <2>1. Gone' = Gone
    BY <1>1 DEF Execute, Gone, GroupTypeOK
  <2>2. GroupTypeOK' /\ FirstKept'
    BY <1>0, <1>1 DEF Execute, GroupTypeOK, FirstKept
  <2>3. Accounted'
    BY <1>0, <1>1, <2>1 DEF Execute, Accounted, Received, Gone
  <2> QED BY <2>2, <2>3
<1>2. ASSUME NEW a \in Actor, Send(a) PROVE GroupInv'
  <2>1. Gone' = Gone \cup {a} /\ a \notin Gone
    BY <1>2 DEF Send, Gone, GroupTypeOK
  <2>2. Cardinality(Gone') = Cardinality(Gone) + 1
    BY <2>1, GoneFinite, FS_AddElement
  <2>3. /\ errs' \in Seq(Actor) /\ Len(errs') = Len(errs) + 1 /\ errs' # <<>>
        /\ Head(errs') = IF errs = <<>> THEN a ELSE Head(errs)
    BY <1>2 DEF Send, GroupTypeOK
  <2>4. GroupTypeOK'
    BY <1>0, <1>2, <2>3 DEF Send, GroupTypeOK
  <2>5. FirstKept'
    BY <1>2, <2>3, ReceiveErrs, GroupAssumption DEF Send, GroupTypeOK, FirstKept
  <2>6. Accounted'
    BY <1>0, <1>2, <2>2, <2>3, GoneFinite DEF Send, GroupTypeOK, Accounted, Received, Gone
  <2> QED BY <2>4, <2>5, <2>6
<1>3. ASSUME First PROVE GroupInv'
  <2>1. Gone' = Gone
    BY <1>3 DEF First, Gone
  <2>2. GroupTypeOK' /\ FirstKept'
    BY <1>0, <1>3, ReceiveErrs DEF First, GroupTypeOK, FirstKept
  <2>3. Accounted'
    BY <1>0, <1>3, <2>1, ReceiveErrs, GoneFinite DEF First, GroupTypeOK, Accounted, Received, Gone
  <2> QED BY <2>2, <2>3
<1>4. ASSUME NEW a \in Actor, Interrupt(a) PROVE GroupInv'
  <2>1. Gone' = Gone
    BY <1>4 DEF Interrupt, Gone
  <2> QED BY <1>0, <1>4, <2>1 DEF Interrupt, GroupTypeOK, FirstKept, Accounted, Received, Gone
<1>5. ASSUME StartDrain PROVE GroupInv'
  <2>1. Gone' = Gone
    BY <1>5 DEF StartDrain, Gone
  <2> QED BY <1>0, <1>5, <2>1 DEF StartDrain, GroupTypeOK, FirstKept, Accounted, Received, Gone
<1>6. ASSUME Drain PROVE GroupInv'
  <2>1. Gone' = Gone
    BY <1>6 DEF Drain, Gone
  <2>2. GroupTypeOK' /\ FirstKept'
    BY <1>0, <1>6, ReceiveErrs DEF Drain, GroupTypeOK, FirstKept, Accounted
  <2>3. Accounted'
    BY <1>0, <1>6, <2>1, ReceiveErrs, GoneFinite DEF Drain, GroupTypeOK, Accounted, Received, Gone
  <2> QED BY <2>2, <2>3
<1>7. ASSUME Return PROVE GroupInv'
  <2>1. Gone' = Gone
    BY <1>7 DEF Return, Gone
  <2> QED BY <1>0, <1>7, <2>1 DEF Return, GroupTypeOK, FirstKept, Accounted, Received, Gone
<1>8. CASE UNCHANGED vars
  <2>1. Gone' = Gone
    BY <1>8 DEF vars, Gone
  <2> QED BY <1>0, <1>8, <2>1 DEF vars, GroupTypeOK, FirstKept, Accounted, Received, Gone
<1> QED BY <1>1, <1>2, <1>3, <1>4, <1>5, <1>6, <1>7, <1>8 DEF Next

(* Run returns when it has received as many errors as there are actors, so  *)
(* all of them have sent, and each was interrupted; it returns the error of *)
(* the actor that sent first.                                               *)
THEOREM GroupWaitsForAll == Spec => []GroupResult
<1>1. Spec => []GroupInv
  BY GroupInitially, GroupInductive, PTL DEF Spec
<1>2. GroupInv => GroupResult
  <2> SUFFICES ASSUME GroupInv PROVE GroupResult
    OBVIOUS
  <2>1. AllExited
    <3> SUFFICES ASSUME main = "returned" PROVE interrupted = Actor /\ Gone = Actor
      BY DEF AllExited, Gone
    <3>1. Len(errs) + Cap = Cardinality(Gone) /\ Len(errs) \in Nat
      BY LenProperties DEF GroupInv, GroupTypeOK, Accounted, Received, Gone
    <3> QED BY <3>1, GoneFinite, CapType DEF GroupInv, GroupTypeOK
  <2>2. FirstResult
    BY DEF GroupInv, FirstKept, FirstResult
  <2> QED BY <2>1, <2>2 DEF GroupInv, GroupResult
<1> QED BY <1>1, <1>2, PTL

-----------------------------------------------------------------------------
WebServerSpec == WebServerInit /\ [][WebServerNext]_webServerVars

LEMMA WebInitially == WebServerInit => WebInv
BY DEF WebServerInit, WebInv, WebTypeOK, ShutByStop, ListenerHeld, Waited

LEMMA WebInductive == WebInv /\ [WebServerNext]_webServerVars => WebInv'
<1> SUFFICES ASSUME WebInv, [WebServerNext]_webServerVars PROVE WebInv'
  OBVIOUS
<1> USE DEF WebInv
<1>1. ASSUME ListenAndServe PROVE WebInv'
  <2>1. WebTypeOK' /\ ShutByStop'
    BY <1>1 DEF ListenAndServe, WebTypeOK, ShutByStop
  <2>2. ListenerHeld' /\ Waited'
    BY <1>1 DEF ListenAndServe, WebTypeOK, ShutByStop, ListenerHeld, Waited
  <2> QED BY <2>1, <2>2
<1>2. ASSUME Serve PROVE WebInv'
  <2>1. WebTypeOK' /\ ShutByStop'
    BY <1>2 DEF Serve, WebTypeOK, ShutByStop
  <2>2. ListenerHeld' /\ Waited'
    BY <1>2 DEF Serve, WebTypeOK, ShutByStop, ListenerHeld, Waited
  <2> QED BY <2>1, <2>2
<1>3. ASSUME ServeEnds PROVE WebInv'
  <2>1. WebTypeOK' /\ ShutByStop'
    BY <1>3 DEF ServeEnds, WebTypeOK, ShutByStop
  <2>2. ListenerHeld' /\ Waited'
    BY <1>3 DEF ServeEnds, WebTypeOK, ShutByStop, ListenerHeld, Waited
  <2> QED BY <2>1, <2>2
<1>4. ASSUME CloseCh PROVE WebInv'
  <2>1. WebTypeOK' /\ ShutByStop'
    BY <1>4 DEF CloseCh, WebTypeOK, ShutByStop
  <2>2. ListenerHeld' /\ Waited'
    BY <1>4 DEF CloseCh, WebTypeOK, ShutByStop, ListenerHeld, Waited
  <2> QED BY <2>1, <2>2
<1>5. ASSUME Accepts PROVE WebInv'
  <2>1. WebTypeOK' /\ ShutByStop'
    BY <1>5 DEF Accepts, WebTypeOK, ShutByStop
  <2>2. ListenerHeld' /\ Waited'
    BY <1>5 DEF Accepts, WebTypeOK, ShutByStop, ListenerHeld, Waited
  <2> QED BY <2>1, <2>2
<1>6. ASSUME Finishes PROVE WebInv'
  <2>1. WebTypeOK' /\ ShutByStop'
    BY <1>6 DEF Finishes, WebTypeOK, ShutByStop
  <2>2. ListenerHeld' /\ Waited'
    BY <1>6 DEF Finishes, WebTypeOK, ShutByStop, ListenerHeld, Waited
  <2> QED BY <2>1, <2>2
<1>7. ASSUME NEW p \in {"run", "other"}, httpServerStop(p) PROVE WebInv'
  <2>1. WebTypeOK' /\ ShutByStop'
    BY <1>7 DEF httpServerStop, WebTypeOK, ShutByStop
  <2>2. ListenerHeld' /\ Waited'
    BY <1>7 DEF httpServerStop, WebTypeOK, ShutByStop, ListenerHeld, Waited
  <2> QED BY <2>1, <2>2
<1>8. ASSUME NEW p \in {"run", "other"}, StopWaits(p) PROVE WebInv'
  <2>1. WebTypeOK' /\ ShutByStop'
    BY <1>8 DEF StopWaits, WebTypeOK, ShutByStop
  <2>2. ListenerHeld' /\ Waited'
    BY <1>8 DEF StopWaits, WebTypeOK, ShutByStop, ListenerHeld, Waited
  <2> QED BY <2>1, <2>2
<1>9. ASSUME NEW p \in {"run", "other"}, ShutdownHandlers(p) PROVE WebInv'
  <2>1. WebTypeOK' /\ ShutByStop'
    BY <1>9 DEF ShutdownHandlers, WebTypeOK, ShutByStop
  <2>2. ListenerHeld' /\ Waited'
    BY <1>9 DEF ShutdownHandlers, WebTypeOK, ShutByStop, ListenerHeld, Waited
  <2> QED BY <2>1, <2>2
<1>10. ASSUME Stop PROVE WebInv'
  <2>1. WebTypeOK' /\ ShutByStop'
    BY <1>10 DEF Stop, WebTypeOK, ShutByStop
  <2>2. ListenerHeld' /\ Waited'
    BY <1>10 DEF Stop, WebTypeOK, ShutByStop, ListenerHeld, Waited
  <2> QED BY <2>1, <2>2
<1>11. ASSUME Signal PROVE WebInv'
  <2>1. WebTypeOK' /\ ShutByStop'
    BY <1>11 DEF Signal, WebTypeOK, ShutByStop
  <2>2. ListenerHeld' /\ Waited'
    BY <1>11 DEF Signal, WebTypeOK, ShutByStop, ListenerHeld, Waited
  <2> QED BY <2>1, <2>2
<1>12. ASSUME SelectQuit PROVE WebInv'
  <2>1. WebTypeOK' /\ ShutByStop'
    BY <1>12 DEF SelectQuit, WebTypeOK, ShutByStop
  <2>2. ListenerHeld' /\ Waited'
    BY <1>12 DEF SelectQuit, WebTypeOK, ShutByStop, ListenerHeld, Waited
  <2> QED BY <2>1, <2>2
<1>13. ASSUME SelectErr PROVE WebInv'
  <2>1. WebTypeOK' /\ ShutByStop'
    BY <1>13 DEF SelectErr, WebTypeOK, ShutByStop
  <2>2. ListenerHeld' /\ Waited'
    BY <1>13 DEF SelectErr, WebTypeOK, ShutByStop, ListenerHeld, Waited
  <2> QED BY <2>1, <2>2
<1>14. ASSUME SelectClosed PROVE WebInv'
  <2>1. WebTypeOK' /\ ShutByStop'
    BY <1>14 DEF SelectClosed, WebTypeOK, ShutByStop
  <2>2. ListenerHeld' /\ Waited'
    BY <1>14 DEF SelectClosed, WebTypeOK, ShutByStop, ListenerHeld, Waited
  <2> QED BY <2>1, <2>2
<1>15. ASSUME RunReturn PROVE WebInv'
  <2>1. WebTypeOK' /\ ShutByStop'
    BY <1>15 DEF RunReturn, WebTypeOK, ShutByStop
  <2>2. ListenerHeld' /\ Waited'
    BY <1>15 DEF RunReturn, WebTypeOK, ShutByStop, ListenerHeld, Waited
  <2> QED BY <2>1, <2>2
<1>16. CASE UNCHANGED webServerVars
  BY <1>16 DEF webServerVars, WebTypeOK, ShutByStop, ListenerHeld, Waited
<1> QED BY <1>1, <1>2, <1>3, <1>4, <1>5, <1>6, <1>7, <1>8, <1>9, <1>10, <1>11,
         <1>12, <1>13, <1>14, <1>15, <1>16 DEF WebServerNext, WebGoroutines

(* When Run has returned, a graceful Stop has waited for all requests and   *)
(* shut the middlewares down, and nobody listens, whether Stop came before, *)
(* between or after listening and serving, but for the exceptions that      *)
(* Drained and NoListenerLeft name.                                         *)
THEOREM WebServerStops == WebServerSpec => []WebStopped
<1>1. WebServerSpec => []WebInv
  BY WebInitially, WebInductive, PTL DEF WebServerSpec
<1>2. WebInv => Drained
  BY DEF WebInv, WebTypeOK, ShutByStop, Waited, Drained
<1>3. WebInv => NoListenerLeft
  BY DEF WebInv, WebTypeOK, ShutByStop, ListenerHeld, NoListenerLeft
<1> QED BY <1>1, <1>2, <1>3, PTL DEF WebStopped
=============================================================================
