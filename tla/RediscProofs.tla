---------------------------- MODULE RediscProofs ----------------------------
(* Proofs about Redisc, for every set of callers and values and either kind *)
(* of receiver: the two levels agree between calls, and one Getter runs.    *)
EXTENDS Redisc, FiniteSetTheorems, TLAPS

At == {"idle", "remote", "fill", "lead", "follow", "getter", "set", "local", "mismatch"} \cup Mode
Op == {"none", "get", "group", "set", "del"}
Call == [at : At, op : Op, skip : Skip, getter : BOOLEAN, val : Val \cup {NoVal}]

(* A call that is to store a value has one; Del has one step left.          *)
Calls ==
    /\ pc \in [Caller -> Call]
    /\ \A c \in Caller : pc[c].op = "del" => pc[c].at = "remote"
    /\ \A c \in Caller : pc[c].at \in {"fill", "set", "local"} \cup Mode => pc[c].val \in Val

(* The one call that runs the function of the flight.                       *)
Leading(c) == pc[c].at \in {"lead", "getter", "set"} \/ (pc[c].op = "group" /\ pc[c].at = "local")
Flights == \A c \in Caller : Leading(c) => flight = c

(* What a call that no other call disturbed knows of the levels: what it    *)
(* read from redis or wrote to it is there, what it deleted is not.         *)
Fresh(c) ==
    /\ pc[c].at = "fill" => redis = pc[c].val
    /\ pc[c].at = "local" /\ UseRemote(c) => redis = pc[c].val
    /\ pc[c].op = "del" => local = NoItem

(* The levels differ, if not torn, only while a call is about to store in   *)
(* the local cache what it wrote to redis.                                  *)
Storing(c) == pc[c].at = "local" /\ UseLocal(c)
Levels ==
    /\ \A c \in Caller : c \notin dirty => Fresh(c)
    /\ ~torn /\ local # NoItem /\ local.val # redis => \E c \in Caller : Storing(c)

RediscInv == TypeOK /\ Calls /\ Flights /\ Levels

(* A step of c leaves the other calls alone, or ends those that follow it.  *)
Others(c) ==
    \A d \in Caller \ {c} : \/ pc'[d] = pc[d]
                            \/ pc[d].at = "follow" /\ pc'[d] = Idle

-----------------------------------------------------------------------------
(* How Goto, Return and Land change the calls.                              *)
LEMMA IdleCall == Idle \in Call /\ Idle.at = "idle" /\ Idle.op = "none"
BY DEF Idle, Call, At, Op, Skip

LEMMA GotoMoves ==
    ASSUME Calls, NEW c \in Caller, NEW at \in At, NEW v \in Val \cup {NoVal},
           Goto(c, at, v), pc[c].op # "del",
           at \in {"fill", "set", "local"} \cup Mode => v \in Val
    PROVE  /\ Calls' /\ Others(c)
           /\ pc'[c].at = at /\ pc'[c].val = v
           /\ pc'[c].op = pc[c].op /\ pc'[c].skip = pc[c].skip
<1>1. pc'[c] = [pc[c] EXCEPT !.at = at, !.val = v]
  BY DEF Goto, Calls
<1>2. pc'[c] \in Call /\ pc'[c].at = at /\ pc'[c].val = v
      /\ pc'[c].op = pc[c].op /\ pc'[c].skip = pc[c].skip
  BY <1>1 DEF Calls, Call
<1>3. \A d \in Caller \ {c} : pc'[d] = pc[d]
  BY DEF Goto, Calls
<1>4. pc' \in [Caller -> Call]
  BY <1>2, <1>3 DEF Goto, Calls
<1> QED BY <1>2, <1>3, <1>4 DEF Calls, Others

LEMMA ReturnMoves ==
    ASSUME Calls, NEW c \in Caller, NEW r, Return(c, r)
    PROVE  Calls' /\ Others(c) /\ pc'[c] = Idle
<1>1. pc'[c] = Idle /\ \A d \in Caller \ {c} : pc'[d] = pc[d]
  BY DEF Return, Calls
<1>2. pc' \in [Caller -> Call]
  BY <1>1, IdleCall DEF Return, Calls
<1> QED BY <1>1, <1>2, IdleCall DEF Calls, Others, Mode

LEMMA LandMoves ==
    ASSUME Calls, NEW c \in Caller, NEW r, Land(c, r)
    PROVE  /\ Calls' /\ Others(c) /\ pc'[c] = Idle
           /\ \A d \in Caller : pc'[d].at # "follow"
<1>1. pc'[c] = Idle /\ \A d \in Caller : pc'[d] = IF d \in Group(c) THEN Idle ELSE pc[d]
  BY DEF Land, Group
<1>2. pc' \in [Caller -> Call]
  BY <1>1, IdleCall DEF Land, Calls
<1> QED BY <1>1, <1>2, IdleCall DEF Calls, Others, Mode, Group

(* The entry of a call.                                                     *)
LEMMA CallEnters ==
    ASSUME Calls, NEW c \in Caller, NEW call \in Call,
           pc' = [pc EXCEPT ![c] = call],
           call.op = "del" => call.at = "remote",
           call.at \in {"fill", "set", "local"} \cup Mode => call.val \in Val
    PROVE  Calls' /\ Others(c) /\ pc'[c] = call
BY DEF Calls, Others

-----------------------------------------------------------------------------
(* The flight: a step that leaves it to the call that leads it, and the     *)
(* step of that call that ends it.                                          *)
LEMMA FlightKept ==
    ASSUME Flights, NEW c \in Caller, Others(c), UNCHANGED flight,
           Leading(c)' => Leading(c)
    PROVE  Flights'
BY IdleCall DEF Flights, Others, Leading

LEMMA FlightEnds ==
    ASSUME Flights, NEW c \in Caller, Others(c), Leading(c), ~Leading(c)'
    PROVE  Flights'
BY IdleCall DEF Flights, Others, Leading

LEMMA FollowersLed ==
    ASSUME TypeOK, NEW c \in Caller, Others(c), UNCHANGED flight,
           pc'[c].at # "follow"
    PROVE  \A d \in Caller : pc'[d].at = "follow" => flight' # NoVal
BY IdleCall DEF TypeOK, Others

-----------------------------------------------------------------------------
(* The levels: a step of c that changes neither, and one that may.          *)
LEMMA StoringKept ==
    ASSUME NEW c \in Caller, Others(c), ~Storing(c), \E d \in Caller : Storing(d)
    PROVE  \E d \in Caller : Storing(d)'
BY DEF Others, Storing, UseLocal

LEMMA QuietKeeps ==
    ASSUME Levels, NEW c \in Caller, Others(c), Quiet, UNCHANGED <<redis, local>>,
           ~Storing(c), c \notin dirty => Fresh(c)'
    PROVE  Levels'
<1>1. ASSUME NEW d \in Caller, d \notin dirty' PROVE Fresh(d)'
  <2>1. CASE pc'[d] = Idle
    BY <2>1, IdleCall DEF Fresh
  <2>2. CASE pc'[d] # Idle
    <3>1. d \notin dirty
      BY <1>1, <2>2 DEF Quiet, Returned
    <3>2. CASE d # c
      BY <2>2, <3>1, <3>2 DEF Others, Fresh, Levels, UseRemote
    <3> QED BY <3>1, <3>2
  <2> QED BY <2>1, <2>2
<1>2. ~torn' /\ local' # NoItem /\ local'.val # redis' => \E d \in Caller : Storing(d)'
  BY StoringKept DEF Levels, Quiet
<1> QED BY <1>1, <1>2 DEF Levels

LEMMA ChangeKeeps ==
    ASSUME NEW c \in Caller, NEW how, Others(c), Changed(c, how),
           c \notin dirty => Fresh(c)',
           ~torn' /\ local' # NoItem /\ local'.val # redis' => \E d \in Caller : Storing(d)'
    PROVE  Levels'
<1>1. ASSUME NEW d \in Caller, d \notin dirty' PROVE Fresh(d)'
  <2>1. CASE pc'[d] = Idle
    BY <2>1, IdleCall DEF Fresh
  <2>2. CASE pc'[d] # Idle
    <3>1. d \notin dirty \cup (Busy \ {c})
      BY <1>1, <2>2 DEF Changed, Returned
    <3>2. CASE d # c
      BY <2>2, <3>1, <3>2, IdleCall DEF Others, Busy
    <3> QED BY <3>1, <3>2
  <2> QED BY <2>1, <2>2
<1> QED BY <1>1 DEF Levels

(* The history variables stay within their states.                          *)
LEMMA TypeKept ==
    ASSUME TypeOK, NEW c \in Caller,
           redis' \in Val \cup {NoVal},
           local' \in [val : Val, form : {"plain", "encoded"}] \cup {NoItem},
           flight' \in Caller \cup {NoVal}, out' \subseteq Answer,
           \A d \in Caller : pc'[d].at = "follow" => flight' # NoVal,
           Quiet \/ \E how \in {"none", "torn"} : Changed(c, how)
    PROVE  TypeOK'
<1>1. dirty' \subseteq Busy'
  <2>1. dirty' \subseteq Caller
    BY DEF TypeOK, Quiet, Changed, Busy
  <2>2. \A d \in dirty' : pc'[d] # Idle
    BY <2>1 DEF Quiet, Changed, Returned
  <2> QED BY <2>1, <2>2 DEF Busy
<1>2. torn' \in BOOLEAN
  BY DEF TypeOK, Quiet, Changed
<1> QED BY <1>1, <1>2 DEF TypeOK

(* What is left to show of a step of c that changes no level.               *)
LEMMA QuietStep ==
    ASSUME RediscInv, NEW c \in Caller, Others(c), Quiet, UNCHANGED <<redis, local>>,
           ~Storing(c), c \notin dirty => Fresh(c)', Calls', Flights',
           flight' \in Caller \cup {NoVal}, out' \subseteq Answer,
           \A d \in Caller : pc'[d].at = "follow" => flight' # NoVal
    PROVE  RediscInv'
<1>1. Levels'
  BY QuietKeeps DEF RediscInv
<1>2. TypeOK'
  BY TypeKept DEF RediscInv, TypeOK
<1> QED BY <1>1, <1>2 DEF RediscInv

(* The three ways a quiet step of c goes on: at another place of its call,  *)
(* with its result, and with the result of the flight.                      *)
LEMMA QuietGoto ==
    ASSUME RediscInv, NEW c \in Caller, NEW at \in At, NEW v \in Val \cup {NoVal},
           Goto(c, at, v), Quiet, UNCHANGED <<redis, local>>,
           pc[c].op # "del", pc[c].at # "local",
           at \in {"fill", "set", "local"} \cup Mode => v \in Val,
           at = "fill" => redis = v, at = "local" => ~UseRemote(c),
           \/ UNCHANGED flight /\ at # "follow"
              /\ (at \in {"lead", "getter", "set"} \/ (at = "local" /\ pc[c].op = "group")
                     => Leading(c))
           \/ UNCHANGED flight /\ at = "follow" /\ flight # NoVal
           \/ flight = NoVal /\ flight' = c
    PROVE  RediscInv'
<1>1. /\ Calls' /\ Others(c)
      /\ pc'[c].at = at /\ pc'[c].val = v
      /\ pc'[c].op = pc[c].op /\ pc'[c].skip = pc[c].skip
  BY GotoMoves DEF RediscInv
<1>2. Fresh(c)'
  BY <1>1 DEF Fresh, UseRemote
<1>3. Flights' /\ flight' \in Caller \cup {NoVal}
  <2>1. CASE UNCHANGED flight
    <3>1. Leading(c)' => Leading(c)
      BY <1>1, <2>1, RediscAssumption DEF Leading
    <3> QED BY <1>1, <2>1, <3>1, FlightKept DEF RediscInv, TypeOK
  <2>2. CASE flight = NoVal /\ flight' = c
    BY <1>1, <2>2, RediscAssumption, IdleCall DEF Flights, Others, Leading, RediscInv
  <2> QED BY <2>1, <2>2
<1>4. \A d \in Caller : pc'[d].at = "follow" => flight' # NoVal
  BY <1>1, FollowersLed, RediscAssumption, IdleCall DEF RediscInv, TypeOK, Others
<1> QED BY <1>1, <1>2, <1>3, <1>4, QuietStep DEF Storing, Goto

LEMMA QuietReturn ==
    ASSUME RediscInv, NEW c \in Caller, NEW r, Return(c, r), Quiet, ~Storing(c),
           UNCHANGED <<redis, local, flight>>
    PROVE  RediscInv'
<1>1. Calls' /\ Others(c) /\ pc'[c] = Idle
  BY ReturnMoves DEF RediscInv
<1>2. Fresh(c)'
  BY <1>1, IdleCall DEF Fresh
<1>3. Flights' /\ flight' \in Caller \cup {NoVal}
  BY <1>1, IdleCall, FlightKept DEF Leading, RediscInv, TypeOK
<1>4. \A d \in Caller : pc'[d].at = "follow" => flight' # NoVal
  BY <1>1, FollowersLed, IdleCall DEF RediscInv
<1>5. out' \subseteq Answer
  BY DEF Return
<1> QED BY <1>1, <1>2, <1>3, <1>4, <1>5, QuietStep

LEMMA QuietLand ==
    ASSUME RediscInv, NEW c \in Caller, NEW r, Land(c, r), Quiet,
           Leading(c), ~Storing(c), UNCHANGED <<redis, local>>
    PROVE  RediscInv'
<1>1. /\ Calls' /\ Others(c) /\ pc'[c] = Idle
      /\ \A d \in Caller : pc'[d].at # "follow"
  BY LandMoves DEF RediscInv
<1>2. Fresh(c)'
  BY <1>1, IdleCall DEF Fresh
<1>3. Flights'
  BY <1>1, IdleCall, FlightEnds DEF Leading, RediscInv
<1>4. out' \subseteq Answer /\ flight' \in Caller \cup {NoVal}
  BY DEF Land
<1> QED BY <1>1, <1>2, <1>3, <1>4, QuietStep

(* What is left to show of a step of c that may change a level.             *)
LEMMA ChangingStep ==
    ASSUME RediscInv, NEW c \in Caller, NEW how \in {"none", "torn"},
           Others(c), Changed(c, how), Calls', Flights',
           redis' \in Val \cup {NoVal},
           local' \in [val : Val, form : {"plain", "encoded"}] \cup {NoItem},
           flight' \in Caller \cup {NoVal}, out' \subseteq Answer,
           \A d \in Caller : pc'[d].at = "follow" => flight' # NoVal,
           c \notin dirty => Fresh(c)',
           ~torn' /\ local' # NoItem /\ local'.val # redis' => \E d \in Caller : Storing(d)'
    PROVE  RediscInv'
<1>1. Levels'
  BY ChangeKeeps
<1>2. TypeOK'
  BY TypeKept DEF RediscInv
<1> QED BY <1>1, <1>2 DEF RediscInv

LEMMA ChangingReturn ==
    ASSUME RediscInv, NEW c \in Caller, NEW how \in {"none", "torn"}, NEW r,
           Return(c, r), Changed(c, how), UNCHANGED flight,
           redis' \in Val \cup {NoVal},
           local' \in [val : Val, form : {"plain", "encoded"}] \cup {NoItem},
           ~torn' /\ local' # NoItem /\ local'.val # redis' => \E d \in Caller : Storing(d)'
    PROVE  RediscInv'
<1>1. Calls' /\ Others(c) /\ pc'[c] = Idle
  BY ReturnMoves DEF RediscInv
<1>2. Fresh(c)'
  BY <1>1, IdleCall DEF Fresh
<1>3. Flights' /\ flight' \in Caller \cup {NoVal}
  BY <1>1, IdleCall, FlightKept DEF Leading, RediscInv, TypeOK
<1>4. \A d \in Caller : pc'[d].at = "follow" => flight' # NoVal
  BY <1>1, FollowersLed, IdleCall DEF RediscInv
<1>5. out' \subseteq Answer
  BY DEF Return
<1> QED BY <1>1, <1>2, <1>3, <1>4, <1>5, ChangingStep

LEMMA ChangingLand ==
    ASSUME RediscInv, NEW c \in Caller, NEW how \in {"none", "torn"}, NEW r,
           Land(c, r), Changed(c, how), Leading(c),
           redis' \in Val \cup {NoVal},
           local' \in [val : Val, form : {"plain", "encoded"}] \cup {NoItem},
           ~torn' /\ local' # NoItem /\ local'.val # redis' => \E d \in Caller : Storing(d)'
    PROVE  RediscInv'
<1>1. /\ Calls' /\ Others(c) /\ pc'[c] = Idle
      /\ \A d \in Caller : pc'[d].at # "follow"
  BY LandMoves DEF RediscInv
<1>2. Fresh(c)'
  BY <1>1, IdleCall DEF Fresh
<1>3. Flights'
  BY <1>1, IdleCall, FlightEnds DEF Leading, RediscInv
<1>4. out' \subseteq Answer /\ flight' \in Caller \cup {NoVal}
  BY DEF Land
<1> QED BY <1>1, <1>2, <1>3, <1>4, ChangingStep

(* Where the step of c leaves the levels as they were, they differ only if  *)
(* another call is storing.                                                 *)
LEMMA StillStoring ==
    ASSUME Levels, NEW c \in Caller, NEW how, Others(c), Changed(c, how),
           ~Storing(c), UNCHANGED <<redis, local>>,
           ~torn', local' # NoItem, local'.val # redis'
    PROVE  \E d \in Caller : Storing(d)'
<1>1. ~torn
  BY DEF Changed
<1> QED BY <1>1, StoringKept DEF Levels

-----------------------------------------------------------------------------
LEMMA RediscInitially == Init => RediscInv
<1> SUFFICES ASSUME Init PROVE RediscInv
  OBVIOUS
<1>1. \A c \in Caller : pc[c] = Idle
  BY DEF Init
<1>2. pc \in [Caller -> Call]
  BY IdleCall DEF Init
<1>3. TypeOK
  BY <1>1, IdleCall DEF Init, TypeOK, Busy
<1>4. Calls /\ Flights /\ Levels
  BY <1>1, <1>2, IdleCall DEF Init, Calls, Flights, Leading, Levels, Fresh, Mode
<1> QED BY <1>3, <1>4 DEF RediscInv

(* The entries of Get, Set and Del.                                         *)
LEMMA EntersQuietly ==
    ASSUME RediscInv, NEW c \in Caller, NEW call \in Call, pc[c] = Idle,
           pc' = [pc EXCEPT ![c] = call], out' = {}, Quiet,
           UNCHANGED <<redis, local, flight>>,
           call.op # "del", call.at = "remote" \/ (call.at \in Mode /\ call.val \in Val)
    PROVE  RediscInv'
<1>1. Calls' /\ Others(c) /\ pc'[c] = call
  BY CallEnters DEF RediscInv, Mode
<1>2. Fresh(c)' /\ ~Storing(c)
  BY <1>1, IdleCall DEF Fresh, Storing, Mode
<1>3. Flights' /\ flight' \in Caller \cup {NoVal}
  BY <1>1, FlightKept DEF Leading, RediscInv, TypeOK, Mode
<1>4. \A d \in Caller : pc'[d].at = "follow" => flight' # NoVal
  BY <1>1, FollowersLed DEF RediscInv, Mode
<1> QED BY <1>1, <1>2, <1>3, <1>4, QuietStep

LEMMA GetKeeps ==
    ASSUME RediscInv, NEW c \in Caller, NEW skip \in Skip,
           NEW group \in BOOLEAN, NEW getter \in BOOLEAN, Get(c, skip, group, getter)
    PROVE  RediscInv'
<1>1. CASE "local" \notin skip /\ local # NoItem /\ UNCHANGED pc /\ out' = {Decode(local)}
  <2>1. Others(c) /\ Calls' /\ Flights' /\ pc'[c] = Idle /\ ~Storing(c)
    BY <1>1, IdleCall DEF Get, Others, RediscInv, Calls, Flights, Leading, Storing
  <2>2. Fresh(c)'
    BY <2>1, IdleCall DEF Fresh
  <2>3. out' \subseteq Answer
    BY <1>1 DEF RediscInv, TypeOK, Decode, Answer
  <2> QED BY <1>1, <2>1, <2>2, <2>3, QuietStep DEF Get, RediscInv, TypeOK
<1>2. CASE /\ out' = {}
           /\ pc' = [pc EXCEPT ![c] =
                       [at |-> "remote", op |-> IF group THEN "group" ELSE "get",
                        skip |-> skip, getter |-> getter, val |-> NoVal]]
  <2> DEFINE call == [at |-> "remote", op |-> IF group THEN "group" ELSE "get",
                      skip |-> skip, getter |-> getter, val |-> NoVal]
  <2>1. call \in Call /\ call.at = "remote" /\ call.op # "del"
    BY DEF Call, At, Op
  <2> HIDE DEF call
  <2>2. pc' = [pc EXCEPT ![c] = call]
    BY <1>2 DEF call
  <2> QED BY <1>2, <2>1, <2>2, EntersQuietly DEF Get
<1> QED BY <1>1, <1>2 DEF Get

LEMMA SetKeeps ==
    ASSUME RediscInv, NEW c \in Caller, NEW v \in Val, NEW mode \in Mode,
           NEW skip \in Skip, Set(c, v, mode, skip)
    PROVE  RediscInv'
<1> DEFINE call == [at |-> mode, op |-> "set", skip |-> skip, getter |-> FALSE, val |-> v]
<1>1. call \in Call /\ call.at \in Mode /\ call.op # "del" /\ call.val \in Val
  BY DEF Call, At, Op
<1>2. pc' = [pc EXCEPT ![c] = call]
  BY DEF Set
<1> HIDE DEF call
<1> QED BY <1>1, <1>2, EntersQuietly DEF Set

LEMMA DelLocalKeeps ==
    ASSUME RediscInv, NEW c \in Caller, DelLocal(c)
    PROVE  RediscInv'
<1> DEFINE call == [Idle EXCEPT !.op = "del", !.at = "remote"]
<1>1. call \in Call /\ call.at = "remote" /\ call.op = "del"
  BY DEF Call, At, Op, Idle, Skip
<1>2. pc' = [pc EXCEPT ![c] = call]
  BY DEF DelLocal
<1> HIDE DEF call
<1>3. Calls' /\ Others(c) /\ pc'[c] = call
  BY <1>1, <1>2, CallEnters DEF RediscInv, Mode
<1>4. Fresh(c)'
  BY <1>1, <1>3 DEF Fresh, DelLocal
<1>5. Flights' /\ flight' \in Caller \cup {NoVal}
  BY <1>1, <1>3, FlightKept DEF Leading, RediscInv, TypeOK, DelLocal
<1>6. \A d \in Caller : pc'[d].at = "follow" => flight' # NoVal
  BY <1>1, <1>3, FollowersLed DEF RediscInv, DelLocal
<1> QED BY <1>3, <1>4, <1>5, <1>6, ChangingStep DEF DelLocal, RediscInv, TypeOK

-----------------------------------------------------------------------------
(* The steps of a call of Get.                                              *)
LEMMA GetRemoteKeeps ==
    ASSUME RediscInv, NEW c \in Caller, GetRemote(c) PROVE RediscInv'
<1>1. ASSUME NEW r, Return(c, r) PROVE RediscInv'
  BY <1>1, QuietReturn DEF GetRemote, Storing
<1>2. ASSUME redis # NoVal, Goto(c, "fill", redis) PROVE RediscInv'
  <2>1. redis \in Val
    BY <1>2 DEF RediscInv, TypeOK
  <2> QED BY <1>2, <2>1, QuietGoto DEF GetRemote, At
<1> QED BY <1>1, <1>2 DEF GetRemote

LEMMA FillKeeps ==
    ASSUME RediscInv, NEW c \in Caller, Fill(c) PROVE RediscInv'
<1>1. pc[c].val \in Val
  BY DEF Fill, RediscInv, Calls
<1>2. /\ local' \in [val : Val, form : {"plain", "encoded"}] \cup {NoItem}
      /\ local'.val = pc[c].val /\ local' # NoItem
  BY <1>1, RediscAssumption DEF Fill, Pointer, NoItem
<1>3. c \notin dirty => local'.val = redis'
  BY <1>2 DEF Fill, RediscInv, Levels, Fresh
<1>4. ~torn' => local'.val = redis'
  BY <1>2, <1>3 DEF Fill, Changed
<1> QED BY <1>2, <1>4, ChangingReturn DEF Fill, RediscInv, TypeOK

LEMMA MismatchKeeps ==
    ASSUME RediscInv, NEW c \in Caller, Mismatch(c) PROVE RediscInv'
BY ChangingReturn DEF Mismatch, RediscInv, TypeOK

-----------------------------------------------------------------------------
(* The steps of the flight.                                                 *)
LEMMA JoinKeeps ==
    ASSUME RediscInv, NEW c \in Caller, Join(c) PROVE RediscInv'
<1>1. CASE flight = NoVal /\ Goto(c, "lead", NoVal) /\ flight' = c
  BY <1>1, QuietGoto DEF Join, At, Mode
<1>2. CASE flight # NoVal /\ Goto(c, "follow", NoVal) /\ UNCHANGED flight
  BY <1>2, QuietGoto DEF Join, At, Mode
<1> QED BY <1>1, <1>2 DEF Join

LEMMA LeadRemoteKeeps ==
    ASSUME RediscInv, NEW c \in Caller, LeadRemote(c) PROVE RediscInv'
<1>1. Leading(c) /\ ~Storing(c) /\ pc[c].op # "del"
  BY DEF LeadRemote, Leading, Storing, RediscInv, Calls
<1>2. ASSUME NEW r, Land(c, r) PROVE RediscInv'
  BY <1>1, <1>2, QuietLand DEF LeadRemote
<1>3. CASE Goto(c, "getter", NoVal) /\ UNCHANGED flight
  BY <1>1, <1>3, QuietGoto DEF LeadRemote, At, Mode
<1> QED BY <1>2, <1>3 DEF LeadRemote

LEMMA LeadGetterKeeps ==
    ASSUME RediscInv, NEW c \in Caller, LeadGetter(c) PROVE RediscInv'
<1>1. Leading(c) /\ ~Storing(c) /\ pc[c].op # "del"
  BY DEF LeadGetter, Leading, Storing, RediscInv, Calls
<1>2. CASE Land(c, "error")
  BY <1>1, <1>2, QuietLand DEF LeadGetter
<1>3. ASSUME NEW v \in Val, Goto(c, "set", v), UNCHANGED flight PROVE RediscInv'
  BY <1>1, <1>3, QuietGoto DEF LeadGetter, At, Mode
<1> QED BY <1>2, <1>3 DEF LeadGetter

(* A step after which c, not torn, stores in the local cache what redis     *)
(* took from it.                                                            *)
LEMMA ToLocal ==
    ASSUME RediscInv, NEW c \in Caller, NEW how \in {"none", "torn"},
           Goto(c, "local", pc[c].val), Changed(c, how), how = "torn" \/ UseLocal(c),
           pc[c].at \in {"set"} \cup Mode, redis' = pc[c].val, UNCHANGED <<local, flight>>,
           pc[c].op = "group" => Leading(c)
    PROVE  RediscInv'
<1>1. pc[c].val \in Val /\ pc[c].op # "del" /\ "local" \in At
  BY DEF RediscInv, Calls, Mode, At
<1>2. /\ Calls' /\ Others(c)
      /\ pc'[c].at = "local" /\ pc'[c].val = pc[c].val
      /\ pc'[c].op = pc[c].op /\ pc'[c].skip = pc[c].skip
  BY <1>1, GotoMoves DEF RediscInv
<1>3. Fresh(c)'
  BY <1>1, <1>2 DEF Fresh
<1>4. Flights' /\ flight' \in Caller \cup {NoVal}
  BY <1>2, FlightKept DEF Leading, RediscInv, TypeOK
<1>5. \A d \in Caller : pc'[d].at = "follow" => flight' # NoVal
  BY <1>2, FollowersLed DEF RediscInv
<1>6. UseLocal(c) => Storing(c)'
  BY <1>2 DEF Storing, UseLocal
<1>7. how = "torn" /\ local' # NoItem => torn'
  BY DEF Changed
<1> QED BY <1>1, <1>2, <1>3, <1>4, <1>5, <1>6, <1>7, ChangingStep DEF Goto, RediscInv, TypeOK

(* A command that failed: torn if redis changed.                            *)
LEMMA FailedSet ==
    ASSUME RediscInv, NEW c \in Caller, Others(c), ~Storing(c), UNCHANGED local,
           Changed(c, IF redis' # redis THEN "torn" ELSE "none")
    PROVE  ~torn' /\ local' # NoItem /\ local'.val # redis' => \E d \in Caller : Storing(d)'
<1>1. CASE redis' # redis
  BY <1>1 DEF Changed
<1>2. CASE redis' = redis
  BY <1>2, StillStoring DEF RediscInv
<1> QED BY <1>1, <1>2

LEMMA LeadSetKeeps ==
    ASSUME RediscInv, NEW c \in Caller, LeadSet(c) PROVE RediscInv'
<1>1. Leading(c) /\ ~Storing(c) /\ pc[c].op # "del" /\ pc[c].val \in Val
  BY DEF LeadSet, Leading, Storing, RediscInv, Calls
<1>2. CASE /\ RedisSet(c, TRUE) /\ Land(c, "error") /\ UNCHANGED local
           /\ Changed(c, IF redis' # redis THEN "torn" ELSE "none")
  <2> DEFINE how == IF redis' # redis THEN "torn" ELSE "none"
  <2>1. Others(c)
    BY <1>2, LandMoves DEF RediscInv
  <2>2. redis' \in Val \cup {NoVal}
    BY <1>1, <1>2 DEF RedisSet, RediscInv, TypeOK
  <2>3. how \in {"none", "torn"} /\ Changed(c, how)
    BY <1>2
  <2>4. ~torn' /\ local' # NoItem /\ local'.val # redis' => \E d \in Caller : Storing(d)'
    BY <1>1, <1>2, <2>1, FailedSet
  <2> HIDE DEF how
  <2> QED BY <1>1, <1>2, <2>2, <2>3, <2>4, ChangingLand DEF RediscInv, TypeOK
<1>3. CASE /\ RedisSet(c, FALSE) /\ Goto(c, "local", pc[c].val) /\ UNCHANGED <<local, flight>>
           /\ Changed(c, IF UseLocal(c) THEN "none" ELSE "torn")
  <2>1. redis' = pc[c].val
    BY <1>3 DEF RedisSet
  <2>2. PICK how \in {"none", "torn"} : Changed(c, how) /\ (how = "torn" \/ UseLocal(c))
    BY <1>3
  <2> QED BY <1>1, <1>3, <2>1, <2>2, ToLocal DEF LeadSet
<1>4. CASE /\ ~UseRemote(c) /\ Goto(c, "local", pc[c].val)
           /\ UNCHANGED <<redis, local, flight>> /\ Quiet
  BY <1>1, <1>4, QuietGoto DEF LeadSet, At
<1> QED BY <1>2, <1>3, <1>4 DEF LeadSet

(* The store of a call of Set or of the flight in the local cache.          *)
LEMMA StoresLocal ==
    ASSUME RediscInv, NEW c \in Caller, pc[c].at = "local", Others(c), UNCHANGED redis,
           local' = IF UseLocal(c) THEN Plain(pc[c].val) ELSE local,
           Changed(c, IF UseRemote(c) THEN "none" ELSE "torn")
    PROVE  /\ local' \in [val : Val, form : {"plain", "encoded"}] \cup {NoItem}
           /\ ~torn' /\ local' # NoItem /\ local'.val # redis' =>
                 \E d \in Caller : Storing(d)'
<1>1. pc[c].val \in Val
  BY DEF RediscInv, Calls
<1>2. CASE UseLocal(c)
  <2>1. /\ local' \in [val : Val, form : {"plain", "encoded"}]
        /\ local'.val = pc[c].val /\ local' # NoItem
    BY <1>1, <1>2, RediscAssumption DEF Plain, NoItem
  <2>2. ~torn' => UseRemote(c) /\ c \notin dirty
    BY <2>1 DEF Changed
  <2> QED BY <2>1, <2>2 DEF RediscInv, Levels, Fresh
<1>3. CASE ~UseLocal(c)
  BY <1>3, StillStoring DEF RediscInv, TypeOK, Storing
<1> QED BY <1>2, <1>3

LEMMA LeadLocalKeeps ==
    ASSUME RediscInv, NEW c \in Caller, LeadLocal(c) PROVE RediscInv'
<1>1. Leading(c) /\ pc[c].val \in Val
  BY DEF LeadLocal, Leading, RediscInv, Calls
<1>2. redis' \in Val \cup {NoVal} /\ redis' = redis
  BY DEF LeadLocal, RediscInv, TypeOK
<1>3. PICK how \in {"none", "torn"} : Changed(c, how)
  BY DEF LeadLocal
<1>4. CASE Land(c, pc[c].val)
  <2>1. Others(c)
    BY <1>4, LandMoves DEF RediscInv
  <2> QED BY <1>1, <1>2, <1>3, <1>4, <2>1, StoresLocal, ChangingLand DEF LeadLocal
<1>5. CASE /\ flight' = NoVal
           /\ pc' = [d \in Caller |->
                      IF d = c THEN [pc[c] EXCEPT !.at = "mismatch"]
                      ELSE IF d \in Group(c) THEN Idle ELSE pc[d]]
           /\ out' = IF Group(c) = {c} THEN {} ELSE {pc[c].val}
  <2>1. pc'[c] \in Call /\ pc'[c].at = "mismatch" /\ pc'[c].op = "group"
    BY <1>5 DEF RediscInv, Calls, Call, At, LeadLocal
  <2>2. \A d \in Caller \ {c} : pc'[d] = IF pc[d].at = "follow" THEN Idle ELSE pc[d]
    BY <1>5 DEF Group
  <2>3. pc' \in [Caller -> Call]
    BY <1>5, <2>1, <2>2, IdleCall DEF RediscInv, Calls
  <2>4. Calls' /\ Others(c)
    BY <2>1, <2>2, <2>3, IdleCall DEF RediscInv, Calls, Others, Mode
  <2>5. Fresh(c)'
    BY <2>1 DEF Fresh
  <2>6. Flights'
    BY <1>1, <2>1, <2>4, FlightEnds DEF Leading, RediscInv
  <2>7. \A d \in Caller : pc'[d].at # "follow"
    BY <2>1, <2>2, IdleCall
  <2>8. out' \subseteq Answer
    BY <1>1, <1>5 DEF Answer
  <2> QED BY <1>2, <1>3, <1>5, <2>4, <2>5, <2>6, <2>7, <2>8, StoresLocal, ChangingStep
          DEF LeadLocal
<1> QED BY <1>4, <1>5 DEF LeadLocal

-----------------------------------------------------------------------------
(* The steps of Set and Del.                                                *)
LEMMA SetRemoteKeeps ==
    ASSUME RediscInv, NEW c \in Caller, SetRemote(c) PROVE RediscInv'
<1>1. ~Storing(c) /\ pc[c].op = "set" /\ pc[c].val \in Val
  BY DEF SetRemote, Storing, RediscInv, Calls, Mode
<1>2. CASE ~UseRemote(c) /\ Goto(c, "local", pc[c].val) /\ Quiet /\ UNCHANGED redis
  BY <1>1, <1>2, QuietGoto DEF SetRemote, At, Mode
<1>3. CASE Return(c, "error") /\ Quiet /\ UNCHANGED redis
  BY <1>1, <1>3, QuietReturn DEF SetRemote
<1>4. CASE /\ RedisSet(c, TRUE) /\ Return(c, "error")
           /\ Changed(c, IF redis' # redis THEN "torn" ELSE "none")
  <2> DEFINE how == IF redis' # redis THEN "torn" ELSE "none"
  <2>1. Others(c)
    BY <1>4, ReturnMoves DEF RediscInv
  <2>2. redis' \in Val \cup {NoVal}
    BY <1>1, <1>4 DEF RedisSet, RediscInv, TypeOK
  <2>3. how \in {"none", "torn"} /\ Changed(c, how)
    BY <1>4
  <2>4. ~torn' /\ local' # NoItem /\ local'.val # redis' => \E d \in Caller : Storing(d)'
    BY <1>1, <1>4, <2>1, FailedSet DEF SetRemote
  <2> HIDE DEF how
  <2> QED BY <1>4, <2>2, <2>3, <2>4, ChangingReturn DEF SetRemote, RediscInv, TypeOK
<1>5. CASE /\ RedisSet(c, FALSE) /\ Goto(c, "local", pc[c].val)
           /\ Changed(c, IF UseLocal(c) THEN "none" ELSE "torn")
  <2>1. redis' = pc[c].val
    BY <1>5 DEF RedisSet
  <2>2. PICK how \in {"none", "torn"} : Changed(c, how) /\ (how = "torn" \/ UseLocal(c))
    BY <1>5
  <2> QED BY <1>1, <1>5, <2>1, <2>2, ToLocal DEF SetRemote
<1> QED BY <1>2, <1>3, <1>4, <1>5 DEF SetRemote

LEMMA SetLocalKeeps ==
    ASSUME RediscInv, NEW c \in Caller, SetLocal(c) PROVE RediscInv'
<1>1. Others(c)
  BY ReturnMoves DEF SetLocal, RediscInv
<1>2. PICK how \in {"none", "torn"} : Changed(c, how)
  BY DEF SetLocal
<1> QED BY <1>1, <1>2, StoresLocal, ChangingReturn DEF SetLocal, RediscInv, TypeOK

LEMMA DelRemoteKeeps ==
    ASSUME RediscInv, NEW c \in Caller, DelRemote(c) PROVE RediscInv'
<1>1. redis' \in Val \cup {NoVal}
  BY DEF DelRemote, RediscInv, TypeOK
<1>2. ~torn' => local' = NoItem
  BY DEF DelRemote, Changed, RediscInv, Levels, Fresh
<1>3. PICK r : Return(c, r)
  BY DEF DelRemote
<1> QED BY <1>1, <1>2, <1>3, ChangingReturn DEF DelRemote, RediscInv, TypeOK

-----------------------------------------------------------------------------
(* What happens outside the calls.                                          *)
LEMMA OutsideKeeps ==
    ASSUME RediscInv, LocalDrop \/ Elsewhere PROVE RediscInv'
<1>1. UNCHANGED <<pc, flight>> /\ out' = {} /\ Busy' = Busy
  BY DEF LocalDrop, Elsewhere, Busy
<1>2. Calls' /\ Flights'
  BY <1>1 DEF RediscInv, Calls, Flights, Leading
<1>3. TypeOK'
  BY <1>1 DEF LocalDrop, Elsewhere, RediscInv, TypeOK
<1>4. CASE LocalDrop
  <2>1. ASSUME NEW d \in Caller, d \notin dirty' PROVE Fresh(d)'
    BY <1>4, <2>1 DEF LocalDrop, RediscInv, Levels, Fresh, UseRemote
  <2> QED BY <1>2, <1>3, <1>4, <2>1 DEF LocalDrop, RediscInv, Levels
<1>5. CASE Elsewhere
  <2>1. ASSUME NEW d \in Caller, d \notin dirty' PROVE Fresh(d)'
    <3>1. pc'[d] = Idle
      BY <1>1, <1>5, <2>1 DEF Elsewhere, Busy
    <3> QED BY <3>1, IdleCall DEF Fresh
  <2>2. ~torn' => local' = NoItem
    BY <1>5 DEF Elsewhere
  <2> QED BY <1>2, <1>3, <2>1, <2>2 DEF RediscInv, Levels
<1> QED BY <1>4, <1>5

LEMMA RediscStutters == ASSUME RediscInv, UNCHANGED vars PROVE RediscInv'
<1>1. TypeOK'
  BY DEF vars, RediscInv, TypeOK, Busy
<1>2. Calls' /\ Flights'
  BY DEF vars, RediscInv, Calls, Flights, Leading
<1>3. Levels'
  BY DEF vars, RediscInv, Levels, Fresh, Storing, UseLocal, UseRemote
<1> QED BY <1>1, <1>2, <1>3 DEF RediscInv

LEMMA RediscInductive == RediscInv /\ [Next]_vars => RediscInv'
<1> SUFFICES ASSUME RediscInv, [Next]_vars PROVE RediscInv'
  OBVIOUS
<1>1. ASSUME NEW c \in Caller, Step(c) PROVE RediscInv'
  BY <1>1, GetRemoteKeeps, FillKeeps, JoinKeeps, LeadRemoteKeeps, LeadGetterKeeps,
     LeadSetKeeps, LeadLocalKeeps, MismatchKeeps, SetRemoteKeeps, SetLocalKeeps,
     DelRemoteKeeps DEF Step
<1>2. ASSUME NEW c \in Caller, DelLocal(c) PROVE RediscInv'
  BY <1>2, DelLocalKeeps
<1>3. ASSUME NEW c \in Caller, NEW skip \in Skip, NEW group \in BOOLEAN,
             NEW getter \in BOOLEAN, Get(c, skip, group, getter)
      PROVE  RediscInv'
  BY <1>3, GetKeeps
<1>4. ASSUME NEW c \in Caller, NEW v \in Val, NEW mode \in Mode, NEW skip \in Skip,
             Set(c, v, mode, skip)
      PROVE  RediscInv'
  BY <1>4, SetKeeps
<1> QED BY <1>1, <1>2, <1>3, <1>4, OutsideKeeps, RediscStutters DEF Next

LEMMA RediscInvariant == Spec => []RediscInv
BY RediscInitially, RediscInductive, PTL DEF Spec

(* Between calls the local cache and redis agree, unless calls of two       *)
(* callers overlapped, redis changed behind the cache or a level was        *)
(* skipped: Set writes redis and then the local cache, Get fills the local  *)
(* cache from redis, Del empties both (redis.go), however many callers and  *)
(* values there are and whichever commands fail.                            *)
THEOREM LevelsAgree == Spec => []Coherent
<1>1. RediscInv => Coherent
  <2> SUFFICES ASSUME RediscInv, Busy = {} PROVE \A c \in Caller : ~Storing(c)
    BY DEF RediscInv, Levels, Coherent
  <2>1. \A c \in Caller : pc[c] = Idle
    BY DEF Busy
  <2> QED BY <2>1, IdleCall DEF Storing
<1> QED BY <1>1, RediscInvariant, PTL

(* Of any number of callers that miss at once, singleflight lets one run    *)
(* its Getter, and no caller follows a flight that nobody leads.            *)
THEOREM OneCallerLoads == Spec => []OneFlight
<1>1. RediscInv => OneFlight
  <2> SUFFICES ASSUME RediscInv
               PROVE  Cardinality({c \in Caller : pc[c].at = "getter"}) <= 1
    BY DEF RediscInv, OneFlight, OneGetter
  <2> DEFINE G == {c \in Caller : pc[c].at = "getter"}
  <2>1. G \subseteq {flight}
    BY DEF RediscInv, Flights, Leading
  <2>2. IsFiniteSet({flight}) /\ Cardinality({flight}) = 1
    BY FS_Singleton
  <2>3. IsFiniteSet(G) /\ Cardinality(G) <= 1
    BY <2>1, <2>2, FS_Subset
  <2> QED BY <2>3
<1> QED BY <1>1, RediscInvariant, PTL
=============================================================================
