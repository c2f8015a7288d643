------------------------------ MODULE TimeWheel ------------------------------
(***************************************************************************)
(* The hashed timing wheel of pkg/gds/timewheel.go.                        *)
(*                                                                         *)
(* One goroutine (start) owns the wheel: it receives ticks and the         *)
(* requests of AddTimer, ResetTask, RemoveTask and Stop in one select and  *)
(* runs one handler at a time, so every action below is one turn of that   *)
(* loop.  The request channels are unbuffered, so a request is accepted in *)
(* the step that handles it; a request and the loop both select on         *)
(* stopChan too, and once that is closed neither side ever waits for the   *)
(* other again, so nothing is accepted after Stop.                         *)
(*                                                                         *)
(* A *timeWheelSlot is an address of heap; at says in which slot's list    *)
(* its element is.  The order inside a list is abstracted away: it only    *)
(* decides in which order two items of one tick touch the same timers key, *)
(* which the tick leaves open.  Time is counted in ticks of the wheel.     *)
(***************************************************************************)
EXTENDS Integers

CONSTANTS SlotNum,    \* slotNum, the length of slots
          Interval,   \* interval, in time units
          Key,        \* the task ids callers use
          NilKey,     \* the nil id: accepted by AddTimer, never indexed
          Data,       \* what a *timeWheelTask carries: data and callback
          Delay,      \* the delays callers ask for, in time units
          Addr,       \* addresses of timeWheelSlot objects
          NoAddr      \* the nil address

ASSUME WheelAssumption ==
    /\ SlotNum \in Nat \ {0}
    /\ Interval \in Nat \ {0}
    /\ Delay \subseteq Int
    /\ NoAddr \notin Addr
    /\ Data # {} /\ Key # {}

VARIABLES currentPos,  \* the slot of the last tick
          at,          \* at[a]: the slot whose list holds a, or Off
          heap,        \* the timeWheelSlot objects
          timers,      \* the timers map: timeWheelPos of each indexed id
          closed,      \* stopChan is closed
          exited,      \* the loop goroutine has returned
          fired,       \* what the last tick handed to doTasks
          left,        \* history: ticks until item a is to fire, as last asked
          moved,       \* history: the items whose schedule moveTask changed
          replaced     \* history: ids whose item moveTask has replaced

wheel == <<currentPos, at, heap, timers>>
history == <<left, moved, replaced>>
vars == <<currentPos, at, heap, timers, closed, exited, fired,
          left, moved, replaced>>

Pos == 0 .. SlotNum - 1
Off == -1                    \* the item is in no list
Item == [taskID : Key, delay : Nat, circle : Int, diffPos : Pos,
         task : Data, removed : BOOLEAN]
NoEntry == [pos |-> Off, item |-> NoAddr]
Entry == [pos : Pos, item : Addr] \cup {NoEntry}
Blank == [taskID |-> CHOOSE k \in Key : TRUE, delay |-> 0, circle |-> 0,
          diffPos |-> 0, task |-> CHOOSE d \in Data : TRUE, removed |-> TRUE]

(* addTask raises a delay below one interval to one interval; moveTask,    *)
(* which ResetTask reaches directly, does not.                             *)
AtLeastInterval(d) == IF d < Interval THEN Interval ELSE d

Steps(d) == d \div Interval

(* getPositionAndCircle: Go's integer division truncates towards zero,     *)
(* which differs from \div when steps is 0.                                *)
TruncDiv(x, y) == IF x >= 0 THEN x \div y ELSE -((-x) \div y)
Position(d) == (currentPos + Steps(d)) % SlotNum
MutantCircle(d) == TruncDiv(Steps(d), SlotNum)
Circle(d) == TruncDiv(Steps(d) - 1, SlotNum)

-----------------------------------------------------------------------------
(* An object no list and no timers entry refers to is garbage: its address *)
(* may be allocated again, and its fields are forgotten.                   *)
Referenced(a) == at[a] # Off \/ \E k \in Key : timers[k].item = a
Unused == {a \in Addr : ~Referenced(a)}
Sweep(h) == [a \in Addr |-> IF Referenced(a)' THEN h[a] ELSE Blank]
SweepCount(f) == [a \in Addr |-> IF Referenced(a)' THEN f[a] ELSE 0]

Live(a) == at[a] # Off /\ ~heap[a].removed

Init ==
    /\ currentPos = SlotNum - 1
    /\ at = [a \in Addr |-> Off]
    /\ heap = [a \in Addr |-> Blank]
    /\ timers = [k \in Key |-> NoEntry]
    /\ closed = FALSE /\ exited = FALSE
    /\ fired = {}
    /\ left = [a \in Addr |-> 0] /\ moved = {} /\ replaced = {}

(* The loop is at its select and accepts a request.                        *)
Accepting == ~closed /\ ~exited

(* PushBack of a fresh timeWheelSlot into the list of slot p.              *)
Push(a, p) == at' = [at EXCEPT ![a] = p]

(* addTask, the id is not indexed.                                         *)
AddNew(k, d, t) ==
    /\ timers[k] = NoEntry
    /\ \E a \in Unused :
         /\ Push(a, Position(d))
         /\ heap' = [heap EXCEPT ![a] = [taskID |-> k, delay |-> d,
                       circle |-> Circle(d), diffPos |-> 0,
                       task |-> t, removed |-> FALSE]]
         /\ timers' = IF k = NilKey THEN timers ELSE
                [timers EXCEPT ![k] = [pos |-> Position(d), item |-> a]]
         /\ left' = [left EXCEPT ![a] = Steps(d)]
         /\ moved' = moved \ {a}
         /\ UNCHANGED replaced

(* moveTask, the id indexed, from the heap h.  The item stays where it is  *)
(* and is told how to go on from there: it skips circle visits of the hand *)
(* and then moves diffPos slots ahead.                                     *)
Redirect(k, h, d, circle, diff) ==
    LET a == timers[k].item IN
    /\ heap' = [h EXCEPT ![a].circle = circle, ![a].diffPos = diff]
    /\ left' = [left EXCEPT ![a] = Steps(d)]
    /\ moved' = moved \cup {a}
    /\ UNCHANGED <<at, timers, replaced>>

(* moveTask's last branch: the item is marked removed and a copy goes to   *)
(* the new slot, but updatePosition keeps the removed item in the entry.   *)
Replace(k, h, d) ==
    LET a == timers[k].item IN
    \E b \in Unused :
      /\ Push(b, Position(d))
      /\ heap' = [h EXCEPT ![a].removed = TRUE,
                           ![b] = [taskID |-> k, delay |-> d, circle |-> 0,
                                   diffPos |-> 0, task |-> h[a].task,
                                   removed |-> FALSE]]
      /\ timers' = [timers EXCEPT ![k].pos = Position(d)]
      /\ left' = [left EXCEPT ![b] = Steps(d)]
      /\ moved' = moved \cup {b}
      /\ replaced' = replaced \cup {k}

Move(k, h, d) ==
    LET old == timers[k].pos
        new == Position(d)
    IN  \/ /\ new >= old
           /\ Redirect(k, h, d, Circle(d), new - old)
        \/ /\ new < old /\ Circle(d) > 0
           /\ Redirect(k, h, d, Circle(d) - 1, SlotNum - old + new)
        \/ /\ new < old /\ ~(Circle(d) > 0)
           /\ Replace(k, h, d)

-----------------------------------------------------------------------------
(* AddTimer: an id that is indexed gets the new task, and is moved by the  *)
(* delay it was first added with, not by the new one.                      *)
AddTimer(k, delay, t) ==
    LET d == AtLeastInterval(delay) IN
    /\ Accepting /\ delay > 0
    /\ \/ AddNew(k, d, t)
       \/ /\ timers[k] # NoEntry
          /\ LET a == timers[k].item
                 h == [heap EXCEPT ![a].task = t]
             IN  Move(k, h, heap[a].delay)
    /\ fired' = {}
    /\ UNCHANGED <<currentPos, closed, exited>>

ResetTask(k, d) ==
    /\ Accepting /\ d > 0 /\ k # NilKey
    /\ timers[k] # NoEntry
    /\ Move(k, heap, d)
    /\ fired' = {}
    /\ UNCHANGED <<currentPos, closed, exited>>

(* removeTask: the entry goes now, the element when the hand reaches it.   *)
MutantRemoveTask(k) ==
    /\ Accepting /\ k # NilKey
    /\ timers[k] # NoEntry
    /\ timers' = [timers EXCEPT ![k] = NoEntry]
    /\ UNCHANGED heap
    /\ fired' = {}
    /\ UNCHANGED <<currentPos, at, closed, exited, left, moved, replaced>>

RemoveTask(k) ==
    /\ Accepting /\ k # NilKey
    /\ timers[k] # NoEntry
    /\ timers' = [timers EXCEPT ![k] = NoEntry]
    /\ UNCHANGED <<currentPos, at>>
    /\ heap' = Sweep([heap EXCEPT ![timers[k].item].removed = TRUE])
    /\ left' = SweepCount(left)
    /\ moved' = {a \in moved : Referenced(a)'}
    /\ fired' = {}
    /\ UNCHANGED <<closed, exited, replaced>>

-----------------------------------------------------------------------------
(* tickHandler and scanAndRunTask.  The four branches of the scan, by the  *)
(* fields of an item in the slot the hand is now at.                       *)
NextPos == (currentPos + 1) % SlotNum
Here == {a \in Addr : at[a] = NextPos}
Dropped == {a \in Here : heap[a].removed}
Waiting == {a \in Here : ~heap[a].removed /\ heap[a].circle > 0}
Relocated == {a \in Here : /\ ~heap[a].removed
                           /\ ~(heap[a].circle > 0)
                           /\ heap[a].diffPos > 0}
MutantDue == {a \in Here : ~heap[a].removed /\ ~(heap[a].circle > 1)
                           /\ ~(heap[a].diffPos > 0)}
Due == {a \in Here : /\ ~heap[a].removed
                     /\ ~(heap[a].circle > 0)
                     /\ ~(heap[a].diffPos > 0)}
Target(a) == (NextPos + heap[a].diffPos) % SlotNum

(* What the last item of the scan with id k, if any, leaves in timers: a   *)
(* relocated one is indexed (updatePosition), a due one unindexes its id.  *)
Touching(k) == {a \in Relocated \cup Due : heap[a].taskID = k}
MutantEntryAfter(k, a) == IF a \in Relocated THEN timers[k] ELSE NoEntry
EntryAfter(k, a) ==
    IF a \in Relocated THEN [pos |-> Target(a), item |-> a] ELSE NoEntry

(* The loop takes a tick whatever the next slot holds.                     *)
MutantTicking == ~exited /\ Here # {}
Ticking == ~exited

Tick ==
    /\ Ticking
    /\ currentPos' = NextPos
    /\ at' = [a \in Addr |-> IF a \in Dropped \cup Due THEN Off
                             ELSE IF a \in Relocated THEN Target(a) ELSE at[a]]
    /\ \E last \in [Key -> Addr \cup {NoAddr}] :
         /\ \A k \in Key : IF Touching(k) = {} THEN last[k] = NoAddr
                                               ELSE last[k] \in Touching(k)
         /\ timers' = [k \in Key |-> IF Touching(k) = {} THEN timers[k]
                                     ELSE EntryAfter(k, last[k])]
    /\ heap' = Sweep([a \in Addr |->
                  IF a \in Waiting THEN [heap[a] EXCEPT !.circle = @ - 1]
                  ELSE IF a \in Relocated THEN [heap[a] EXCEPT !.diffPos = 0]
                  ELSE heap[a]])
    /\ left' = SweepCount([a \in Addr |-> IF Live(a) THEN left[a] - 1 ELSE 0])
    /\ moved' = {a \in moved : Referenced(a)'}
    /\ fired' = {[item |-> a, taskID |-> heap[a].taskID,
                  task |-> heap[a].task, late |-> 1 - left[a],
                  moved |-> a \in moved] : a \in Due}
    /\ UNCHANGED <<closed, exited, replaced>>

(* Stop closes stopChan; a second call would panic, so it is made once.    *)
Stop == /\ ~closed
        /\ closed' = TRUE
        /\ fired' = {}
        /\ UNCHANGED <<wheel, exited, history>>

(* The loop picks the closed stopChan, stops the ticker and returns.       *)
Exit == /\ closed /\ ~exited
        /\ exited' = TRUE
        /\ fired' = {}
        /\ UNCHANGED <<wheel, closed, history>>

Next ==
    \/ \E k \in Key, d \in Delay, t \in Data : AddTimer(k, d, t)
    \/ \E k \in Key, d \in Delay : ResetTask(k, d)
    \/ \E k \in Key : RemoveTask(k)
    \/ Tick
    \/ Stop
    \/ Exit

Spec == Init /\ [][Next]_vars

(* Callers that never reset a timer and add an id again only once it is no *)
(* longer indexed, as AddTask does: moveTask never runs.                   *)
FreshNext ==
    \/ \E k \in Key, d \in Delay, t \in Data :
          timers[k] = NoEntry /\ AddTimer(k, d, t)
    \/ \E k \in Key : RemoveTask(k)
    \/ Tick
    \/ Stop
    \/ Exit

(* The ticker keeps ticking until the loop returns, and Go's select picks  *)
(* at random among its ready cases, so it does not pass over a tick or the *)
(* closed stopChan for ever.                                               *)
FreshSpec == Init /\ [][FreshNext]_vars /\ WF_vars(Tick) /\ WF_vars(Exit)

-----------------------------------------------------------------------------
Firing == [item : Addr, taskID : Key, task : Data, late : Int,
           moved : BOOLEAN]

(* Every variable holds what the code's types allow.                       *)
TypeOK ==
    /\ currentPos \in Pos
    /\ at \in [Addr -> Pos \cup {Off}]
    /\ heap \in [Addr -> Item]
    /\ timers \in [Key -> Entry]
    /\ closed \in BOOLEAN /\ exited \in BOOLEAN
    /\ fired \subseteq Firing
    /\ left \in [Addr -> Int]
    /\ moved \subseteq Addr
    /\ replaced \subseteq Key

(* The ticks until item a, in a list and not removed, fires: to the hand's *)
(* next visit of its slot, the revolutions it still has to sit out, and    *)
(* the slots it then moves ahead.                                          *)
Dist(p) == IF p > currentPos THEN p - currentPos
                             ELSE p - currentPos + SlotNum
Rounds(a) == IF heap[a].circle > 0 THEN heap[a].circle ELSE 0
Remaining(a) == Dist(at[a]) + Rounds(a) * SlotNum + heap[a].diffPos

(* The timers map of timewheel.go never points an id at another id's item, *)
(* and the slot it names is where the item is unless the item is already   *)
(* marked removed: moveTask computes diffPos from that slot number, so a   *)
(* stale one would send the task to a wrong slot.                          *)
IndexConsistent ==
    \A k \in Key : timers[k].item # NoAddr =>
        LET a == timers[k].item IN
        /\ heap[a].taskID = k
        /\ heap[a].removed \/ at[a] = timers[k].pos

(* A task that addTask placed and moveTask never touched has exactly the   *)
(* asked number of ticks left; one moveTask touched is on time or a whole  *)
(* revolution early or late (moveTask compares slot numbers and ignores    *)
(* where the hand is).  Nothing else goes wrong, however requests and      *)
(* ticks interleave.                                                       *)
OnSchedule ==
    \A a \in Addr : Live(a) =>
        LET drift == Remaining(a) - left[a] IN
        /\ drift \in {-SlotNum, 0, SlotNum}
        /\ a \notin moved => drift = 0

(* What doTasks receives: a task never moved is handed over on exactly its *)
(* tick, a moved one at most one revolution away from it.                  *)
FiredInWindow ==
    \A f \in fired : IF f.moved THEN f.late \in {-SlotNum, 0, SlotNum}
                                ELSE f.late = 0

(* RemoveTask reaches every task: a task that will still fire is the one   *)
(* its id is indexed with, unless moveTask has replaced an item of that id *)
(* (the branch that leaves the entry on the removed item).                 *)
Removable ==
    \A a \in Addr : Live(a) /\ heap[a].taskID # NilKey =>
        \/ timers[heap[a].taskID].item = a
        \/ heap[a].taskID \in replaced

(* scanAndRunTask neither loses nor delays nor duplicates a task: at every *)
(* tick each pending task either is handed to doTasks, and it was one tick *)
(* from firing, or stays pending with one tick less.                       *)
EveryTickCounts ==
    [][Tick => \A a \in Addr : Live(a) =>
          \/ /\ Remaining(a) = 1
             /\ \E f \in fired' : f.item = a
             /\ ~Live(a)'
          \/ /\ Live(a)' /\ Remaining(a)' = Remaining(a) - 1
             /\ \A f \in fired' : f.item # a]_vars

(* A pending task fires or is removed, unless the wheel is stopped first   *)
(* (checked for callers that do not reset it for ever, FreshSpec).         *)
EventuallyFires ==
    \A a \in Addr : Live(a) ~> (~Live(a) \/ exited)

-----------------------------------------------------------------------------
(* The timers a caller sees: an indexed id has the ticks it was asked for, *)
(* less the ticks since then.                                              *)
Indexed == Key \ {NilKey}
CallerTimer == [k \in Indexed |->
    IF timers[k] = NoEntry THEN NoEntry
    ELSE [left |-> left[timers[k].item], task |-> heap[timers[k].item].task]]
CallerOut == {[taskID |-> f.taskID, task |-> f.task] :
                 f \in {g \in fired : g.taskID # NilKey}}

Promise == INSTANCE Timer WITH Key <- Indexed, Idle <- NoEntry,
               timer <- CallerTimer, out <- CallerOut, running <- ~exited

(* As long as moveTask is not involved, the wheel is an exact timer: every *)
(* id fires at the tick asked for, once, with its data, and a removed one  *)
(* never does (checked under FreshSpec).                                   *)
ImplementsTimer == Promise!TSpec
=============================================================================
