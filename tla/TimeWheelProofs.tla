--------------------------- MODULE TimeWheelProofs ---------------------------
(***************************************************************************)
(* Proofs about the timing wheel, for every number of slots, interval, set *)
(* of ids, set of delays and number of items.                              *)
(***************************************************************************)
EXTENDS TimeWheel, TLAPS

-----------------------------------------------------------------------------
(* Arithmetic of the wheel.                                                *)

(* Division with remainder, for a positive divisor.                        *)
LEMMA DivMod ==
    ASSUME NEW x \in Int, NEW n \in Nat \ {0}
    PROVE  /\ x \div n \in Int /\ x % n \in 0 .. n - 1
           /\ x = n * (x \div n) + (x % n)
  OBVIOUS

(* The remainder is the only number below n at a multiple of n from x.     *)
LEMMA ModUnique ==
    ASSUME NEW n \in Nat \ {0}, NEW k \in Int, NEW r \in 0 .. n - 1,
           NEW x \in Int, x = n * k + r
    PROVE  x % n = r
  OBVIOUS

LEMMA OneRoundLess ==
    ASSUME NEW c \in Int, NEW n \in Int
    PROVE  (c - 1) * n = c * n - n /\ c * n \in Int
  OBVIOUS

LEMMA DivBounds ==
    ASSUME NEW x \in Nat, NEW n \in Nat \ {0}
    PROVE  x \div n \in Nat /\ (x >= n => x \div n >= 1)
  OBVIOUS

(* s >= 1 steps ahead of slot c: the slot (c + s) % n is passed first      *)
(* after at most n ticks, and (s - 1) \div n revolutions remain.           *)
LEMMA StepsAhead ==
    ASSUME NEW n \in Nat \ {0}, NEW c \in 0 .. n - 1, NEW s \in Nat \ {0}
    PROVE  LET q == (c + s) % n IN
           (IF q > c THEN q - c ELSE q - c + n) + ((s - 1) \div n) * n = s
<1> DEFINE k == (s - 1) \div n
           r == (s - 1) % n
<1>1. k \in Int /\ r \in 0 .. n - 1 /\ s - 1 = n * k + r
  <2>1. s - 1 \in Int
    OBVIOUS
  <2>. QED  BY <2>1, DivMod, Zenon
<1> HIDE DEF k, r
<1>2. CASE c + r + 1 < n
  <2>1. c + s = n * k + (c + r + 1)
    BY <1>1
  <2>2. (c + s) % n = c + r + 1
    BY <1>1, <1>2, <2>1, ModUnique
  <2>. QED  BY <1>1, <2>2 DEF k
<1>3. CASE ~(c + r + 1 < n)
  <2> DEFINE k1 == k + 1
             r1 == c + r + 1 - n
  <2>1. c + s = n * k1 + r1
    BY <1>1
  <2>2. k1 \in Int /\ c + s \in Int /\ r1 \in 0 .. n - 1
    BY <1>1, <1>3
  <2> HIDE DEF k1, r1
  <2>3. (c + s) % n = r1
    BY <2>1, <2>2, ModUnique
  <2>. QED  BY <1>1, <2>3 DEF k, r1
<1>. QED  BY <1>2, <1>3

(* Where getPositionAndCircle puts a delay, and when that is reached.      *)
LEMMA Landing ==
    ASSUME currentPos \in Pos, NEW d \in Nat
    PROVE  /\ Position(d) \in Pos /\ Circle(d) \in Int /\ Steps(d) \in Nat
           /\ Steps(d) >= 1 =>
                /\ Circle(d) \in Nat
                /\ Dist(Position(d)) + Circle(d) * SlotNum = Steps(d)
           /\ Steps(d) = 0 => Position(d) = currentPos /\ ~(Circle(d) > 0)
           /\ d >= Interval => Steps(d) >= 1
<1>1. Steps(d) \in Nat /\ (d >= Interval => Steps(d) >= 1)
  BY DivBounds, WheelAssumption DEF Steps
<1>2. Position(d) \in Pos
  <2>1. currentPos + Steps(d) \in Int
    BY <1>1, WheelAssumption DEF Pos
  <2>. QED  BY <2>1, DivMod, WheelAssumption, Zenon DEF Position, Pos
<1>3. CASE Steps(d) >= 1
  <2>1. Circle(d) = (Steps(d) - 1) \div SlotNum
    BY <1>1, <1>3 DEF Circle, TruncDiv
  <2>2. Circle(d) \in Nat
    BY <1>1, <1>3, <2>1, DivBounds, WheelAssumption
  <2>3. Dist(Position(d)) + Circle(d) * SlotNum = Steps(d)
    <3> DEFINE s == Steps(d)
    <3>1. SlotNum \in Nat \ {0} /\ currentPos \in 0 .. SlotNum - 1
      BY WheelAssumption DEF Pos
    <3>2. s \in Nat \ {0}
      BY <1>1, <1>3
    <3> HIDE DEF s
    <3>3. LET q == (currentPos + s) % SlotNum IN
          (IF q > currentPos THEN q - currentPos ELSE q - currentPos + SlotNum)
            + ((s - 1) \div SlotNum) * SlotNum = s
      BY <3>1, <3>2, StepsAhead
    <3>. QED  BY <2>1, <3>3 DEF s, Dist, Position
  <2>. QED  BY <1>1, <1>2, <1>3, <2>2, <2>3
<1>4. CASE Steps(d) = 0
  <2>1. Position(d) = currentPos
    BY <1>4, ModUnique, WheelAssumption DEF Position, Pos
  <2>2. Circle(d) = -(1 \div SlotNum) /\ 1 \div SlotNum \in Nat
    BY <1>4, DivBounds, WheelAssumption DEF Circle, TruncDiv
  <2>. QED  BY <1>1, <1>2, <1>4, <2>1, <2>2
<1>. QED  BY <1>1, <1>3, <1>4

(* One tick of the hand.                                                   *)
LEMMA HandStep ==
    ASSUME currentPos \in Pos
    PROVE  /\ NextPos \in Pos
           /\ NextPos = IF currentPos + 1 = SlotNum THEN 0 ELSE currentPos + 1
  BY ModUnique, WheelAssumption DEF NextPos, Pos

(* Where a relocated item goes: diff slots ahead of the hand.              *)
LEMMA Ahead ==
    ASSUME NEW n \in Nat \ {0}, NEW c \in 0 .. n - 1, NEW diff \in 1 .. n - 1
    PROVE  (c + diff) % n = IF c + diff < n THEN c + diff ELSE c + diff - n
<1>1. CASE c + diff < n
  BY <1>1, ModUnique
<1>2. CASE ~(c + diff < n)
  <2>1. c + diff = n * 1 + (c + diff - n)
    OBVIOUS
  <2>. QED  BY <1>2, <2>1, ModUnique
<1>. QED  BY <1>1, <1>2

-----------------------------------------------------------------------------
(* Type correctness.                                                       *)

LEMMA BlankType == Blank \in Item
<1>1. /\ (CHOOSE k \in Key : TRUE) \in Key
      /\ (CHOOSE t \in Data : TRUE) \in Data
  BY WheelAssumption
<1>2. 0 \in Pos
  BY WheelAssumption DEF Pos
<1>. QED  BY <1>1, <1>2 DEF Blank, Item

LEMMA SweepType ==
    ASSUME NEW h \in [Addr -> Item]
    PROVE  Sweep(h) \in [Addr -> Item]
  BY BlankType DEF Sweep

(* An indexed id has an item and a slot.                                   *)
LEMMA IndexedEntry ==
    ASSUME TypeOK, NEW k \in Key, timers[k] # NoEntry
    PROVE  timers[k].item \in Addr /\ timers[k].pos \in Pos
  BY DEF TypeOK, Entry

LEMMA RedirectType ==
    ASSUME TypeOK, NEW k \in Key, timers[k] # NoEntry,
           NEW h \in [Addr -> Item], NEW d \in Nat,
           NEW c \in Int, NEW diff \in Pos, Redirect(k, h, d, c, diff)
    PROVE  /\ heap' \in [Addr -> Item] /\ left' \in [Addr -> Int]
           /\ moved' \subseteq Addr /\ UNCHANGED <<at, timers, replaced>>
<1>1. timers[k].item \in Addr
  BY IndexedEntry
<1>2. Steps(d) \in Int
  BY Landing DEF TypeOK
<1>3. heap' \in [Addr -> Item]
  BY <1>1 DEF Redirect, Item
<1>. QED  BY <1>1, <1>2, <1>3 DEF Redirect, TypeOK

LEMMA ReplaceType ==
    ASSUME TypeOK, NEW k \in Key, timers[k] # NoEntry,
           NEW h \in [Addr -> Item], NEW d \in Nat, Replace(k, h, d)
    PROVE  /\ at' \in [Addr -> Pos \cup {Off}]
           /\ heap' \in [Addr -> Item] /\ timers' \in [Key -> Entry]
           /\ left' \in [Addr -> Int] /\ moved' \subseteq Addr
           /\ replaced' \subseteq Key
<1> DEFINE a == timers[k].item
<1>1. a \in Addr /\ timers[k].pos \in Pos
  BY IndexedEntry
<1>2. Steps(d) \in Int /\ Position(d) \in Pos /\ 0 \in Pos
  BY Landing, WheelAssumption DEF TypeOK, Pos
<1>3. PICK b \in Unused :
        /\ Push(b, Position(d))
        /\ heap' = [h EXCEPT ![a].removed = TRUE,
                             ![b] = [taskID |-> k, delay |-> d, circle |-> 0,
                                     diffPos |-> 0, task |-> h[a].task,
                                     removed |-> FALSE]]
        /\ timers' = [timers EXCEPT ![k].pos = Position(d)]
        /\ left' = [left EXCEPT ![b] = Steps(d)]
        /\ moved' = moved \cup {b}
        /\ replaced' = replaced \cup {k}
  BY Zenon DEF Replace
<1>4. b \in Addr
  BY DEF Unused
<1>5. heap' \in [Addr -> Item]
  <2> DEFINE h1 == [h EXCEPT ![a].removed = TRUE]
             new == [taskID |-> k, delay |-> d, circle |-> 0, diffPos |-> 0,
                     task |-> h[a].task, removed |-> FALSE]
  <2>1. h1 \in [Addr -> Item]
    BY <1>1 DEF Item
  <2>2. new \in Item
    BY <1>1, <1>2 DEF Item
  <2>3. heap' = [h1 EXCEPT ![b] = new]
    BY <1>3
  <2> HIDE DEF h1, new
  <2>. QED  BY <1>4, <2>1, <2>2, <2>3
<1>6. timers' \in [Key -> Entry]
  <2>1. timers[k] \in [pos : Pos, item : Addr]
    BY DEF TypeOK, Entry
  <2>2. [timers[k] EXCEPT !.pos = Position(d)] \in Entry
    BY <1>2, <2>1 DEF Entry
  <2>. QED  BY <1>3, <2>2 DEF TypeOK
<1>. QED  BY <1>2, <1>3, <1>4, <1>5, <1>6 DEF TypeOK, Push

LEMMA MoveType ==
    ASSUME TypeOK, NEW k \in Key, timers[k] # NoEntry,
           NEW h \in [Addr -> Item], NEW d \in Nat, Move(k, h, d)
    PROVE  /\ at' \in [Addr -> Pos \cup {Off}]
           /\ heap' \in [Addr -> Item] /\ timers' \in [Key -> Entry]
           /\ left' \in [Addr -> Int] /\ moved' \subseteq Addr
           /\ replaced' \subseteq Key
<1> DEFINE old == timers[k].pos
           new == Position(d)
<1>1. old \in Pos /\ new \in Pos /\ Circle(d) \in Int
  BY IndexedEntry, Landing DEF TypeOK
<1>2. CASE new >= old /\ Redirect(k, h, d, Circle(d), new - old)
  <2>1. new - old \in Pos
    BY <1>1, <1>2, WheelAssumption DEF Pos
  <2>. QED  BY <1>1, <1>2, <2>1, RedirectType DEF TypeOK
<1>3. CASE /\ new < old
           /\ Redirect(k, h, d, Circle(d) - 1, SlotNum - old + new)
  <2>1. SlotNum - old + new \in Pos /\ Circle(d) - 1 \in Int
    BY <1>1, <1>3, WheelAssumption DEF Pos
  <2>. QED  BY <1>1, <1>3, <2>1, RedirectType DEF TypeOK
<1>4. CASE Replace(k, h, d)
  BY <1>4, ReplaceType
<1>. QED  BY <1>2, <1>3, <1>4, Zenon DEF Move

LEMMA AddNewType ==
    ASSUME TypeOK, NEW k \in Key, NEW d \in Nat, NEW t \in Data,
           AddNew(k, d, t)
    PROVE  /\ at' \in [Addr -> Pos \cup {Off}]
           /\ heap' \in [Addr -> Item] /\ timers' \in [Key -> Entry]
           /\ left' \in [Addr -> Int] /\ moved' \subseteq Addr
           /\ replaced' \subseteq Key
<1>1. /\ Steps(d) \in Int /\ Position(d) \in Pos /\ Circle(d) \in Int
      /\ 0 \in Pos
  BY Landing, WheelAssumption DEF TypeOK, Pos
<1>2. PICK a \in Unused :
         /\ Push(a, Position(d))
         /\ heap' = [heap EXCEPT ![a] = [taskID |-> k, delay |-> d,
                       circle |-> Circle(d), diffPos |-> 0,
                       task |-> t, removed |-> FALSE]]
         /\ timers' = IF k = NilKey THEN timers ELSE
                [timers EXCEPT ![k] = [pos |-> Position(d), item |-> a]]
         /\ left' = [left EXCEPT ![a] = Steps(d)]
         /\ moved' = moved \ {a}
         /\ UNCHANGED replaced
  BY Zenon DEF AddNew
<1>3. a \in Addr
  BY DEF Unused
<1>4. heap' \in [Addr -> Item]
  BY <1>1, <1>2, <1>3 DEF Item, TypeOK
<1>5. timers' \in [Key -> Entry]
  BY <1>1, <1>2, <1>3 DEF TypeOK, Entry
<1>. QED  BY <1>1, <1>2, <1>3, <1>4, <1>5 DEF TypeOK, Push

LEMMA TickType == TypeOK /\ Tick => TypeOK'
<1> SUFFICES ASSUME TypeOK, Tick PROVE TypeOK'
  OBVIOUS
<1>1. /\ NextPos \in Pos /\ 0 \in Pos
      /\ \A a \in Relocated : a \in Addr /\ Target(a) \in Pos
  <2>1. NextPos \in Pos
    BY HandStep DEF TypeOK
  <2>2. ASSUME NEW a \in Relocated PROVE a \in Addr /\ Target(a) \in Pos
    <3>1. a \in Addr /\ heap[a].diffPos \in Pos
      BY <2>2 DEF Relocated, Here, TypeOK, Item
    <3>2. NextPos + heap[a].diffPos \in Int
      BY <2>1, <3>1, WheelAssumption DEF Pos
    <3>. QED  BY <3>1, <3>2, DivMod, WheelAssumption, Zenon DEF Target, Pos
  <2>. QED  BY <2>1, <2>2, WheelAssumption DEF Pos
<1>2. currentPos' \in Pos
  BY <1>1 DEF Tick
<1>3. at' \in [Addr -> Pos \cup {Off}]
  BY <1>1 DEF Tick, TypeOK
<1>4. heap' \in [Addr -> Item]
  <2> DEFINE h == [a \in Addr |->
                  IF a \in Waiting THEN [heap[a] EXCEPT !.circle = @ - 1]
                  ELSE IF a \in Relocated THEN [heap[a] EXCEPT !.diffPos = 0]
                  ELSE heap[a]]
  <2>1. h \in [Addr -> Item]
    <3>1. ASSUME NEW a \in Addr
          PROVE  /\ [heap[a] EXCEPT !.circle = @ - 1] \in Item
                 /\ [heap[a] EXCEPT !.diffPos = 0] \in Item
                 /\ heap[a] \in Item
      BY <1>1 DEF TypeOK, Item
    <3>. QED  BY <3>1
  <2>2. heap' = Sweep(h)
    BY DEF Tick
  <2> HIDE DEF h
  <2>. QED  BY <2>1, <2>2, SweepType
<1>5. timers' \in [Key -> Entry]
  <2>1. PICK last \in [Key -> Addr \cup {NoAddr}] :
         /\ \A k \in Key : IF Touching(k) = {} THEN last[k] = NoAddr
                                               ELSE last[k] \in Touching(k)
         /\ timers' = [k \in Key |-> IF Touching(k) = {} THEN timers[k]
                                     ELSE EntryAfter(k, last[k])]
    BY Zenon DEF Tick
  <2>2. ASSUME NEW k \in Key, Touching(k) # {}
        PROVE  EntryAfter(k, last[k]) \in Entry
    BY <1>1, <2>1, <2>2 DEF EntryAfter, Entry, NoEntry
  <2>. QED  BY <2>1, <2>2 DEF TypeOK
<1>6. left' \in [Addr -> Int]
  BY DEF Tick, TypeOK, SweepCount
<1>7. fired' \subseteq Firing
  <2>1. ASSUME NEW a \in Due
        PROVE  [item |-> a, taskID |-> heap[a].taskID,
                task |-> heap[a].task, late |-> 1 - left[a],
                moved |-> a \in moved] \in Firing
    <3>1. a \in Addr /\ heap[a] \in Item /\ left[a] \in Int
      BY DEF Due, Here, TypeOK
    <3>2. /\ heap[a].taskID \in Key /\ heap[a].task \in Data
          /\ 1 - left[a] \in Int /\ (a \in moved) \in BOOLEAN
      BY <3>1 DEF Item
    <3>. QED  BY <3>1, <3>2, Zenon DEF Firing
  <2>. QED  BY <2>1, Zenon DEF Tick
<1>8. moved' \subseteq Addr /\ UNCHANGED <<closed, exited, replaced>>
  BY DEF Tick, TypeOK
<1>. QED  BY <1>2, <1>3, <1>4, <1>5, <1>6, <1>7, <1>8 DEF TypeOK

(* The type invariant of the wheel, for every instance.                    *)
THEOREM TypeCorrect == Spec => []TypeOK
<1>1. Init => TypeOK
  <2>1. NoEntry \in Entry /\ SlotNum - 1 \in Pos /\ 0 \in Int
    BY WheelAssumption DEF Entry, Pos
  <2>. QED  BY <2>1, BlankType DEF Init, TypeOK
<1>2. TypeOK /\ [Next]_vars => TypeOK'
  <2> SUFFICES ASSUME TypeOK, [Next]_vars PROVE TypeOK'
    OBVIOUS
  <2>1. ASSUME NEW k \in Key, NEW delay \in Delay, NEW t \in Data,
               AddTimer(k, delay, t)
        PROVE  TypeOK'
    <3> DEFINE d == AtLeastInterval(delay)
               a == timers[k].item
               h == [heap EXCEPT ![a].task = t]
    <3>1. d \in Nat
      BY <2>1, WheelAssumption DEF AddTimer, AtLeastInterval
    <3>2. fired' = {} /\ UNCHANGED <<currentPos, closed, exited>>
      BY <2>1 DEF AddTimer
    <3>3. CASE AddNew(k, d, t)
      <4> HIDE DEF d
      <4>. QED  BY <3>1, <3>2, <3>3, AddNewType DEF TypeOK
    <3>4. CASE timers[k] # NoEntry /\ Move(k, h, heap[a].delay)
      <4>1. a \in Addr
        BY <3>4, IndexedEntry
      <4>2. h \in [Addr -> Item] /\ heap[a].delay \in Nat
        BY <4>1 DEF TypeOK, Item
      <4> HIDE DEF h, a
      <4>. QED  BY <3>2, <3>4, <4>2, MoveType DEF TypeOK
    <3>. QED  BY <2>1, <3>3, <3>4, Zenon DEF AddTimer
  <2>2. ASSUME NEW k \in Key, NEW d \in Delay, ResetTask(k, d) PROVE TypeOK'
    <3>1. d \in Nat /\ heap \in [Addr -> Item]
      BY <2>2, WheelAssumption DEF ResetTask, TypeOK
    <3>. QED  BY <2>2, <3>1, MoveType DEF ResetTask, TypeOK
  <2>3. ASSUME NEW k \in Key, RemoveTask(k) PROVE TypeOK'
    <3>1. timers[k].item \in Addr
      BY <2>3, IndexedEntry DEF RemoveTask
    <3>2. [heap EXCEPT ![timers[k].item].removed = TRUE] \in [Addr -> Item]
      BY <3>1 DEF TypeOK, Item
    <3>3. heap' \in [Addr -> Item]
      BY <2>3, <3>2, SweepType DEF RemoveTask
    <3>4. NoEntry \in Entry
      BY DEF Entry
    <3>5. timers' \in [Key -> Entry]
      BY <2>3, <3>4 DEF RemoveTask, TypeOK
    <3>6. left' \in [Addr -> Int]
      BY <2>3 DEF RemoveTask, TypeOK, SweepCount
    <3>. QED  BY <2>3, <3>3, <3>5, <3>6 DEF RemoveTask, TypeOK
  <2>4. CASE Tick
    BY <2>4, TickType
  <2>5. CASE Stop
    BY <2>5 DEF Stop, wheel, history, TypeOK
  <2>6. CASE Exit
    BY <2>6 DEF Exit, wheel, history, TypeOK
  <2>7. CASE UNCHANGED vars
    BY <2>7 DEF vars, TypeOK
  <2>. QED  BY <2>1, <2>2, <2>3, <2>4, <2>5, <2>6, <2>7 DEF Next
<1>. QED  BY <1>1, <1>2, PTL DEF Spec

-----------------------------------------------------------------------------
(* The schedule.  IndexConsistent is what makes OnSchedule inductive: a    *)
(* redirected item's diffPos is relative to the slot timers names, which   *)
(* has to be the slot the item is in.                                      *)
WheelInv == TypeOK /\ IndexConsistent /\ OnSchedule /\ Removable

(* h schedules every item as heap does.                                    *)
SameSchedule(h) ==
    \A b \in Addr : /\ h[b].taskID = heap[b].taskID
                    /\ h[b].circle = heap[b].circle
                    /\ h[b].diffPos = heap[b].diffPos
                    /\ h[b].removed = heap[b].removed

RoundsOf(c) == IF c > 0 THEN c ELSE 0

(* moveTask that redirects item a: all but its schedule stays, and the new *)
(* one is off by no more than a revolution.                                *)
LEMMA RedirectInv ==
    ASSUME WheelInv, currentPos' = currentPos,
           NEW k \in Key, timers[k] # NoEntry,
           NEW h \in [Addr -> Item], SameSchedule(h), NEW d \in Nat,
           NEW c \in Int, NEW diff \in Pos, Redirect(k, h, d, c, diff),
           Dist(timers[k].pos) + RoundsOf(c) * SlotNum + diff - Steps(d)
              \in {-SlotNum, 0, SlotNum}
    PROVE  IndexConsistent' /\ OnSchedule' /\ Removable'
<1> DEFINE a == timers[k].item
<1>1. a \in Addr /\ timers[k].pos \in Pos /\ a # NoAddr
  BY IndexedEntry, WheelAssumption DEF WheelInv
<1>2. /\ \A b \in Addr : /\ heap'[b].taskID = heap[b].taskID
                         /\ heap'[b].removed = heap[b].removed
      /\ \A b \in Addr \ {a} : /\ heap'[b].circle = heap[b].circle
                               /\ heap'[b].diffPos = heap[b].diffPos
                               /\ left'[b] = left[b]
                               /\ b \in moved' <=> b \in moved
      /\ heap'[a].circle = c /\ heap'[a].diffPos = diff
      /\ left'[a] = Steps(d) /\ a \in moved'
      /\ at' = at /\ timers' = timers /\ replaced' = replaced
  BY <1>1 DEF Redirect, SameSchedule, Item, WheelInv, TypeOK
<1>3. IndexConsistent'
  BY <1>2, WheelAssumption DEF IndexConsistent, WheelInv, TypeOK, Entry, NoEntry
<1>4. OnSchedule'
  <2> SUFFICES ASSUME NEW b \in Addr, Live(b)'
               PROVE  /\ (Remaining(b) - left[b])' \in {-SlotNum, 0, SlotNum}
                      /\ b \notin moved' => (Remaining(b) - left[b])' = 0
    BY DEF OnSchedule
  <2>1. Live(b)
    BY <1>2 DEF Live
  <2>2. CASE b # a
    <3>1. (Remaining(b) - left[b])' = Remaining(b) - left[b]
      BY <1>2, <2>2 DEF Remaining, Dist, Rounds
    <3>. QED  BY <1>2, <2>1, <2>2, <3>1 DEF WheelInv, OnSchedule
  <2>3. CASE b = a
    <3>1. at[a] = timers[k].pos
      BY <1>1, <2>1, <2>3 DEF WheelInv, IndexConsistent, Live
    <3>3. left'[b] = Steps(d) /\ b \in moved'
      BY <1>2, <2>3
    <3> DEFINE r == Dist(timers[k].pos) + RoundsOf(c) * SlotNum + diff
    <3>4. Remaining(b)' = r
      BY <1>2, <2>3, <3>1 DEF Remaining, Dist, Rounds, RoundsOf
    <3>5. /\ Dist(timers[k].pos) \in Int /\ Steps(d) \in Int
          /\ RoundsOf(c) * SlotNum \in Int /\ diff \in Int
      BY <1>1, Landing, WheelAssumption
      DEF WheelInv, TypeOK, Dist, Pos, RoundsOf
    <3>6. r - Steps(d) \in {-SlotNum, 0, SlotNum} /\ r \in Int
      BY <3>5
    <3> HIDE DEF r
    <3>. QED  BY <3>3, <3>4, <3>5, <3>6
  <2>. QED  BY <2>2, <2>3
<1>5. Removable'
  BY <1>2 DEF WheelInv, Removable, Live
<1>. QED  BY <1>3, <1>4, <1>5

LEMMA ReplaceInv ==
    ASSUME WheelInv, currentPos' = currentPos,
           NEW k \in Key, timers[k] # NoEntry,
           NEW h \in [Addr -> Item], SameSchedule(h), NEW d \in Nat,
           Replace(k, h, d), ~(Circle(d) > 0)
    PROVE  IndexConsistent' /\ OnSchedule' /\ Removable'
<1> DEFINE a == timers[k].item
<1>1. a \in Addr /\ timers[k].pos \in Pos /\ a # NoAddr
  BY IndexedEntry, WheelAssumption DEF WheelInv
<1>2. PICK b \in Unused :
        /\ Push(b, Position(d))
        /\ heap' = [h EXCEPT ![a].removed = TRUE,
                             ![b] = [taskID |-> k, delay |-> d, circle |-> 0,
                                     diffPos |-> 0, task |-> h[a].task,
                                     removed |-> FALSE]]
        /\ timers' = [timers EXCEPT ![k].pos = Position(d)]
        /\ left' = [left EXCEPT ![b] = Steps(d)]
        /\ moved' = moved \cup {b}
        /\ replaced' = replaced \cup {k}
  BY Zenon DEF Replace
<1>3. b \in Addr /\ at[b] = Off /\ \A j \in Key : timers[j].item # b
  BY DEF Unused, Referenced
<1>4. /\ heap'[a].removed = TRUE /\ heap'[a].taskID = heap[a].taskID
      /\ heap'[b].circle = 0 /\ heap'[b].diffPos = 0
      /\ heap'[b].taskID = k
      /\ at'[b] = Position(d) /\ left'[b] = Steps(d)
      /\ \A x \in Addr \ {a, b} :
            /\ heap'[x].taskID = heap[x].taskID
            /\ heap'[x].circle = heap[x].circle
            /\ heap'[x].diffPos = heap[x].diffPos
            /\ heap'[x].removed = heap[x].removed
  BY <1>1, <1>2, <1>3 DEF SameSchedule, Item, WheelInv, TypeOK, Push
<1>5. /\ \A x \in Addr \ {b} : at'[x] = at[x] /\ left'[x] = left[x]
      /\ \A j \in Key : timers'[j].item = timers[j].item
      /\ \A j \in Key \ {k} : timers'[j] = timers[j]
  BY <1>1, <1>2, <1>3 DEF WheelInv, TypeOK, Entry, Push
<1>6. IndexConsistent'
  <2> SUFFICES ASSUME NEW j \in Key, timers'[j].item # NoAddr
               PROVE  LET x == timers'[j].item IN
                      /\ heap'[x].taskID = j
                      /\ heap'[x].removed \/ at'[x] = timers'[j].pos
    BY DEF IndexConsistent
  <2> DEFINE x == timers[j].item
  <2>1. timers'[j].item = x /\ x # b /\ x \in Addr
    BY <1>3, <1>5 DEF WheelInv, TypeOK, Entry, NoEntry
  <2>2. /\ heap[x].taskID = j
        /\ heap[x].removed \/ at[x] = timers[j].pos
    BY <1>5, <2>1 DEF WheelInv, IndexConsistent
  <2>3. CASE x = a
    BY <1>4, <2>1, <2>2, <2>3
  <2>4. CASE x # a
    <3>1. j # k
      BY <2>4
    <3>. QED  BY <1>4, <1>5, <2>1, <2>2, <2>4, <3>1
  <2>. QED  BY <2>3, <2>4
<1>7. OnSchedule'
  <2> SUFFICES ASSUME NEW x \in Addr, Live(x)'
               PROVE  /\ (Remaining(x) - left[x])' \in {-SlotNum, 0, SlotNum}
                      /\ x \notin moved' => (Remaining(x) - left[x])' = 0
    BY DEF OnSchedule
  <2>1. CASE x = b
    <3>1. Remaining(x)' = Dist(Position(d))
      <4>1. Position(d) \in Pos /\ currentPos \in Pos /\ 0 * SlotNum = 0
        BY Landing, WheelAssumption DEF WheelInv, TypeOK
      <4>2. Rounds(x)' = 0
        BY <1>4, <2>1 DEF Rounds
      <4>3. Remaining(x)' = Dist(Position(d)) + 0 * SlotNum + 0
        BY <1>4, <2>1, <4>2 DEF Remaining, Dist
      <4>4. Dist(Position(d)) \in Int
        BY <4>1, WheelAssumption DEF Dist, Pos
      <4>. QED  BY <4>1, <4>3, <4>4
    <3>2. Dist(Position(d)) - Steps(d) \in {0, SlotNum}
      <4>1. CASE Steps(d) >= 1
        <5>1. Circle(d) = 0
          BY <4>1, Landing DEF WheelInv, TypeOK
        <5>. QED  BY <4>1, <5>1, Landing, WheelAssumption
                  DEF WheelInv, TypeOK, Dist, Pos
      <4>2. CASE Steps(d) = 0
        BY <4>2, Landing, WheelAssumption DEF WheelInv, TypeOK, Dist, Pos
      <4>. QED  BY <4>1, <4>2, Landing DEF WheelInv, TypeOK
    <3>. QED  BY <1>2, <1>4, <2>1, <3>1, <3>2
  <2>2. CASE x # b
    <3>1. x # a
      BY <1>4 DEF Live
    <3>2. Live(x) /\ (Remaining(x) - left[x])' = Remaining(x) - left[x]
      BY <1>4, <1>5, <2>2, <3>1 DEF Live, Remaining, Dist, Rounds
    <3>. QED  BY <1>2, <2>2, <3>2 DEF WheelInv, OnSchedule
  <2>. QED  BY <2>1, <2>2
<1>8. Removable'
  <2> SUFFICES ASSUME NEW x \in Addr, Live(x)', heap'[x].taskID # NilKey
               PROVE  \/ timers'[heap'[x].taskID].item = x
                      \/ heap'[x].taskID \in replaced'
    BY DEF Removable
  <2>1. CASE x = b
    BY <1>2, <1>4, <2>1
  <2>2. CASE x # b
    <3>1. x # a
      BY <1>4 DEF Live
    <3>2. Live(x) /\ heap'[x].taskID = heap[x].taskID /\ heap[x].taskID \in Key
      BY <1>4, <1>5, <2>2, <3>1 DEF Live, WheelInv, TypeOK, Item
    <3>. QED  BY <1>2, <1>5, <3>2 DEF WheelInv, Removable
  <2>. QED  BY <2>1, <2>2
<1>. QED  BY <1>6, <1>7, <1>8

(* moveTask: the two redirections are off by a revolution at most, as they *)
(* compare slot numbers without looking at the hand.                       *)
LEMMA MoveInv ==
    ASSUME WheelInv, currentPos' = currentPos,
           NEW k \in Key, timers[k] # NoEntry,
           NEW h \in [Addr -> Item], SameSchedule(h), NEW d \in Nat,
           Move(k, h, d)
    PROVE  IndexConsistent' /\ OnSchedule' /\ Removable'
<1> DEFINE old == timers[k].pos
           new == Position(d)
           circle == Circle(d)
           steps == Steps(d)
<1>1. /\ old \in Pos /\ new \in Pos /\ circle \in Int /\ steps \in Nat
      /\ currentPos \in Pos /\ SlotNum \in Nat \ {0}
  BY IndexedEntry, Landing, WheelAssumption DEF WheelInv, TypeOK
<1>2. /\ steps >= 1 => circle \in Nat /\ Dist(new) + circle * SlotNum = steps
      /\ steps = 0 => new = currentPos /\ ~(circle > 0)
  BY Landing DEF WheelInv, TypeOK
<1>3. CASE new >= old /\ Redirect(k, h, d, circle, new - old)
  <2>1. new - old \in Pos
    BY <1>1, <1>3 DEF Pos
  <2> HIDE DEF old, new, circle, steps
  <2>2. Dist(old) + RoundsOf(circle) * SlotNum + (new - old) - steps
           \in {-SlotNum, 0, SlotNum}
    <3>1. CASE steps >= 1
      <4>1. RoundsOf(circle) = circle /\ circle * SlotNum \in Int
        BY <1>1, <1>2, <3>1 DEF RoundsOf
      <4>. QED  BY <1>1, <1>2, <1>3, <3>1, <4>1 DEF Dist, Pos
    <3>2. CASE steps = 0
      <4>1. RoundsOf(circle) * SlotNum = 0
        BY <1>1, <1>2, <3>2 DEF RoundsOf
      <4>. QED  BY <1>1, <1>2, <1>3, <3>2, <4>1 DEF Dist, Pos
    <3>. QED  BY <1>1, <3>1, <3>2
  <2>. QED  BY <1>1, <1>3, <2>1, <2>2, RedirectInv DEF old, new, circle, steps
<1>4. CASE /\ new < old /\ circle > 0
           /\ Redirect(k, h, d, circle - 1, SlotNum - old + new)
  <2>1. SlotNum - old + new \in Pos /\ circle - 1 \in Int
    BY <1>1, <1>4 DEF Pos
  <2> HIDE DEF old, new, circle, steps
  <2>2. Dist(old) + RoundsOf(circle - 1) * SlotNum + (SlotNum - old + new)
           - steps \in {-SlotNum, 0, SlotNum}
    <3>1. steps >= 1
      BY <1>1, <1>2, <1>4
    <3>2. /\ RoundsOf(circle - 1) = circle - 1 /\ circle * SlotNum \in Int
          /\ (circle - 1) * SlotNum = circle * SlotNum - SlotNum
      BY <1>1, <1>4, OneRoundLess DEF RoundsOf
    <3>. QED  BY <1>1, <1>2, <1>4, <3>1, <3>2 DEF Dist, Pos
  <2>. QED  BY <1>1, <1>4, <2>1, <2>2, RedirectInv DEF old, new, circle, steps
<1>5. CASE ~(circle > 0) /\ Replace(k, h, d)
  BY <1>5, ReplaceInv
<1>. QED  BY <1>3, <1>4, <1>5, Zenon DEF Move

LEMMA AddNewInv ==
    ASSUME WheelInv, currentPos' = currentPos, NEW k \in Key, NEW d \in Nat,
           d >= Interval, NEW t \in Data, AddNew(k, d, t)
    PROVE  IndexConsistent' /\ OnSchedule' /\ Removable'
<1>1. PICK a \in Unused :
         /\ Push(a, Position(d))
         /\ heap' = [heap EXCEPT ![a] = [taskID |-> k, delay |-> d,
                       circle |-> Circle(d), diffPos |-> 0,
                       task |-> t, removed |-> FALSE]]
         /\ timers' = IF k = NilKey THEN timers ELSE
                [timers EXCEPT ![k] = [pos |-> Position(d), item |-> a]]
         /\ left' = [left EXCEPT ![a] = Steps(d)]
         /\ moved' = moved \ {a}
         /\ UNCHANGED replaced
  BY Zenon DEF AddNew
<1>2. a \in Addr /\ at[a] = Off /\ \A j \in Key : timers[j].item # a
  BY DEF Unused, Referenced
<1>3. /\ heap'[a].taskID = k /\ heap'[a].circle = Circle(d)
      /\ heap'[a].diffPos = 0 /\ heap'[a].removed = FALSE
      /\ at'[a] = Position(d) /\ left'[a] = Steps(d)
      /\ \A x \in Addr \ {a} : /\ heap'[x] = heap[x] /\ at'[x] = at[x]
                               /\ left'[x] = left[x]
                               /\ x \in moved' <=> x \in moved
  BY <1>1, <1>2 DEF WheelInv, TypeOK, Push
<1>4. /\ \A j \in Key \ {k} : timers'[j] = timers[j]
      /\ k # NilKey => timers'[k] = [pos |-> Position(d), item |-> a]
      /\ k = NilKey => timers'[k] = timers[k]
      /\ timers[k].item = NoAddr
  BY <1>1 DEF WheelInv, TypeOK, AddNew, NoEntry
<1>5. IndexConsistent'
  BY <1>2, <1>3, <1>4, WheelAssumption
  DEF WheelInv, TypeOK, IndexConsistent, Entry, NoEntry
<1>6. OnSchedule'
  <2> SUFFICES ASSUME NEW x \in Addr, Live(x)'
               PROVE  /\ (Remaining(x) - left[x])' \in {-SlotNum, 0, SlotNum}
                      /\ x \notin moved' => (Remaining(x) - left[x])' = 0
    BY DEF OnSchedule
  <2>1. CASE x = a
    <3>1. /\ Circle(d) \in Nat /\ Steps(d) \in Nat
          /\ Dist(Position(d)) + Circle(d) * SlotNum = Steps(d)
      BY Landing DEF WheelInv, TypeOK
    <3>2. Remaining(x)' = Dist(Position(d)) + Circle(d) * SlotNum + 0
      BY <1>3, <2>1, <3>1 DEF Remaining, Dist, Rounds
    <3>3. left'[x] = Steps(d)
      BY <1>3, <2>1
    <3>. QED  BY <3>1, <3>2, <3>3
  <2>2. CASE x # a
    <3>1. Live(x) /\ (Remaining(x) - left[x])' = Remaining(x) - left[x]
      BY <1>3, <2>2 DEF Live, Remaining, Dist, Rounds
    <3>. QED  BY <1>3, <2>2, <3>1 DEF WheelInv, OnSchedule
  <2>. QED  BY <2>1, <2>2
<1>7. Removable'
  <2> SUFFICES ASSUME NEW x \in Addr, Live(x)', heap'[x].taskID # NilKey
               PROVE  \/ timers'[heap'[x].taskID].item = x
                      \/ heap'[x].taskID \in replaced'
    BY DEF Removable
  <2>1. CASE x = a
    BY <1>3, <1>4, <2>1
  <2>2. CASE x # a
    <3>1. Live(x) /\ heap'[x].taskID = heap[x].taskID /\ heap[x].taskID \in Key
      BY <1>3, <2>2 DEF Live, WheelInv, TypeOK, Item
    <3>. QED  BY <1>1, <1>4, <3>1, WheelAssumption DEF WheelInv, Removable
  <2>. QED  BY <2>1, <2>2
<1>. QED  BY <1>5, <1>6, <1>7

LEMMA RemoveInv ==
    ASSUME WheelInv, NEW k \in Key, RemoveTask(k)
    PROVE  IndexConsistent' /\ OnSchedule' /\ Removable'
<1> DEFINE a == timers[k].item
<1>1. a \in Addr
  BY IndexedEntry DEF WheelInv, RemoveTask
<1>2. /\ currentPos' = currentPos /\ at' = at /\ replaced' = replaced
      /\ timers'[k] = NoEntry
      /\ \A j \in Key \ {k} : timers'[j] = timers[j]
  BY DEF RemoveTask, WheelInv, TypeOK
<1>3. \A x \in Addr : Referenced(x)' =>
         /\ heap'[x].taskID = heap[x].taskID /\ heap'[x].circle = heap[x].circle
         /\ heap'[x].diffPos = heap[x].diffPos
         /\ x = a => heap'[x].removed
         /\ x # a => heap'[x].removed = heap[x].removed
         /\ left'[x] = left[x] /\ (x \in moved' <=> x \in moved)
  BY <1>1 DEF RemoveTask, Sweep, SweepCount, WheelInv, TypeOK, Item
<1>4. IndexConsistent'
  <2> SUFFICES ASSUME NEW j \in Key, timers'[j].item # NoAddr
               PROVE  LET x == timers'[j].item IN
                      /\ heap'[x].taskID = j
                      /\ heap'[x].removed \/ at'[x] = timers'[j].pos
    BY DEF IndexConsistent
  <2>1. j # k /\ timers'[j] = timers[j]
    BY <1>2 DEF NoEntry
  <2>2. PICK x \in Addr : x = timers[j].item
    BY <2>1 DEF WheelInv, TypeOK, Entry, NoEntry
  <2>3. Referenced(x)'
    BY <2>1, <2>2 DEF Referenced
  <2>4. heap[x].taskID = j /\ (heap[x].removed \/ at[x] = timers[j].pos)
    BY <2>1, <2>2 DEF WheelInv, IndexConsistent
  <2>5. heap'[x].taskID = j /\ (heap'[x].removed \/ at'[x] = timers'[j].pos)
    BY <1>2, <1>3, <2>1, <2>3, <2>4
  <2>. QED  BY <2>1, <2>2, <2>5
<1>5. ASSUME NEW x \in Addr, Live(x)' PROVE Live(x) /\ x # a /\ Referenced(x)'
  <2>1. Referenced(x)'
    BY <1>5 DEF Live, Referenced
  <2>. QED  BY <1>2, <1>3, <1>5, <2>1 DEF Live
<1>6. OnSchedule'
  <2> SUFFICES ASSUME NEW x \in Addr, Live(x)'
               PROVE  /\ (Remaining(x) - left[x])' \in {-SlotNum, 0, SlotNum}
                      /\ x \notin moved' => (Remaining(x) - left[x])' = 0
    BY DEF OnSchedule
  <2>1. Live(x) /\ Referenced(x)'
    BY <1>5
  <2>2. (Remaining(x) - left[x])' = Remaining(x) - left[x]
    BY <1>2, <1>3, <2>1 DEF Remaining, Dist, Rounds
  <2>. QED  BY <1>3, <2>1, <2>2 DEF WheelInv, OnSchedule
<1>7. Removable'
  <2> SUFFICES ASSUME NEW x \in Addr, Live(x)', heap'[x].taskID # NilKey
               PROVE  \/ timers'[heap'[x].taskID].item = x
                      \/ heap'[x].taskID \in replaced'
    BY DEF Removable
  <2>1. Live(x) /\ x # a /\ heap'[x].taskID = heap[x].taskID
    BY <1>3, <1>5
  <2>2. heap[x].taskID \in Key
    BY DEF WheelInv, TypeOK, Item
  <2>. QED  BY <1>2, <2>1, <2>2 DEF WheelInv, Removable
<1>. QED  BY <1>4, <1>6, <1>7

(* One tick, item by item: what is due fires with one tick left, and every *)
(* other pending item has one tick less; nothing becomes pending.          *)
LEMMA TickItem ==
    ASSUME WheelInv, Tick, NEW a \in Addr
    PROVE  /\ Live(a)' => Live(a) /\ a \notin Due
           /\ a \in Due => Live(a) /\ Remaining(a) = 1
           /\ Live(a) /\ a \notin Due =>
                /\ Live(a)' /\ Remaining(a)' = Remaining(a) - 1
                /\ heap'[a].taskID = heap[a].taskID
                /\ left'[a] = left[a] - 1 /\ (a \in moved' <=> a \in moved)
<1> DEFINE pos == at[a]
           c == heap[a].circle
           diff == heap[a].diffPos
<1>1. /\ currentPos \in Pos /\ pos \in Pos \cup {Off} /\ c \in Int
      /\ diff \in Pos /\ left[a] \in Int /\ heap[a] \in Item
      /\ heap[a].removed \in BOOLEAN /\ SlotNum \in Nat \ {0}
  BY WheelAssumption DEF WheelInv, TypeOK, Item
<1>2. /\ NextPos \in Pos /\ currentPos' = NextPos /\ NextPos # Off
      /\ NextPos = IF currentPos + 1 = SlotNum THEN 0 ELSE currentPos + 1
  <2>1. NextPos \in Pos
    BY <1>1, HandStep
  <2>2. NextPos # Off
    BY <2>1 DEF Pos, Off
  <2>. QED  BY <1>1, <2>1, <2>2, HandStep DEF Tick
<1>3. at'[a] = IF a \in Dropped \cup Due THEN Off
               ELSE IF a \in Relocated THEN Target(a) ELSE at[a]
  BY DEF Tick
<1>4. at'[a] # Off =>
        /\ heap'[a] = IF a \in Waiting THEN [heap[a] EXCEPT !.circle = @ - 1]
                      ELSE IF a \in Relocated THEN [heap[a] EXCEPT !.diffPos = 0]
                      ELSE heap[a]
        /\ left'[a] = IF Live(a) THEN left[a] - 1 ELSE 0
        /\ (a \in moved' <=> a \in moved)
  BY DEF Tick, Sweep, SweepCount, Referenced
<1>5. Live(a)' => Live(a) /\ a \notin Due
  <2> SUFFICES ASSUME Live(a)' PROVE Live(a) /\ a \notin Due
    OBVIOUS
  <2>1. at'[a] # Off /\ ~heap'[a].removed
    BY DEF Live
  <2>2. at[a] # Off /\ a \notin Dropped /\ a \notin Due
    BY <1>2, <1>3, <2>1 DEF Relocated, Here
  <2>3. ~heap[a].removed
    BY <1>1, <1>4, <2>1, <2>2 DEF Item
  <2>. QED  BY <2>2, <2>3 DEF Live
<1>6. Dist(NextPos) = 1
  BY <1>1, <1>2 DEF Dist, Pos
<1>7. a \in Due => Live(a) /\ Remaining(a) = 1
  <2> SUFFICES ASSUME a \in Due PROVE Live(a) /\ Remaining(a) = 1
    OBVIOUS
  <2>1. at[a] = NextPos /\ ~heap[a].removed /\ ~(c > 0) /\ ~(diff > 0)
    BY DEF Due, Here
  <2>2. diff = 0 /\ Rounds(a) * SlotNum = 0
    BY <1>1, <2>1 DEF Pos, Rounds
  <2>. QED  BY <1>2, <1>6, <2>1, <2>2 DEF Live, Remaining
<1>8. ASSUME Live(a), a \notin Due
      PROVE  /\ Live(a)' /\ Remaining(a)' = Remaining(a) - 1
             /\ heap'[a].taskID = heap[a].taskID
             /\ left'[a] = left[a] - 1 /\ (a \in moved' <=> a \in moved)
  <2>1. ~heap[a].removed /\ pos \in Pos /\ a \notin Dropped
    BY <1>1, <1>8 DEF Live, Dropped
  <2>2. CASE a \in Waiting
    <3>1. at[a] = NextPos /\ c > 0 /\ a \notin Relocated
      BY <2>2 DEF Waiting, Here, Relocated
    <3>2. at'[a] = NextPos
      BY <1>3, <1>8, <2>1, <3>1
    <3>3. /\ heap'[a].circle = c - 1 /\ heap'[a].diffPos = diff
          /\ heap'[a].removed = heap[a].removed
          /\ heap'[a].taskID = heap[a].taskID
      BY <1>1, <1>2, <1>4, <2>2, <3>2 DEF Item
    <3>4. Live(a)'
      BY <1>2, <2>1, <3>2, <3>3 DEF Live
    <3>5. Remaining(a) = 1 + c * SlotNum + diff
      BY <1>6, <3>1 DEF Remaining, Rounds
    <3>6. Remaining(a)' = SlotNum + (c - 1) * SlotNum + diff
      <4>1. Dist(at[a])' = SlotNum
        BY <1>1, <1>2, <3>2 DEF Dist, Pos
      <4>2. Rounds(a)' = c - 1
        BY <1>1, <3>1, <3>3 DEF Rounds
      <4>. QED  BY <3>3, <4>1, <4>2 DEF Remaining
    <3>7. Remaining(a)' = Remaining(a) - 1
      <4>1. diff \in Int
        BY <1>1 DEF Pos
      <4> HIDE DEF c, diff
      <4>2. (c - 1) * SlotNum = c * SlotNum - SlotNum /\ c * SlotNum \in Int
        BY <1>1, OneRoundLess
      <4>. QED  BY <1>1, <3>5, <3>6, <4>1, <4>2
    <3>. QED  BY <1>2, <1>4, <1>8, <3>2, <3>3, <3>4, <3>7
  <2>3. CASE a \in Relocated
    <3>1. /\ at[a] = NextPos /\ ~(c > 0) /\ diff > 0 /\ a \notin Waiting
          /\ diff \in 1 .. SlotNum - 1
      BY <1>1, <2>3 DEF Waiting, Here, Relocated, Pos
    <3>2. at'[a] = Target(a)
      BY <1>3, <1>8, <2>1, <2>3
    <3>3. Target(a) = IF NextPos + diff < SlotNum THEN NextPos + diff
                      ELSE NextPos + diff - SlotNum
      BY <1>1, <1>2, <3>1, Ahead DEF Target, Pos
    <3>4. Target(a) \in Pos /\ Target(a) # Off
      BY <1>1, <1>2, <3>1, <3>3 DEF Pos, Off
    <3>5. /\ heap'[a].circle = c /\ heap'[a].diffPos = 0
          /\ heap'[a].removed = heap[a].removed
          /\ heap'[a].taskID = heap[a].taskID
      BY <1>1, <1>4, <2>3, <3>1, <3>2, <3>4 DEF Item
    <3>6. Live(a)'
      BY <2>1, <3>2, <3>4, <3>5 DEF Live
    <3>7. Rounds(a) * SlotNum = 0 /\ (Rounds(a) * SlotNum)' = 0
      BY <1>1, <3>1, <3>5 DEF Rounds
    <3>8. Remaining(a) = 1 + 0 + diff
      BY <1>6, <3>1, <3>7 DEF Remaining
    <3>9. Dist(at[a])' = diff
      BY <1>1, <1>2, <3>1, <3>2, <3>3 DEF Dist, Pos
    <3>10. Remaining(a)' = diff + 0 + 0
      BY <3>5, <3>7, <3>9 DEF Remaining
    <3>. QED  BY <1>4, <1>8, <3>1, <3>2, <3>4, <3>5, <3>6, <3>8, <3>10
  <2>4. CASE a \notin Waiting /\ a \notin Relocated
    <3>1. pos # NextPos
      BY <1>8, <2>1, <2>4 DEF Waiting, Relocated, Due, Here
    <3>2. at'[a] = pos /\ at'[a] # Off
      BY <1>3, <1>8, <2>1, <2>4 DEF Live
    <3>3. heap'[a] = heap[a]
      BY <1>4, <2>4, <3>2
    <3>4. Dist(at[a])' = Dist(pos) - 1 /\ Dist(pos) \in Int
      BY <1>1, <1>2, <2>1, <3>1, <3>2 DEF Dist, Pos
    <3>5. Remaining(a)' = Remaining(a) - 1
      <4>1. Rounds(a)' = Rounds(a) /\ Rounds(a) * SlotNum \in Int
        BY <1>1, <3>3 DEF Rounds
      <4>2. diff \in Int /\ heap'[a].diffPos = diff
        BY <1>1, <3>3 DEF Pos
      <4>. QED  BY <3>4, <4>1, <4>2 DEF Remaining
    <3>. QED  BY <1>4, <1>8, <2>1, <3>2, <3>3, <3>5 DEF Live
  <2>. QED  BY <2>2, <2>3, <2>4
<1>. QED  BY <1>5, <1>7, <1>8

LEMMA TickInv ==
    ASSUME WheelInv, Tick
    PROVE  IndexConsistent' /\ OnSchedule' /\ Removable' /\ FiredInWindow'
<1>1. PICK last \in [Key -> Addr \cup {NoAddr}] :
         /\ \A k \in Key : IF Touching(k) = {} THEN last[k] = NoAddr
                                               ELSE last[k] \in Touching(k)
         /\ timers' = [k \in Key |-> IF Touching(k) = {} THEN timers[k]
                                     ELSE EntryAfter(k, last[k])]
  BY Zenon DEF Tick
<1>2. /\ \A k \in Key : Touching(k) = {} => timers'[k] = timers[k]
      /\ \A k \in Key : Touching(k) # {} => /\ last[k] \in Touching(k)
                                           /\ timers'[k] = EntryAfter(k, last[k])
  BY <1>1
<1>3. \A k \in Key : \A x \in Touching(k) :
         /\ x \in Addr /\ x # NoAddr /\ ~heap[x].removed
         /\ x \in Relocated \cup Due /\ heap[x].taskID = k
         /\ at[x] # Off
  <2>1. NextPos # Off
    BY HandStep DEF WheelInv, TypeOK, Pos, Off
  <2>. QED  BY <2>1, WheelAssumption DEF Touching, Relocated, Due, Here
<1>4. IndexConsistent'
  <2> SUFFICES ASSUME NEW k \in Key, timers'[k].item # NoAddr
               PROVE  LET x == timers'[k].item IN
                      /\ heap'[x].taskID = k
                      /\ heap'[x].removed \/ at'[x] = timers'[k].pos
    BY DEF IndexConsistent
  <2>1. CASE Touching(k) # {}
    <3> DEFINE x == last[k]
    <3>1. x \in Touching(k) /\ timers'[k] = EntryAfter(k, x)
      BY <1>2, <2>1
    <3>2. x \in Relocated
      BY <3>1 DEF EntryAfter, NoEntry
    <3>3. /\ x \in Addr /\ ~heap[x].removed /\ heap[x].taskID = k
          /\ Live(x) /\ x \notin Due /\ x \notin Dropped
      BY <1>3, <3>1, <3>2 DEF Live, Relocated, Due, Dropped
    <3>4. at'[x] = Target(x)
      BY <3>2, <3>3 DEF Tick
    <3>5. heap'[x].taskID = k
      BY <3>3, TickItem
    <3>6. timers'[k].item = x /\ timers'[k].pos = Target(x)
      BY <3>1, <3>2 DEF EntryAfter
    <3>. QED  BY <3>4, <3>5, <3>6
  <2>2. CASE Touching(k) = {}
    <3>1. timers'[k] = timers[k]
      BY <1>2, <2>2
    <3>2. PICK x \in Addr : x = timers[k].item
      BY <3>1 DEF WheelInv, TypeOK, Entry, NoEntry
    <3>3. heap[x].taskID = k /\ (heap[x].removed \/ at[x] = timers[k].pos)
      BY <3>1, <3>2 DEF WheelInv, IndexConsistent
    <3>4. Referenced(x)'
      BY <3>1, <3>2 DEF Referenced
    <3>5. x \notin Relocated /\ x \notin Due
      BY <2>2, <3>3 DEF Touching
    <3>6. heap'[x] = IF x \in Waiting THEN [heap[x] EXCEPT !.circle = @ - 1]
                     ELSE heap[x]
      BY <3>4, <3>5 DEF Tick, Sweep
    <3>7. heap'[x].taskID = k /\ (heap[x].removed => heap'[x].removed)
      BY <3>3, <3>6 DEF WheelInv, TypeOK, Item
    <3>8. ~heap[x].removed => at'[x] = at[x]
      BY <3>5 DEF Tick, Dropped
    <3>. QED  BY <3>1, <3>2, <3>3, <3>7, <3>8
  <2>. QED  BY <2>1, <2>2
<1>5. OnSchedule'
  <2> SUFFICES ASSUME NEW a \in Addr, Live(a)'
               PROVE  /\ (Remaining(a) - left[a])' \in {-SlotNum, 0, SlotNum}
                      /\ a \notin moved' => (Remaining(a) - left[a])' = 0
    BY DEF OnSchedule
  <2> DEFINE r == Remaining(a)
             l == left[a]
  <2>1. /\ Live(a) /\ Remaining(a)' = r - 1 /\ left'[a] = l - 1
        /\ (a \in moved' <=> a \in moved)
    BY TickItem
  <2>2. /\ r - l \in {-SlotNum, 0, SlotNum}
        /\ a \notin moved => r - l = 0
    BY <2>1 DEF WheelInv, OnSchedule
  <2>3. r \in Int /\ l \in Int
    <3>1. /\ currentPos \in Int /\ at[a] \in Int /\ heap[a].diffPos \in Int
          /\ heap[a].circle \in Int /\ SlotNum \in Int /\ l \in Int
      BY WheelAssumption DEF WheelInv, TypeOK, Item, Pos, Off
    <3>. QED  BY <3>1 DEF Remaining, Dist, Rounds
  <2> HIDE DEF r, l
  <2>4. (Remaining(a) - left[a])' = r - l
    BY <2>1, <2>3
  <2>. QED  BY <2>1, <2>2, <2>4
<1>6. Removable'
  <2> SUFFICES ASSUME NEW a \in Addr, Live(a)', heap'[a].taskID # NilKey
               PROVE  \/ timers'[heap'[a].taskID].item = a
                      \/ heap'[a].taskID \in replaced'
    BY DEF Removable
  <2> DEFINE k == heap[a].taskID
  <2>1. Live(a) /\ a \notin Due /\ heap'[a].taskID = k /\ replaced' = replaced
    BY TickItem DEF Tick
  <2>2. k \in Key
    BY DEF WheelInv, TypeOK, Item
  <2>3. timers[k].item = a \/ k \in replaced
    BY <2>1 DEF WheelInv, Removable
  <2>4. CASE Touching(k) = {}
    BY <1>2, <2>1, <2>2, <2>3, <2>4
  <2>5. CASE Touching(k) # {} /\ last[k] = a
    <3>1. a \in Relocated
      BY <1>2, <1>3, <2>1, <2>2, <2>5
    <3>2. timers'[k] = EntryAfter(k, a)
      BY <1>2, <2>2, <2>5
    <3>3. timers'[k].item = a
      BY <3>1, <3>2 DEF EntryAfter
    <3>. QED  BY <2>1, <3>3
  <2>6. CASE Touching(k) # {} /\ last[k] # a
    <3>1. /\ last[k] \in Addr /\ Live(last[k])
          /\ heap[last[k]].taskID = k
      BY <1>2, <1>3, <2>2, <2>6 DEF Live
    <3>2. timers[k].item = last[k] \/ k \in replaced
      BY <2>1, <3>1 DEF WheelInv, Removable
    <3>3. timers[k].item = a => timers[k].item # last[k]
      BY <2>6
    <3>4. k \in replaced
      BY <2>3, <3>2, <3>3
    <3>. QED  BY <2>1, <3>4
  <2>. QED  BY <2>4, <2>5, <2>6
<1>7. FiredInWindow'
  <2> SUFFICES ASSUME NEW f \in fired'
               PROVE  IF f.moved THEN f.late \in {-SlotNum, 0, SlotNum}
                                 ELSE f.late = 0
    BY DEF FiredInWindow
  <2>1. PICK a \in Due : f = [item |-> a, taskID |-> heap[a].taskID,
                  task |-> heap[a].task, late |-> 1 - left[a],
                  moved |-> a \in moved]
    BY DEF Tick
  <2>2. a \in Addr /\ left[a] \in Int
    BY DEF Due, Here, WheelInv, TypeOK
  <2>3. Live(a) /\ Remaining(a) = 1
    BY <2>2, TickItem
  <2>4. /\ 1 - left[a] \in {-SlotNum, 0, SlotNum}
        /\ a \notin moved => 1 - left[a] = 0
    BY <2>2, <2>3 DEF WheelInv, OnSchedule
  <2>. QED  BY <2>1, <2>4
<1>. QED  BY <1>4, <1>5, <1>6, <1>7

(* The inductive invariant: the schedule, what the last tick fired, types. *)
WheelIInv == WheelInv /\ FiredInWindow

LEMMA InvInit == Init => WheelIInv
  <1> SUFFICES ASSUME Init PROVE WheelIInv
    OBVIOUS
  <1>1. TypeOK
    <2>1. NoEntry \in Entry /\ SlotNum - 1 \in Pos /\ 0 \in Int
      BY WheelAssumption DEF Entry, Pos
    <2>. QED  BY <2>1, BlankType DEF Init, TypeOK
  <1>2. IndexConsistent /\ OnSchedule /\ Removable /\ FiredInWindow
    BY DEF Init, IndexConsistent, OnSchedule, Removable, FiredInWindow,
           Live, NoEntry
  <1>. QED  BY <1>1, <1>2 DEF WheelIInv, WheelInv

LEMMA InvNext == WheelIInv /\ TypeOK' /\ [Next]_vars => WheelIInv'
<1> SUFFICES ASSUME WheelInv, FiredInWindow, TypeOK', [Next]_vars
             PROVE  WheelIInv'
  BY DEF WheelIInv
<1>1. ASSUME NEW k \in Key, NEW delay \in Delay, NEW t \in Data,
             AddTimer(k, delay, t)
      PROVE  WheelIInv'
  <2> DEFINE d == AtLeastInterval(delay)
             a == timers[k].item
             h == [heap EXCEPT ![a].task = t]
  <2>1. d \in Nat /\ d >= Interval
    BY <1>1, WheelAssumption DEF AddTimer, AtLeastInterval
  <2>2. fired' = {} /\ currentPos' = currentPos
    BY <1>1 DEF AddTimer
  <2>3. CASE AddNew(k, d, t)
    <3> HIDE DEF d
    <3>. QED  BY <2>1, <2>2, <2>3, AddNewInv
              DEF WheelIInv, WheelInv, FiredInWindow
  <2>4. CASE timers[k] # NoEntry /\ Move(k, h, heap[a].delay)
    <3>1. a \in Addr
      BY <2>4, IndexedEntry DEF WheelInv
    <3>2. h \in [Addr -> Item] /\ heap[a].delay \in Nat /\ SameSchedule(h)
      BY <3>1 DEF WheelInv, TypeOK, Item, SameSchedule
    <3> HIDE DEF h, a
    <3>. QED  BY <2>2, <2>4, <3>2, MoveInv
              DEF WheelIInv, WheelInv, FiredInWindow
  <2>. QED  BY <1>1, <2>3, <2>4, Zenon DEF AddTimer
<1>2. ASSUME NEW k \in Key, NEW d \in Delay, ResetTask(k, d)
      PROVE  WheelIInv'
  <2>1. d \in Nat /\ heap \in [Addr -> Item] /\ SameSchedule(heap)
    BY <1>2, WheelAssumption DEF ResetTask, WheelInv, TypeOK, SameSchedule
  <2>2. /\ timers[k] # NoEntry /\ Move(k, heap, d)
        /\ currentPos' = currentPos /\ fired' = {}
    BY <1>2 DEF ResetTask
  <2>. QED  BY <2>1, <2>2, MoveInv DEF WheelIInv, WheelInv, FiredInWindow
<1>3. ASSUME NEW k \in Key, RemoveTask(k) PROVE WheelIInv'
  <2>1. fired' = {}
    BY <1>3 DEF RemoveTask
  <2>. QED  BY <1>3, <2>1, RemoveInv DEF WheelIInv, WheelInv, FiredInWindow
<1>4. CASE Tick
  BY <1>4, TickInv DEF WheelIInv, WheelInv
<1>5. CASE Stop \/ Exit
  <2>1. UNCHANGED <<wheel, history>> /\ fired' = {}
    BY <1>5 DEF Stop, Exit
  <2>. QED  BY <2>1 DEF wheel, history, WheelIInv, WheelInv, IndexConsistent,
                 OnSchedule, Removable, FiredInWindow, Live, Remaining, Dist,
                 Rounds
<1>6. CASE UNCHANGED vars
  BY <1>6 DEF vars, WheelIInv, WheelInv, IndexConsistent, OnSchedule,
              Removable, FiredInWindow, Live, Remaining, Dist, Rounds
<1>. QED  BY <1>1, <1>2, <1>3, <1>4, <1>5, <1>6 DEF Next

(* Every state of the wheel satisfies the inductive invariant.             *)
THEOREM WheelInvariant == Spec => []WheelIInv
<1>. QED  BY InvInit, InvNext, TypeCorrect, PTL DEF Spec

(* The index names the slot every indexed, unremoved item is in.           *)
THEOREM IndexIsConsistent == Spec => []IndexConsistent
<1>1. WheelIInv => IndexConsistent
  BY DEF WheelIInv, WheelInv
<1>. QED  BY <1>1, WheelInvariant, PTL

(* Every pending task is on time, or a revolution off if it was moved.     *)
THEOREM ScheduleKept == Spec => []OnSchedule
<1>1. WheelIInv => OnSchedule
  BY DEF WheelIInv, WheelInv
<1>. QED  BY <1>1, WheelInvariant, PTL

(* A task never moved fires at exactly its tick, a moved one within one    *)
(* revolution of it.                                                       *)
THEOREM FiringWindow == Spec => []FiredInWindow
<1>1. WheelIInv => FiredInWindow
  BY DEF WheelIInv
<1>. QED  BY <1>1, WheelInvariant, PTL

(* RemoveTask reaches every pending task of an id moveTask did not         *)
(* replace.                                                                *)
THEOREM RemovalReachesTask == Spec => []Removable
<1>1. WheelIInv => Removable
  BY DEF WheelIInv, WheelInv
<1>. QED  BY <1>1, WheelInvariant, PTL

(* No tick loses, delays or duplicates a pending task.                     *)
THEOREM TicksCount == Spec => EveryTickCounts
<1> DEFINE Counted(a) ==
          \/ /\ Remaining(a) = 1
             /\ \E f \in fired' : f.item = a
             /\ ~Live(a)'
          \/ /\ Live(a)' /\ Remaining(a)' = Remaining(a) - 1
             /\ \A f \in fired' : f.item # a
<1>1. ASSUME WheelIInv, Tick, NEW a \in Addr, Live(a) PROVE Counted(a)
  <2>1. fired' = {[item |-> x, taskID |-> heap[x].taskID,
                   task |-> heap[x].task, late |-> 1 - left[x],
                   moved |-> x \in moved] : x \in Due}
    BY <1>1 DEF Tick
  <2>2. CASE a \in Due
    <3> DEFINE f == [item |-> a, taskID |-> heap[a].taskID,
                     task |-> heap[a].task, late |-> 1 - left[a],
                     moved |-> a \in moved]
    <3>1. f \in fired' /\ f.item = a
      BY <2>1, <2>2
    <3> HIDE DEF f
    <3>. QED  BY <1>1, <2>2, <3>1, TickItem DEF WheelIInv
  <2>3. CASE a \notin Due
    <3>1. ASSUME NEW f \in fired' PROVE f.item # a
      <4>1. PICK x \in Due : f.item = x
        BY <2>1
      <4>. QED  BY <2>3, <4>1
    <3>. QED  BY <1>1, <2>3, <3>1, TickItem DEF WheelIInv
  <2>. QED  BY <2>2, <2>3
<1>2. WheelIInv => [Tick => \A a \in Addr : Live(a) => Counted(a)]_vars
  BY <1>1
<1>. QED  BY <1>2, WheelInvariant, PTL DEF EveryTickCounts
-----------------------------------------------------------------------------
(* The wheel implements Timer for callers that never reset a timer.        *)

(* What holds as long as moveTask never runs: nothing was moved, nothing   *)
(* replaced, and the item an id is indexed with is pending.                *)
FreshInv ==
    /\ moved = {} /\ replaced = {}
    /\ \A k \in Indexed : timers[k] # NoEntry => Live(timers[k].item)

(* The view of an id that is indexed is not the one of an id that is not.  *)
LEMMA SetIsNotIdle ==
    ASSUME NEW n, NEW t
    PROVE  [left |-> n, task |-> t] # NoEntry
  BY DEF NoEntry

(* Every pending item has at least one tick left.                          *)
LEMMA PendingAhead ==
    ASSUME TypeOK, NEW a \in Addr, Live(a)
    PROVE  Remaining(a) \in Nat \ {0}
<1>1. /\ currentPos \in Pos /\ at[a] \in Pos /\ heap[a].diffPos \in Pos
      /\ heap[a].circle \in Int /\ SlotNum \in Nat \ {0}
  BY WheelAssumption DEF TypeOK, Live, Item
<1>2. Dist(at[a]) \in Nat \ {0}
  BY <1>1 DEF Dist, Pos
<1>3. Rounds(a) * SlotNum \in Nat
  BY <1>1 DEF Rounds
<1>. QED  BY <1>1, <1>2, <1>3 DEF Remaining, Pos

(* An indexed id's item carries that id, and has exactly the ticks left    *)
(* that its caller asked for.                                              *)
LEMMA FreshItem ==
    ASSUME WheelInv, FreshInv, NEW k \in Indexed, timers[k] # NoEntry
    PROVE  LET a == timers[k].item IN
           /\ a \in Addr /\ a # NoAddr /\ Live(a) /\ heap[a].taskID = k
           /\ left[a] = Remaining(a) /\ left[a] \in Nat \ {0}
           /\ CallerTimer[k] = [left |-> left[a], task |-> heap[a].task]
           /\ CallerTimer[k] # NoEntry
<1> DEFINE a == timers[k].item
<1>1. k \in Key /\ a \in Addr /\ a # NoAddr
  BY IndexedEntry, WheelAssumption DEF Indexed, WheelInv
<1>2. Live(a) /\ heap[a].taskID = k
  BY <1>1 DEF FreshInv, WheelInv, IndexConsistent
<1>3. Remaining(a) \in Nat \ {0} /\ left[a] \in Int
  BY <1>1, <1>2, PendingAhead DEF WheelInv, TypeOK
<1>4. Remaining(a) - left[a] = 0
  BY <1>1, <1>2 DEF WheelInv, OnSchedule, FreshInv
<1>5. left[a] = Remaining(a)
  BY <1>3, <1>4
<1>6. CallerTimer[k] = [left |-> left[a], task |-> heap[a].task]
  BY DEF CallerTimer
<1>7. CallerTimer[k] # NoEntry
  BY <1>6, SetIsNotIdle
<1>. QED  BY <1>1, <1>2, <1>3, <1>5, <1>6, <1>7

(* Only the item an id is indexed with is touched by a tick for that id.   *)
LEMMA FreshTouching ==
    ASSUME WheelInv, FreshInv, NEW k \in Indexed, NEW x \in Touching(k)
    PROVE  timers[k] # NoEntry /\ timers[k].item = x
<1>1. /\ x \in Addr /\ x # NoAddr /\ ~heap[x].removed /\ heap[x].taskID = k
      /\ at[x] = NextPos /\ k # NilKey
  BY WheelAssumption DEF Touching, Relocated, Due, Here, Indexed
<1>2. NextPos # Off
  BY HandStep DEF WheelInv, TypeOK, Pos, Off
<1>3. timers[k].item = x
  BY <1>1, <1>2 DEF Live, WheelInv, Removable, FreshInv
<1>. QED  BY <1>1, <1>3 DEF NoEntry

(* What a tick does to the timer of an indexed id.                         *)
LEMMA FreshTickIdle ==
    ASSUME WheelInv, FreshInv, Tick, NEW k \in Indexed, timers[k] = NoEntry
    PROVE  timers'[k] = NoEntry
<1>1. Touching(k) = {} /\ k \in Key
  BY FreshTouching DEF Indexed
<1>. QED  BY <1>1 DEF Tick

LEMMA FreshTickSet ==
    ASSUME WheelInv, FreshInv, Tick, NEW k \in Indexed, timers[k] # NoEntry,
           NEW a \in Addr, a = timers[k].item
    PROVE  /\ a \in Due => timers'[k] = NoEntry
           /\ a \notin Due =>
                /\ timers'[k] # NoEntry /\ timers'[k].item = a
                /\ Live(a)' /\ left'[a] = left[a] - 1
                /\ heap'[a].task = heap[a].task
<1>1. PICK last \in [Key -> Addr \cup {NoAddr}] :
         /\ \A j \in Key : IF Touching(j) = {} THEN last[j] = NoAddr
                                               ELSE last[j] \in Touching(j)
         /\ timers' = [j \in Key |-> IF Touching(j) = {} THEN timers[j]
                                     ELSE EntryAfter(j, last[j])]
  BY Zenon DEF Tick
<1>2. k \in Key
  BY DEF Indexed
<1>3. /\ Touching(k) = {} => timers'[k] = timers[k]
      /\ Touching(k) # {} => last[k] \in Touching(k) /\ timers'[k] = EntryAfter(k, last[k])
  BY <1>1, <1>2
<1>4. a # NoAddr /\ Live(a) /\ heap[a].taskID = k
  BY FreshItem
<1>5. Touching(k) # {} => last[k] = a
  BY <1>3, FreshTouching
<1>6. ASSUME a \in Due PROVE timers'[k] = NoEntry
  <2>1. a \in Touching(k) /\ a \notin Relocated
    BY <1>4, <1>6 DEF Touching, Due, Relocated
  <2>. QED  BY <1>3, <1>5, <2>1 DEF EntryAfter
<1>7. ASSUME a \notin Due
      PROVE  /\ timers'[k] # NoEntry /\ timers'[k].item = a
             /\ Live(a)' /\ left'[a] = left[a] - 1
             /\ heap'[a].task = heap[a].task
  <2>1. Live(a)' /\ left'[a] = left[a] - 1
    BY <1>4, <1>7, TickItem
  <2>2. timers'[k].item = a
    <3>1. CASE Touching(k) = {}
      BY <1>3, <3>1
    <3>2. CASE Touching(k) # {}
      <4>1. a \in Relocated /\ timers'[k] = EntryAfter(k, a)
        BY <1>3, <1>5, <1>7, <3>2 DEF Touching
      <4>. QED  BY <4>1 DEF EntryAfter
    <3>. QED  BY <3>1, <3>2
  <2>3. Referenced(a)'
    BY <2>1 DEF Live, Referenced
  <2>4. heap'[a] = IF a \in Waiting THEN [heap[a] EXCEPT !.circle = @ - 1]
                   ELSE IF a \in Relocated THEN [heap[a] EXCEPT !.diffPos = 0]
                   ELSE heap[a]
    BY <2>3 DEF Tick, Sweep
  <2>5. heap'[a].task = heap[a].task
    BY <2>4 DEF WheelInv, TypeOK, Item
  <2>6. timers'[k] # NoEntry
    BY <1>4, <2>2 DEF NoEntry
  <2>. QED  BY <2>1, <2>2, <2>5, <2>6
<1>. QED  BY <1>6, <1>7

(* AddTimer of an id that is not indexed: the timer of no other id         *)
(* changes, and its own is set to the delay in ticks.                      *)
LEMMA FreshAdd ==
    ASSUME WheelInv, FreshInv, NEW k \in Key, NEW delay \in Delay, NEW t \in Data,
           timers[k] = NoEntry, AddTimer(k, delay, t)
    PROVE  /\ FreshInv'
           /\ \A j \in Indexed \ {k} : CallerTimer'[j] = CallerTimer[j]
           /\ k \in Indexed =>
                \E n \in Nat \ {0} : CallerTimer'[k] = [left |-> n, task |-> t]
<1> DEFINE d == AtLeastInterval(delay)
<1>1. d \in Nat /\ d >= Interval
  BY WheelAssumption DEF AddTimer, AtLeastInterval
<1>2. AddNew(k, d, t)
  BY Zenon DEF AddTimer
<1> HIDE DEF d
<1>3. PICK a \in Unused :
         /\ Push(a, Position(d))
         /\ heap' = [heap EXCEPT ![a] = [taskID |-> k, delay |-> d,
                       circle |-> Circle(d), diffPos |-> 0,
                       task |-> t, removed |-> FALSE]]
         /\ timers' = IF k = NilKey THEN timers ELSE
                [timers EXCEPT ![k] = [pos |-> Position(d), item |-> a]]
         /\ left' = [left EXCEPT ![a] = Steps(d)]
         /\ moved' = moved \ {a}
         /\ UNCHANGED replaced
  BY <1>2, Zenon DEF AddNew
<1>4. a \in Addr /\ at[a] = Off /\ \A j \in Key : timers[j].item # a
  BY DEF Unused, Referenced
<1>5. /\ heap'[a].task = t /\ heap'[a].removed = FALSE
      /\ at'[a] = Position(d) /\ left'[a] = Steps(d)
      /\ \A x \in Addr \ {a} : /\ heap'[x] = heap[x] /\ at'[x] = at[x]
                               /\ left'[x] = left[x]
  BY <1>3, <1>4 DEF WheelInv, TypeOK, Push
<1>6. Position(d) \in Pos /\ Position(d) # Off /\ Steps(d) \in Nat \ {0}
  <2>1. Position(d) \in Pos /\ Steps(d) \in Nat /\ Steps(d) >= 1
    BY <1>1, Landing DEF WheelInv, TypeOK
  <2>. QED  BY <2>1 DEF Pos, Off
<1>7. ASSUME NEW j \in Indexed, j # k
      PROVE  /\ timers'[j] = timers[j]
             /\ timers[j] # NoEntry => timers[j].item \in Addr \ {a}
  <2>1. j \in Key
    BY DEF Indexed
  <2>. QED  BY <1>3, <1>4, <1>7, <2>1, IndexedEntry DEF WheelInv, TypeOK
<1>8. k \in Indexed => timers'[k] = [pos |-> Position(d), item |-> a] /\ timers'[k] # NoEntry
  <2> SUFFICES ASSUME k \in Indexed
               PROVE  timers'[k] = [pos |-> Position(d), item |-> a] /\ timers'[k] # NoEntry
    OBVIOUS
  <2>1. timers'[k] = [pos |-> Position(d), item |-> a]
    BY <1>3 DEF Indexed, WheelInv, TypeOK
  <2>. QED  BY <1>6, <2>1 DEF NoEntry
<1>9. FreshInv'
  <2>1. moved' = {} /\ replaced' = {}
    BY <1>3 DEF FreshInv
  <2>2. ASSUME NEW j \in Indexed, timers'[j] # NoEntry
        PROVE  Live(timers[j].item)'
    <3>1. CASE j = k
      BY <1>5, <1>6, <1>8, <3>1 DEF Live
    <3>2. CASE j # k
      BY <1>5, <1>7, <2>2, <3>2 DEF Live, FreshInv
    <3>. QED  BY <3>1, <3>2
  <2>. QED  BY <2>1, <2>2 DEF FreshInv
<1>10. ASSUME NEW j \in Indexed \ {k} PROVE CallerTimer'[j] = CallerTimer[j]
  BY <1>5, <1>7 DEF CallerTimer
<1>11. ASSUME k \in Indexed PROVE CallerTimer'[k] = [left |-> Steps(d), task |-> t]
  BY <1>5, <1>8, <1>11 DEF CallerTimer
<1>. QED  BY <1>6, <1>9, <1>10, <1>11

(* RemoveTask clears the timer of its id and of no other.                  *)
LEMMA FreshRemove ==
    ASSUME WheelInv, FreshInv, NEW k \in Key, RemoveTask(k)
    PROVE  /\ FreshInv' /\ k \in Indexed /\ CallerTimer[k] # NoEntry
           /\ CallerTimer'[k] = NoEntry
           /\ \A j \in Indexed \ {k} : CallerTimer'[j] = CallerTimer[j]
<1>1. k \in Indexed /\ timers[k] # NoEntry
  BY DEF RemoveTask, Indexed
<1>2. CallerTimer[k] # NoEntry
  BY <1>1, FreshItem
<1>3. /\ at' = at /\ timers'[k] = NoEntry /\ replaced' = replaced
      /\ \A j \in Key \ {k} : timers'[j] = timers[j]
  BY DEF RemoveTask, WheelInv, TypeOK
<1>4. PICK a \in Addr : a = timers[k].item /\ heap[a].taskID = k
  BY <1>1, FreshItem
<1>5. \A x \in Addr \ {a} : Referenced(x)' => heap'[x] = heap[x] /\ left'[x] = left[x]
  BY <1>4 DEF RemoveTask, Sweep, SweepCount, WheelInv, TypeOK
<1>6. ASSUME NEW j \in Indexed, j # k, timers[j] # NoEntry,
             NEW x \in Addr, x = timers[j].item
      PROVE  /\ timers'[j] = timers[j] /\ heap'[x] = heap[x] /\ left'[x] = left[x]
             /\ Live(x)'
  <2>1. j \in Key /\ timers'[j] = timers[j]
    BY <1>3, <1>6 DEF Indexed
  <2>2. heap[x].taskID = j /\ Live(x)
    BY <1>6, FreshItem
  <2>3. x # a /\ Referenced(x)'
    BY <1>4, <1>6, <2>1, <2>2 DEF Referenced
  <2>4. heap'[x] = heap[x] /\ left'[x] = left[x]
    BY <1>5, <2>3
  <2>. QED  BY <1>3, <2>1, <2>2, <2>4 DEF Live
<1>7. FreshInv'
  <2>1. moved' = {} /\ replaced' = {}
    BY <1>3 DEF FreshInv, RemoveTask
  <2>2. ASSUME NEW j \in Indexed, timers'[j] # NoEntry
        PROVE  Live(timers[j].item)'
    <3>1. j # k /\ j \in Key /\ timers'[j] = timers[j]
      BY <1>3, <2>2 DEF Indexed
    <3>2. PICK x \in Addr : x = timers[j].item
      BY <2>2, <3>1, FreshItem
    <3>3. Live(x)'
      BY <1>6, <2>2, <3>1, <3>2
    <3>4. x = timers'[j].item
      BY <3>1, <3>2
    <3>. QED  BY <3>3, <3>4 DEF Live
  <2>. QED  BY <2>1, <2>2 DEF FreshInv
<1>8. CallerTimer'[k] = NoEntry
  BY <1>1, <1>3 DEF CallerTimer
<1>9. ASSUME NEW j \in Indexed \ {k} PROVE CallerTimer'[j] = CallerTimer[j]
  <2>1. CASE timers[j] = NoEntry
    BY <1>3, <2>1 DEF CallerTimer, Indexed
  <2>2. CASE timers[j] # NoEntry
    <3>1. PICK x \in Addr : x = timers[j].item
      BY <2>2, FreshItem
    <3>2. timers'[j] = timers[j] /\ heap'[x] = heap[x] /\ left'[x] = left[x]
      BY <1>6, <2>2, <3>1
    <3>. QED  BY <3>1, <3>2 DEF CallerTimer
  <2>. QED  BY <2>1, <2>2
<1>. QED  BY <1>1, <1>2, <1>7, <1>8, <1>9

(* A tick counts every timer down and fires exactly those with one tick    *)
(* left.                                                                   *)
LEMMA FreshAdvance ==
    ASSUME WheelInv, WheelInv', FreshInv, Tick
    PROVE  FreshInv' /\ Promise!Advance
<1>1. ASSUME NEW k \in Indexed, timers[k] # NoEntry, NEW a \in Addr, a = timers[k].item
      PROVE  left[a] = 1 <=> a \in Due
  <2>1. Live(a) /\ left[a] = Remaining(a) /\ left[a] \in Nat \ {0}
    BY <1>1, FreshItem
  <2>2. CASE a \in Due
    BY <2>1, <2>2, TickItem
  <2>3. CASE a \notin Due
    <3>1. Live(a)' /\ Remaining(a)' = Remaining(a) - 1
      BY <2>1, <2>3, TickItem
    <3>2. Remaining(a)' \in Nat \ {0}
      <4>1. /\ currentPos' \in Pos /\ at'[a] \in Pos /\ heap'[a].diffPos \in Pos
            /\ heap'[a].circle \in Int /\ SlotNum \in Nat \ {0}
        BY <3>1, WheelAssumption DEF WheelInv, TypeOK, Live, Item
      <4>2. Dist(at[a])' \in Nat \ {0} /\ (Rounds(a) * SlotNum)' \in Nat
        BY <4>1 DEF Dist, Pos, Rounds
      <4>. QED  BY <4>1, <4>2 DEF Remaining, Pos
    <3>. QED  BY <2>1, <2>3, <3>1, <3>2
  <2>. QED  BY <2>2, <2>3
<1>2. FreshInv'
  <2>1. moved' = {} /\ replaced' = {}
    BY DEF FreshInv, Tick
  <2>2. ASSUME NEW k \in Indexed, timers'[k] # NoEntry
        PROVE  Live(timers[k].item)'
    <3>1. timers[k] # NoEntry
      BY <2>2, FreshTickIdle
    <3>2. PICK a \in Addr : a = timers[k].item
      BY <3>1, FreshItem
    <3>3. timers'[k].item = a /\ Live(a)'
      BY <2>2, <3>1, <3>2, FreshTickSet
    <3>. QED  BY <3>3 DEF Live
  <2>. QED  BY <2>1, <2>2 DEF FreshInv
<1>3. ASSUME NEW k \in Indexed
      PROVE  k \in Promise!Expiring <=> timers[k] # NoEntry /\ timers[k].item \in Due
  <2>1. CASE timers[k] = NoEntry
    BY <2>1 DEF Promise!Expiring, CallerTimer
  <2>2. CASE timers[k] # NoEntry
    <3>1. PICK a \in Addr : a = timers[k].item
      BY <2>2, FreshItem
    <3>2. /\ CallerTimer[k] = [left |-> left[a], task |-> heap[a].task]
          /\ CallerTimer[k] # NoEntry
      BY <2>2, <3>1, FreshItem
    <3>. QED  BY <1>1, <2>2, <3>1, <3>2 DEF Promise!Expiring
  <2>. QED  BY <2>1, <2>2
<1>4. ASSUME NEW k \in Indexed
      PROVE  CallerTimer'[k] = IF CallerTimer[k] = NoEntry \/ k \in Promise!Expiring THEN NoEntry
                               ELSE [CallerTimer[k] EXCEPT !.left = @ - 1]
  <2>1. CASE timers[k] = NoEntry
    BY <2>1, FreshTickIdle DEF CallerTimer
  <2>2. CASE timers[k] # NoEntry
    <3>1. PICK a \in Addr : a = timers[k].item
      BY <2>2, FreshItem
    <3>2. /\ CallerTimer[k] = [left |-> left[a], task |-> heap[a].task]
          /\ CallerTimer[k] # NoEntry
      BY <2>2, <3>1, FreshItem
    <3>3. CASE a \in Due
      <4>1. timers'[k] = NoEntry
        BY <2>2, <3>1, <3>3, FreshTickSet
      <4>. QED  BY <1>3, <2>2, <3>1, <3>3, <4>1 DEF CallerTimer
    <3>4. CASE a \notin Due
      <4>1. /\ timers'[k] # NoEntry /\ timers'[k].item = a
            /\ left'[a] = left[a] - 1 /\ heap'[a].task = heap[a].task
        BY <2>2, <3>1, <3>4, FreshTickSet
      <4>2. CallerTimer'[k] = [left |-> left[a] - 1, task |-> heap[a].task]
        BY <4>1 DEF CallerTimer
      <4>. QED  BY <1>3, <3>1, <3>2, <3>4, <4>2
    <3>. QED  BY <3>3, <3>4
  <2>. QED  BY <2>1, <2>2
<1>5. CallerOut' = {[taskID |-> k, task |-> CallerTimer[k].task] : k \in Promise!Expiring}
  <2>1. fired' = {[item |-> x, taskID |-> heap[x].taskID, task |-> heap[x].task,
                   late |-> 1 - left[x], moved |-> x \in moved] : x \in Due}
    BY DEF Tick
  <2>2. ASSUME NEW o \in CallerOut'
        PROVE  \E k \in Promise!Expiring : o = [taskID |-> k, task |-> CallerTimer[k].task]
    <3>1. PICK f \in fired' : f.taskID # NilKey /\ o = [taskID |-> f.taskID, task |-> f.task]
      BY <2>2 DEF CallerOut
    <3>2. PICK x \in Due : f.taskID = heap[x].taskID /\ f.task = heap[x].task
      BY <2>1, <3>1
    <3> DEFINE k == heap[x].taskID
    <3>3. k \in Indexed /\ x \in Touching(k) /\ x \in Addr
      BY <3>1, <3>2 DEF Indexed, Touching, Due, Here, WheelInv, TypeOK, Item
    <3>4. timers[k] # NoEntry /\ timers[k].item = x
      BY <3>3, FreshTouching
    <3>5. k \in Promise!Expiring
      BY <1>3, <3>2, <3>3, <3>4
    <3>6. CallerTimer[k] = [left |-> left[x], task |-> heap[x].task]
      BY <3>3, <3>4 DEF CallerTimer
    <3>. QED  BY <3>1, <3>2, <3>5, <3>6
  <2>3. ASSUME NEW k \in Promise!Expiring
        PROVE  [taskID |-> k, task |-> CallerTimer[k].task] \in CallerOut'
    <3>1. k \in Indexed
      BY DEF Promise!Expiring
    <3>2. timers[k] # NoEntry /\ timers[k].item \in Due
      BY <1>3, <3>1
    <3>3. PICK a \in Addr : /\ a = timers[k].item /\ heap[a].taskID = k
                            /\ CallerTimer[k] = [left |-> left[a], task |-> heap[a].task]
      BY <3>1, <3>2, FreshItem
    <3> DEFINE f == [item |-> a, taskID |-> heap[a].taskID, task |-> heap[a].task,
                     late |-> 1 - left[a], moved |-> a \in moved]
    <3>4. f \in fired' /\ f.taskID = k /\ f.task = CallerTimer[k].task
      BY <2>1, <3>2, <3>3
    <3> HIDE DEF f
    <3>. QED  BY <3>1, <3>4 DEF CallerOut, Indexed
  <2>. QED  BY <2>2, <2>3
<1>6. CallerTimer' = [k \in Indexed |->
          IF CallerTimer[k] = NoEntry \/ k \in Promise!Expiring THEN NoEntry
          ELSE [CallerTimer[k] EXCEPT !.left = @ - 1]]
  BY <1>4 DEF CallerTimer
<1>7. ~exited /\ exited' = exited
  BY DEF Tick, Ticking
<1>. QED  BY <1>2, <1>5, <1>6, <1>7 DEF Promise!Advance

(* The callers' view is a function of the ids, and functions that differ   *)
(* in one argument only differ by an EXCEPT.                               *)
LEMMA ViewIsFunction ==
    /\ CallerTimer = [j \in Indexed |-> CallerTimer[j]]
    /\ CallerTimer' = [j \in Indexed |-> CallerTimer'[j]]
  BY DEF CallerTimer

LEMMA OneChanged ==
    ASSUME NEW S, NEW f, NEW g, f = [x \in S |-> f[x]], g = [x \in S |-> g[x]],
           NEW k \in S, NEW v, g[k] = v, \A j \in S \ {k} : g[j] = f[j]
    PROVE  g = [f EXCEPT ![k] = v]
  OBVIOUS

(* Every step of the wheel is a step of Timer, or changes nothing a caller *)
(* sees.                                                                   *)
LEMMA FreshStep ==
    ASSUME WheelInv, WheelInv', FreshInv, [FreshNext]_vars
    PROVE  FreshInv' /\ [Promise!TNext]_(Promise!TVars)
<1>1. ASSUME NEW k \in Key, NEW delay \in Delay, NEW t \in Data,
             timers[k] = NoEntry, AddTimer(k, delay, t)
      PROVE  FreshInv' /\ Promise!TNext
  <2>1. ~exited /\ exited' = exited /\ CallerOut' = {}
    BY <1>1 DEF AddTimer, Accepting, CallerOut
  <2>2. /\ FreshInv'
        /\ \A j \in Indexed \ {k} : CallerTimer'[j] = CallerTimer[j]
        /\ k \in Indexed =>
             \E n \in Nat \ {0} : CallerTimer'[k] = [left |-> n, task |-> t]
    BY <1>1, FreshAdd
  <2>3. CASE k \in Indexed
    <3>1. PICK n \in Nat \ {0} : CallerTimer'[k] = [left |-> n, task |-> t]
      BY <2>2, <2>3
    <3>2. CallerTimer[k] = NoEntry
      BY <1>1, <2>3 DEF CallerTimer
    <3>3. /\ CallerTimer'[k] # NoEntry
          /\ CallerTimer'[k].left = n /\ CallerTimer'[k].task = t
      BY <3>1, SetIsNotIdle
    <3>4. CallerTimer' = [CallerTimer EXCEPT ![k] = [left |-> CallerTimer'[k].left,
                                                     task |-> CallerTimer'[k].task]]
      BY <2>2, <2>3, <3>1, <3>3, ViewIsFunction, OneChanged
    <3>5. Promise!Set(k)
      BY <2>1, <3>2, <3>3, <3>4 DEF Promise!Set
    <3>. QED  BY <2>2, <2>3, <3>5 DEF Promise!TNext
  <2>4. CASE k \notin Indexed
    <3>1. CallerTimer' = CallerTimer
      BY <2>2, <2>4 DEF CallerTimer
    <3>. QED  BY <2>1, <2>2, <3>1 DEF Promise!TNext, Promise!Settle
  <2>. QED  BY <2>3, <2>4
<1>2. ASSUME NEW k \in Key, RemoveTask(k) PROVE FreshInv' /\ Promise!TNext
  <2>1. ~exited /\ exited' = exited /\ CallerOut' = {}
    BY <1>2 DEF RemoveTask, Accepting, CallerOut
  <2>2. /\ FreshInv' /\ k \in Indexed /\ CallerTimer[k] # NoEntry
        /\ CallerTimer'[k] = NoEntry
        /\ \A j \in Indexed \ {k} : CallerTimer'[j] = CallerTimer[j]
    BY <1>2, FreshRemove
  <2>3. CallerTimer' = [CallerTimer EXCEPT ![k] = NoEntry]
    BY <2>2, ViewIsFunction, OneChanged
  <2>4. Promise!Cancel(k)
    BY <2>1, <2>2, <2>3 DEF Promise!Cancel
  <2>. QED  BY <2>2, <2>4 DEF Promise!TNext
<1>3. CASE Tick
  BY <1>3, FreshAdvance DEF Promise!TNext
<1>4. CASE Stop \/ Exit
  <2>1. UNCHANGED <<wheel, history>> /\ fired' = {}
    BY <1>4 DEF Stop, Exit
  <2>2. FreshInv' /\ CallerTimer' = CallerTimer /\ CallerOut' = {}
    BY <2>1 DEF wheel, history, FreshInv, Live, CallerTimer, CallerOut
  <2>3. exited' = exited \/ (~exited /\ exited')
    BY <1>4 DEF Stop, Exit
  <2>. QED  BY <2>2, <2>3 DEF Promise!TNext, Promise!Settle, Promise!Halt
<1>5. CASE UNCHANGED vars
  <2>1. FreshInv' /\ CallerTimer' = CallerTimer /\ CallerOut' = CallerOut /\ exited' = exited
    BY <1>5 DEF vars, FreshInv, Live, CallerTimer, CallerOut
  <2>. QED  BY <2>1 DEF Promise!TVars
<1>. QED  BY <1>1, <1>2, <1>3, <1>4, <1>5 DEF FreshNext

(* A run without resets is a run of the wheel.                             *)
LEMMA FreshIsWheel == FreshSpec => Spec
<1>1. [FreshNext]_vars => [Next]_vars
  BY DEF FreshNext, Next
<1>. QED  BY <1>1, PTL DEF FreshSpec, Spec

(* As long as no timer is reset, the wheel is an exact timer: AddTimer     *)
(* sets one, RemoveTask cancels it, and scanAndRunTask fires it, with its  *)
(* data, at precisely the tick asked for and never again, for every number *)
(* of slots, interval and set of delays.                                   *)
THEOREM WheelImplementsTimer == FreshSpec => ImplementsTimer
<1>1. Init => FreshInv /\ Promise!TInit
  <2> SUFFICES ASSUME Init PROVE FreshInv /\ Promise!TInit
    OBVIOUS
  <2>1. \A k \in Indexed : timers[k] = NoEntry
    BY DEF Init, Indexed
  <2>2. FreshInv
    BY <2>1 DEF Init, FreshInv
  <2>3. CallerTimer = [k \in Indexed |-> NoEntry]
    BY <2>1 DEF CallerTimer
  <2>4. CallerOut = {} /\ ~exited
    BY DEF Init, CallerOut
  <2>. QED  BY <2>2, <2>3, <2>4 DEF Promise!TInit
<1>2. WheelInv /\ WheelInv' /\ FreshInv /\ [FreshNext]_vars
        => FreshInv' /\ [Promise!TNext]_(Promise!TVars)
  BY FreshStep
<1>3. WheelIInv => WheelInv
  BY DEF WheelIInv
<1>. QED  BY <1>1, <1>2, <1>3, FreshIsWheel, WheelInvariant, PTL
          DEF FreshSpec, ImplementsTimer, Promise!TSpec
=============================================================================
