------------------------------- MODULE Redisc -------------------------------
(***************************************************************************)
(* The two-level cache of pkg/cache/redisc: a redis server shared by       *)
(* processes and, in this process, a TinyLFU local cache (pkg/cache/lfu)   *)
(* in front of it.  One key; callers run Get, Set and Del concurrently.    *)
(*                                                                         *)
(* A step is one access to a level, which redis and the mutex of TinyLFU   *)
(* make atomic, or one call of the caller's Getter.  A redis command may   *)
(* fail, before or after it took effect.  Expiry and eviction may happen   *)
(* at any moment.  The Raw option, which bypasses marshalling, and SetXX   *)
(* and SetNX given to a Get are left out.                                  *)
(***************************************************************************)
EXTENDS Integers, FiniteSets

CONSTANTS Caller, Val,
          NoVal,     \* the key is absent
          Garbage,   \* bytes that are not what was stored
          Text       \* receivers are *string or *[]byte, not *struct

ASSUME RediscAssumption ==
    /\ Text \in BOOLEAN /\ {NoVal, Garbage} \cap Val = {} /\ NoVal # Garbage
    /\ NoVal \notin Caller

VARIABLES redis,    \* the value redis holds
          local,    \* the item the local cache holds
          pc,       \* pc[c]: the call of c under way
          flight,   \* the caller that leads the singleflight call, or NoVal
          out,      \* the value the last step gave to callers of Get, if any
          dirty,    \* history: calls during which another changed a level
          torn      \* history: why local may differ from redis

vars == <<redis, local, pc, flight, out, dirty, torn>>

Answer == Val \cup {Garbage}
NoItem == [val |-> NoVal, form |-> "plain"]
Skip == SUBSET {"local", "remote"}
Idle == [at |-> "idle", op |-> "none", skip |-> {}, getter |-> FALSE,
         val |-> NoVal]
Busy == {c \in Caller : pc[c] # Idle}

Init ==
    /\ redis = NoVal /\ local = NoItem
    /\ pc = [c \in Caller |-> Idle]
    /\ flight = NoVal /\ out = {}
    /\ dirty = {} /\ torn = FALSE

-----------------------------------------------------------------------------
(* DefaultMarshalFunc leaves strings and bytes as they are and encodes     *)
(* everything else, a pointer like what it points to; DefaultUnmarshalFunc *)
(* decodes by the type of the receiver.  Text stored through a pointer is  *)
(* thus encoded, and read back as its encoding.                            *)
Pointer(v) == [val |-> v, form |-> IF Text THEN "encoded" ELSE "plain"]
Plain(v) == [val |-> v, form |-> "plain"]
Decode(item) == IF item.form = "encoded" THEN Garbage ELSE item.val

UseLocal(c) == "local" \notin pc[c].skip
UseRemote(c) == "remote" \notin pc[c].skip

(* The step of caller c leaves the call at, or returns r for it.           *)
Goto(c, at, v) ==
    /\ pc' = [pc EXCEPT ![c].at = at, ![c].val = v]
    /\ out' = {}
Return(c, r) ==
    /\ pc' = [pc EXCEPT ![c] = Idle]
    /\ out' = {r} \cap Answer

(* History: c changed a level, or did not.                                 *)
Returned == {c \in Caller : pc'[c] = Idle}
Changed(c, how) ==
    /\ dirty' = (dirty \cup (Busy \ {c})) \ Returned
    /\ torn' = /\ local' # NoItem
               /\ torn \/ how = "torn" \/ c \in dirty
Quiet == dirty' = dirty \ Returned /\ UNCHANGED torn

-----------------------------------------------------------------------------
(* Get, and tryGetLocal: a hit in the local cache answers at once.  Group  *)
(* or a Getter chooses getSetItemGroup, otherwise get.                     *)
Get(c, skip, group, getter) ==
    /\ pc[c] = Idle
    /\ getter => group
    /\ LET call == [at |-> "remote", op |-> IF group THEN "group" ELSE "get",
                    skip |-> skip, getter |-> getter, val |-> NoVal]
           hit == "local" \notin skip /\ local # NoItem
       IN  \/ /\ hit /\ UNCHANGED pc
              /\ out' = {Decode(local)}
           \/ ~hit /\ pc' = [pc EXCEPT ![c] = call] /\ out' = {}
    /\ Quiet
    /\ UNCHANGED <<redis, local, flight>>

(* get: getRemoteData, then the fill of the local cache with the receiver, *)
(* a pointer.                                                              *)
GetRemote(c) ==
    /\ pc[c].op = "get" /\ pc[c].at = "remote"
    /\ \/ ~UseRemote(c) /\ Return(c, "miss")
       \/ UseRemote(c) /\ Return(c, "error")
       \/ UseRemote(c) /\ redis = NoVal /\ Return(c, "miss")
       \/ /\ UseRemote(c) /\ redis # NoVal
          /\ \/ UseLocal(c) /\ Goto(c, "fill", redis)
             \/ ~UseLocal(c) /\ Return(c, redis)
    /\ Quiet
    /\ UNCHANGED <<redis, local, flight>>

Fill(c) ==
    /\ pc[c].op = "get" /\ pc[c].at = "fill"
    /\ local' = Pointer(pc[c].val)
    /\ Return(c, pc[c].val)
    /\ Changed(c, "none")
    /\ UNCHANGED <<redis, flight>>

-----------------------------------------------------------------------------
(* getSetItemGroup: singleflight runs one function for all callers that    *)
(* arrive while it runs, with the options and the Getter of its leader.    *)
MutantJoin(c) ==
    /\ pc[c].op = "group" /\ pc[c].at = "remote"
    /\ Goto(c, "lead", NoVal) /\ flight' = c
    /\ Quiet
    /\ UNCHANGED <<redis, local>>

Join(c) ==
    /\ pc[c].op = "group" /\ pc[c].at = "remote"
    /\ \/ flight = NoVal /\ Goto(c, "lead", NoVal) /\ flight' = c
       \/ flight # NoVal /\ Goto(c, "follow", NoVal) /\ UNCHANGED flight
    /\ Quiet
    /\ UNCHANGED <<redis, local>>

(* The function returns: its result goes to the leader and the followers.  *)
Group(c) == {c} \cup {d \in Caller : pc[d].at = "follow"}
MutantLand(c, r) ==
    /\ pc' = [pc EXCEPT ![c] = Idle]
    /\ out' = {r} \cap Answer
    /\ flight' = NoVal
Land(c, r) ==
    /\ pc' = [d \in Caller |-> IF d \in Group(c) THEN Idle ELSE pc[d]]
    /\ out' = {r} \cap Answer
    /\ flight' = NoVal

LeadRemote(c) ==
    /\ pc[c].at = "lead"
    /\ LET miss == ~UseRemote(c) \/ redis = NoVal IN
       \/ UseRemote(c) /\ Land(c, "error")
       \/ ~miss /\ Land(c, redis)
       \/ miss /\ ~pc[c].getter /\ Land(c, "miss")
       \/ miss /\ pc[c].getter /\ Goto(c, "getter", NoVal) /\ UNCHANGED flight
    /\ Quiet
    /\ UNCHANGED <<redis, local>>

(* The Getter reads whatever its source, say a database row, then holds.   *)
LeadGetter(c) ==
    /\ pc[c].at = "getter"
    /\ \/ Land(c, "error")
       \/ \E v \in Val : Goto(c, "set", v) /\ UNCHANGED flight
    /\ Quiet
    /\ UNCHANGED <<redis, local>>

(* The redis command of set, which LeadSet and Set reach.                  *)
RedisSet(c, fails) ==
    \/ ~fails /\ redis' = pc[c].val
    \/ fails /\ redis' \in {redis, pc[c].val}

LeadSet(c) ==
    /\ pc[c].at = "set"
    /\ \/ /\ UseRemote(c) /\ RedisSet(c, TRUE) /\ Land(c, "error")
          /\ UNCHANGED local
          /\ Changed(c, IF redis' # redis THEN "torn" ELSE "none")
       \/ /\ UseRemote(c) /\ RedisSet(c, FALSE)
          /\ Goto(c, "local", pc[c].val)
          /\ UNCHANGED <<local, flight>>
          /\ Changed(c, IF UseLocal(c) THEN "none" ELSE "torn")
       \/ /\ ~UseRemote(c) /\ Goto(c, "local", pc[c].val)
          /\ UNCHANGED <<redis, local, flight>>
          /\ Quiet

(* SetInner of the marshalled value.  Should the leader's receiver not     *)
(* take the value afterwards, Group deletes the local item again.          *)
LeadLocal(c) ==
    /\ pc[c].op = "group" /\ pc[c].at = "local"
    /\ local' = IF UseLocal(c) THEN Plain(pc[c].val) ELSE local
    /\ \/ Land(c, pc[c].val)
       \/ /\ UseLocal(c) /\ flight' = NoVal
          /\ pc' = [d \in Caller |->
                      IF d = c THEN [pc[c] EXCEPT !.at = "mismatch"]
                      ELSE IF d \in Group(c) THEN Idle ELSE pc[d]]
          /\ out' = IF Group(c) = {c} THEN {} ELSE {pc[c].val}
    /\ Changed(c, IF UseRemote(c) THEN "none" ELSE "torn")
    /\ UNCHANGED redis

Mismatch(c) ==
    /\ pc[c].at = "mismatch"
    /\ local' = NoItem /\ Return(c, "error")
    /\ Changed(c, "none")
    /\ UNCHANGED <<redis, flight>>

-----------------------------------------------------------------------------
(* Set: redis first, then the local cache if redis took the value.         *)
Mode == {"plain", "xx", "nx"}
Set(c, v, mode, skip) ==
    /\ pc[c] = Idle
    /\ pc' = [pc EXCEPT ![c] = [at |-> mode, op |-> "set", skip |-> skip,
                                getter |-> FALSE, val |-> v]]
    /\ out' = {}
    /\ Quiet
    /\ UNCHANGED <<redis, local, flight>>

Refused(c) == \/ pc[c].at = "xx" /\ redis = NoVal
              \/ pc[c].at = "nx" /\ redis # NoVal

SetRemote(c) ==
    /\ pc[c].op = "set" /\ pc[c].at \in Mode
    /\ UNCHANGED <<local, flight>>
    /\ \/ /\ ~UseRemote(c) /\ Goto(c, "local", pc[c].val)
          /\ Quiet /\ UNCHANGED redis
       \/ /\ UseRemote(c) /\ Refused(c) /\ Return(c, "error")
          /\ Quiet /\ UNCHANGED redis
       \/ /\ UseRemote(c) /\ ~Refused(c) /\ RedisSet(c, TRUE)
          /\ Return(c, "error")
          /\ Changed(c, IF redis' # redis THEN "torn" ELSE "none")
       \/ /\ UseRemote(c) /\ ~Refused(c) /\ RedisSet(c, FALSE)
          /\ Goto(c, "local", pc[c].val)
          /\ Changed(c, IF UseLocal(c) THEN "none" ELSE "torn")

SetLocal(c) ==
    /\ pc[c].op = "set" /\ pc[c].at = "local"
    /\ local' = IF UseLocal(c) THEN Plain(pc[c].val) ELSE local
    /\ Return(c, "ok")
    /\ Changed(c, IF UseRemote(c) THEN "none" ELSE "torn")
    /\ UNCHANGED <<redis, flight>>

(* Del: the local cache first, then redis.                                 *)
MutantDelLocal(c) ==
    /\ pc[c] = Idle
    /\ pc' = [pc EXCEPT ![c] = [Idle EXCEPT !.op = "del", !.at = "remote"]]
    /\ out' = {} /\ Quiet
    /\ UNCHANGED <<redis, local, flight>>

DelLocal(c) ==
    /\ pc[c] = Idle
    /\ local' = NoItem
    /\ pc' = [pc EXCEPT ![c] = [Idle EXCEPT !.op = "del", !.at = "remote"]]
    /\ out' = {}
    /\ Changed(c, "none")
    /\ UNCHANGED <<redis, flight>>

DelRemote(c) ==
    /\ pc[c].op = "del" /\ pc[c].at = "remote"
    /\ \/ redis' = NoVal /\ Return(c, "ok")
       \/ redis' \in {redis, NoVal} /\ Return(c, "error")
    /\ UNCHANGED <<local, flight>>
    /\ Changed(c, "none")

-----------------------------------------------------------------------------
(* Outside the calls: the local item expires, is evicted or is cleaned     *)
(* (CleanLocalCache); redis expires the key or another process writes it.  *)
LocalDrop ==
    /\ local # NoItem /\ local' = NoItem
    /\ out' = {} /\ torn' = FALSE
    /\ UNCHANGED <<redis, pc, flight, dirty>>

Elsewhere ==
    /\ redis' \in (Val \cup {NoVal}) \ {redis}
    /\ out' = {}
    /\ dirty' = dirty \cup Busy
    /\ torn' = (local # NoItem)
    /\ UNCHANGED <<local, pc, flight>>

Step(c) ==
    \/ GetRemote(c) \/ Fill(c)
    \/ Join(c) \/ LeadRemote(c) \/ LeadGetter(c) \/ LeadSet(c) \/ LeadLocal(c)
    \/ Mismatch(c)
    \/ SetRemote(c) \/ SetLocal(c) \/ DelRemote(c)

Next ==
    \/ \E c \in Caller, skip \in Skip, group, getter \in BOOLEAN :
          Get(c, skip, group, getter)
    \/ \E c \in Caller, v \in Val, mode \in Mode, skip \in Skip :
          Set(c, v, mode, skip)
    \/ \E c \in Caller : DelLocal(c) \/ Step(c)
    \/ LocalDrop \/ Elsewhere

(* Redis answers or fails, Getters return, and goroutines run.             *)
Spec == Init /\ [][Next]_vars /\ \A c \in Caller : WF_vars(Step(c))

-----------------------------------------------------------------------------
(* Every variable within its states; a call that follows has a leader.     *)
TypeOK ==
    /\ redis \in Val \cup {NoVal}
    /\ local \in [val : Val, form : {"plain", "encoded"}] \cup {NoItem}
    /\ flight \in Caller \cup {NoVal}
    /\ \A c \in Caller : pc[c].at = "follow" => flight # NoVal
    /\ out \subseteq Answer
    /\ dirty \subseteq Busy /\ torn \in BOOLEAN

(* The two levels agree between calls.  The local item differs from what   *)
(* redis holds only if the calls of two callers overlapped, if redis       *)
(* changed behind the cache (expiry, another process, a command that       *)
(* failed after it took effect) or if the caller skipped a level: a single *)
(* caller always finds what it last stored, also after refused and failed  *)
(* calls of Set and Del.                                                   *)
Coherent ==
    Busy = {} /\ ~torn /\ local # NoItem => local.val = redis

(* Of all callers that Get an absent key at the same time, one runs its    *)
(* Getter.                                                                 *)
OneGetter == Cardinality({c \in Caller : pc[c].at = "getter"}) <= 1

(* Every call returns, followers of a flight that fails included.          *)
EveryCallReturns == \A c \in Caller : pc[c] # Idle ~> pc[c] = Idle

(* "Get gets the value from cache and unmarshal it to v" (cache.go:32):    *)
(* what Get answers with is a value that was stored.                       *)
RoundTrip == Garbage \notin out

(* One call at a time stands for all that share it.                        *)
OneFlight == TypeOK /\ OneGetter
=============================================================================
