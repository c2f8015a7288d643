----------------------------- MODULE SignReplay -----------------------------
(***************************************************************************)
(* What the request signature middleware of web/handler/signer promises:   *)
(* a signed request is let through once.  A request is checked against the *)
(* clock first (extractorVerifyParam) and its signature is stored with     *)
(* SetNX afterwards (signatureValidate); time passes between the two.  The *)
(* store forgets a signature when its TTL is over, and may drop one when   *)
(* it holds more than Size.                                                *)
(***************************************************************************)
EXTENDS Integers, FiniteSets

CONSTANTS Request,   \* the requests, each presents one signature
          Sig,       \* the signatures
          NoSig,     \* no signature
          SignedAt,  \* SignedAt[s]: the time stamp signed with s
          Interval,  \* mw.config.Interval
          TTL,       \* mw.config.TTL
          Size,      \* the size of the store
          Stall,     \* the longest a request is between its check and SetNX
          MaxNow     \* the bound of the clock

ASSUME TimeAssumption ==
    /\ SignedAt \in [Sig -> Nat] /\ Interval \in Nat /\ TTL \in Nat
    /\ Stall \in Nat /\ MaxNow \in Nat
    /\ NoSig \notin Sig
    /\ TTL >= Interval + Stall
ASSUME SizeAssumption == IsFiniteSet(Sig) /\ Size \in Nat /\ Cardinality(Sig) <= Size

VARIABLES now,      \* the clock
          seen,     \* seen[s]: when the stored s expires
          pending,  \* pending[r]: the signature and the time of a check passed
          accepted  \* accepted[r]: the signature r was let through with

signVars == <<now, seen, pending, accepted>>

None == [sig |-> NoSig, at |-> 0]
Unseen == -1

SignInit ==
    /\ now = 0
    /\ seen = [s \in Sig |-> Unseen]
    /\ pending = [r \in Request |-> None]
    /\ accepted = [r \in Request |-> NoSig]

(* The time stamp is not in the future nor older than Interval.            *)
Fresh(s) == now - SignedAt[s] >= 0 /\ now - SignedAt[s] <= Interval

Check(r, s) ==
    /\ pending[r] = None /\ accepted[r] = NoSig
    /\ Fresh(s)
    /\ pending' = [pending EXCEPT ![r] = [sig |-> s, at |-> now]]
    /\ UNCHANGED <<now, seen, accepted>>

(* An expired item is deleted when it is looked up.                        *)
Stored(s) == seen[s] # Unseen /\ now <= seen[s]

\* Mutant: the signature is stored whether or not it is there (Set for SetNX).
MutantSetNX(r) ==
    LET s == pending[r].sig
    IN  /\ pending[r] # None
        /\ pending' = [pending EXCEPT ![r] = None]
        /\ seen' = [seen EXCEPT ![s] = now + TTL]
        /\ accepted' = [accepted EXCEPT ![r] = s]
        /\ UNCHANGED now

(* SetNX: an error for a signature that is stored; otherwise it is stored  *)
(* for TTL and the request goes on.                                        *)
SetNX(r) ==
    LET s == pending[r].sig
    IN  /\ pending[r] # None
        /\ pending' = [pending EXCEPT ![r] = None]
        /\ IF Stored(s)
           THEN UNCHANGED <<seen, accepted>>
           ELSE /\ seen' = [seen EXCEPT ![s] = now + TTL]
                /\ accepted' = [accepted EXCEPT ![r] = s]
        /\ UNCHANGED now

(* A signature leaves the store: one that expired at any time, any one when *)
(* the store is over its size.                                             *)
Evict(s) ==
    /\ seen[s] # Unseen
    /\ now > seen[s] \/ Cardinality({t \in Sig : seen[t] # Unseen}) > Size
    /\ seen' = [seen EXCEPT ![s] = Unseen]
    /\ UNCHANGED <<now, pending, accepted>>

Tick ==
    /\ now < MaxNow
    /\ \A r \in Request : pending[r] # None => now - pending[r].at < Stall
    /\ now' = now + 1
    /\ UNCHANGED <<seen, pending, accepted>>

SignNext ==
    \/ \E r \in Request, s \in Sig : Check(r, s)
    \/ \E r \in Request : SetNX(r)
    \/ \E s \in Sig : Evict(s)
    \/ Tick

SignSpec == SignInit /\ [][SignNext]_signVars

SignTypeOK ==
    /\ now \in Nat
    /\ seen \in [Sig -> Nat \cup {Unseen}]
    /\ pending \in [Request -> [sig : Sig, at : Nat] \cup {None}]
    /\ accepted \in [Request -> Sig \cup {NoSig}]

(* No signature lets two requests through, whenever they are presented and *)
(* however their checks and their SetNX interleave.                        *)
NoReplay ==
    \A r, q \in Request : r # q /\ accepted[r] # NoSig => accepted[r] # accepted[q]

(* What makes it inductive: an accepted signature stays stored till no     *)
(* request that was checked in its window can present it, and a checked    *)
(* one is stored at most Stall after the window.                           *)
Remembered ==
    \A r \in Request : accepted[r] # NoSig =>
        \/ seen[accepted[r]] >= SignedAt[accepted[r]] + TTL
        \/ now > SignedAt[accepted[r]] + TTL
InTime ==
    \A r \in Request : pending[r] # None =>
        /\ pending[r].at >= SignedAt[pending[r].sig]
        /\ pending[r].at <= SignedAt[pending[r].sig] + Interval
        /\ pending[r].at <= now /\ now <= pending[r].at + Stall
SignInv == SignTypeOK /\ NoReplay /\ Remembered /\ InTime
=============================================================================
