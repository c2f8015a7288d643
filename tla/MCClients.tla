----------------------------- MODULE MCClients -----------------------------
(* The two clients of the repository, a gRPC connection through polaris and *)
(* an HTTP client with OAuth2 tokens.  They share nothing: a behaviour is   *)
(* one of either.  A connection is watched twice and has no call, or it is  *)
(* watched once and has one.                                                *)
EXTENDS Polaris, TokenSource

VARIABLE client

allVars == <<client, polarisVars, tokenVars>>

Init ==
    /\ client \in {"resolver", "call", "http"}
    /\ PolarisInit /\ TokenInit
    /\ client # "http" => Cardinality(Usable) = 1   \* as good as any other start
    /\ client # "http" => source = [grant |-> "password", storage |-> FALSE]
    /\ client = "http" => inst = [a \in Addr |-> "none"]
WatchedOnce == made = 1 => pc[Watch] # "update"
Next ==
    \/ client = "resolver" /\ Connection /\ UNCHANGED <<client, tokenVars>>
    \/ client = "call" /\ PolarisNext /\ WatchedOnce' /\ UNCHANGED <<client, tokenVars>>
    \/ client = "http" /\ TokenNext /\ UNCHANGED <<client, polarisVars>>
(* The goroutines of the resolver are scheduled, and their calls return.    *)
Spec ==
    /\ Init /\ [][Next]_allVars
    /\ WF_allVars(client # "http" /\ Resolver /\ (client = "call" => WatchedOnce')
                    /\ UNCHANGED <<client, tokenVars>>)
=============================================================================
