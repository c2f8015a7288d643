---------------------------- MODULE MCWebRequest ----------------------------
(* Instances of WebRequest: routes with gzip first or without it.           *)
EXTENDS WebRequest

Plain == [size |-> "none", errors |-> <<>>, fields |-> {}, dir |-> "out"]
Writes(size) == [Plain EXCEPT !.size = size]
Fails(type, text) == [Plain EXCEPT !.errors = <<[type |-> type, text |-> text]>>]
Panics(size) == [Writes(size) EXCEPT !.dir = "panic"]

MCRoutes ==
    {[chain |-> <<"gzip", "accessLog", "errorHandle", "recovery", "handler">>,
      acts  |-> {Plain, Writes("small"), Writes("large"), Fails("private", "own"),
                 Fails("public", "own"), Panics("none"), Panics("large")}],
     [chain |-> <<"accessLog", "errorHandle", "recovery", "jwt", "authz", "handler">>,
      acts  |-> {Plain, Panics("small")}],
     [chain |-> <<"accessLog", "recovery", "sign", "handler">>, acts |-> {Plain}],
     [chain |-> <<"accessLog", "recovery", "errorHandle", "keyAuth", "csrf", "handler">>,
      acts  |-> {Writes("small"), Fails("odd", "own"), Fails("known", "own"), Fails("private", "mapped"),
                 [Plain EXCEPT !.fields = {"error"}],
                 [Fails("private", "own") EXCEPT !.size = "small"]}]}
SignedAtOne == [s \in Sig |-> 1]
=============================================================================
