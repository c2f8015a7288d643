----------------------------- MODULE Signature -----------------------------
(* src/pkg/httpx/signature.go: how a client signs a request and how a server *)
(* verifies it, for the three signers.  Hashes are free of collisions: a    *)
(* digest is the value it was computed from, except where the code writes   *)
(* down a digest itself.  The text that the token signer hashes is written  *)
(* out, since its delimiter is configured and may occur in a value; the     *)
(* others are read as the tuple of their parts.                             *)
(*                                                                          *)
(* A request: method, url (with scheme and host or without, path, query),   *)
(* header fields by name (Absent if missing), body (NoBody: r.Body is nil), *)
(* value: what its context holds, and auth, the values of the header field   *)
(* that carries signatures.  Time passes in half seconds.                   *)
EXTENDS Integers, Sequences, SequencesExt

CONSTANT Absent

NoBody == "nil body"
Random == "random nonce"

\* The algorithms UnmarshalText knows, and the digest each one gives of a
\* body.  The digest of no body is a constant of the code: for sha1 it is
\* the MD5 of the empty string.
Algorithms == {"sha1", "sha256"}
BuildBodyDigest(cfg, r) ==
    IF r.body # NoBody THEN r.body
    ELSE IF cfg.alg = "sha256" THEN "" ELSE "md5 of empty"

\* The default layout is the unix time, in seconds.
FormatSignTime(t) == t \div 2
ParseSignTime(sec) == sec * 2

\* extractSignedLookups, extractAuthLookup and Validate: the keys of signed
\* header fields, and where the signature goes, at least one of both.
ScopeHeaders(cfg) == {k \in DOMAIN cfg.lookups : cfg.lookups[k] \in {"", "header"}}
Validate(cfg) == cfg.authLookup \cap {"header", "query"} # {}

\* BuildSigner takes the signer it is given; NewSignature falls back on the
\* default signer.
BuildSigner(cfg) == IF Validate(cfg) THEN <<cfg>> ELSE <<>>
NewSignature(cfg) ==
    BuildSigner(IF cfg.signer = "none" THEN [cfg EXCEPT !.signer = "default"] ELSE cfg)

\* getURIPath: an opaque url keeps what follows scheme and host; no path is "/".
getURIPath(r) == IF r.path = "" THEN "/" ELSE r.path

\* Mutant: the values of scope headers are not signed.
MutantBuildCanonicalHeaders(cfg, r) == {k \in ScopeHeaders(cfg) : r.header[k] # Absent}

\* Scope headers that the request has, in order of their names; host is the
\* one of the request or of its url.  Names are read as a set.
BuildCanonicalHeaders(cfg, r) ==
    [h \in {k \in ScopeHeaders(cfg) : r.header[k] # Absent} |-> r.header[h]]

\* Encode sorts the query by key.
Encode(query) == [query EXCEPT !.order = "sorted"]

\* The value of a header field without the scheme its lookup names, or "".
valueFromLookupExp(r, k) == IF r.header[k] = Absent THEN "" ELSE r.header[k]

\* A client that is not Dry first sets the timestamp field, so that it may
\* be signed, and has its query replaced by the canonical one.
DefaultPrepare(cfg, r, signTime) ==
    [r EXCEPT !.header["timestamp"] = IF cfg.dry THEN @ ELSE signTime,
              !.query = Encode(@)]

DefaultStringToSign(cfg, r, signTime) ==
    LET q == DefaultPrepare(cfg, r, signTime)
    IN  <<q.method, getURIPath(q), q.query, BuildCanonicalHeaders(cfg, q),
          IF cfg.unsignedPayload THEN "" ELSE BuildBodyDigest(cfg, q),
          cfg.scheme, signTime>>

\* The text of a value in pieces; a value is one piece unless it holds "&",
\* which may be the delimiter.  The default delimiter is a line feed, which no
\* value from a header can hold.
WithAmp == {"v&h=w", "w&h=w"}
Text(v) ==
    LET pieces == CASE v = "v&h=w" -> <<"v", "&", "h", "=", "w">>
                    [] v = "w&h=w" -> <<"w", "&", "h", "=", "w">>
                    [] OTHER -> <<v>>
    IN  [i \in DOMAIN pieces |-> <<"text", pieces[i]>>]
HoldsDelimiter(cfg, v) == cfg.delimiter = "&" /\ v \in WithAmp

\* One value per lookup; what cannot be found is left out, and signed as "".
TokenVals(cfg, r, nonce, signTime) ==
    [k \in DOMAIN cfg.lookups |->
       CASE k = "timestamp" -> signTime
         [] k = "nonce"     -> nonce
         [] k \notin {"timestamp", "nonce"} /\ cfg.lookups[k] = "CanonicalUri" ->
                <<r.absolute, r.path, r.query>>
         [] k \notin {"timestamp", "nonce"} /\ cfg.lookups[k] \in {"", "header"} ->
                valueFromLookupExp(r, k)
         [] k \notin {"timestamp", "nonce"} /\ cfg.lookups[k] = "context" ->
                IF r.value = Absent THEN "" ELSE r.value
         [] OTHER -> ""]

\* The names of the lookups, sorted.
lookUpSorted(cfg) ==
    SelectSeq(<<"ctx", "h", "nonce", "timestamp", "url">>, LAMBDA k : k \in DOMAIN cfg.lookups)

\* key=value for each lookup, with the configured delimiter between them.
TokenStringToSign(cfg, vals) ==
    LET keys == lookUpSorted(cfg)
        piece(k) == CASE k = "timestamp" -> <<<<"time", vals[k]>>>>
                      [] k # "timestamp" /\ cfg.lookups[k] = "CanonicalUri" -> <<<<"url", vals[k]>>>>
                      [] OTHER -> Text(vals[k])
        pair(i) == Text(keys[i]) \o <<<<"text", "=">>>> \o piece(keys[i])
                     \o (IF i < Len(keys) THEN <<<<"text", cfg.delimiter>>>> ELSE <<>>)
    IN  FlattenSeq([i \in DOMAIN keys |-> pair(i)])

\* Neither body nor anything but the path of the url; every scope header,
\* present or not, and the id of the key.
HMACStringToSign(cfg, r, signTime) ==
    <<r.method, r.path, Encode(r.query), cfg.id, signTime,
      [h \in ScopeHeaders(cfg) |-> valueFromLookupExp(r, h)]>>

\* An empty nonce is drawn at random by the token signer; the others ignore it.
DrawnNonce(nonce) == IF nonce = "" THEN Random ELSE nonce

\* Keyed by the secret if there is one.  signTime is formatted by now.
CalculateSignature(cfg, r, nonce, signTime) ==
    [secret |-> cfg.secret, alg |-> cfg.alg, signer |-> cfg.signer,
     of |-> CASE cfg.signer = "default" -> DefaultStringToSign(cfg, r, signTime)
              [] cfg.signer = "token"   -> TokenStringToSign(cfg, TokenVals(cfg, r, nonce, signTime))
              [] cfg.signer = "hmac"    -> HMACStringToSign(cfg, r, signTime)]

\* A header value: default and token signers write name=value elements, the
\* fields of authHeaders and last "Signature="; hmac writes values alone.
AuthContent(cfg, sig, vals) ==
    [elem |-> cfg.signer # "hmac", scheme |-> cfg.scheme, fields |-> vals, sig |-> sig]

\* With a query key the bare signature is appended to the query instead.  A
\* field that has a value already gets one more.
DefaultAttachRequest(cfg, r, sig, signTime) ==
    IF cfg.dry THEN r
    ELSE IF "query" \in cfg.authLookup THEN [r EXCEPT !.query.signed = TRUE]
    ELSE [r EXCEPT !.auth = Append(@, AuthContent(cfg, sig,
              [h \in cfg.authHeaders \cap ({"timestamp"} \cup ScopeHeaders(cfg)) |->
                  IF h = "timestamp" THEN signTime ELSE valueFromLookupExp(r, h)]))]

TokenAttachRequest(cfg, r, sig, vals) ==
    [r EXCEPT !.auth = Append(@, AuthContent(cfg, sig,
        [h \in cfg.authHeaders \cap DOMAIN vals |-> vals[h]]))]

\* Without a scheme the pieces get header fields of their own, and replace
\* what the fields held.
HMACAttachRequest(cfg, r, sig, signTime) ==
    IF cfg.scheme = ""
    THEN [r EXCEPT !.auth = <<AuthContent(cfg, sig, <<>>)>>, !.header["timestamp"] = signTime]
    ELSE [r EXCEPT !.auth = Append(@, AuthContent(cfg, sig, <<>>))]

Sign(cfg, r, nonce, t) ==
    LET n  == DrawnNonce(nonce)
        st == FormatSignTime(t)
        sig == CalculateSignature(cfg, r, n, st)
    IN  CASE cfg.signer = "default" ->
               DefaultAttachRequest(cfg, DefaultPrepare(cfg, r, st), sig, st)
          [] cfg.signer = "token" ->
               TokenAttachRequest(cfg, r, sig, TokenVals(cfg, r, n, st))
          [] cfg.signer = "hmac" -> HMACAttachRequest(cfg, r, sig, st)

\* ValuesFromHeader: the values behind the scheme.
ValuesFromHeader(cfg, r) ==
    SelectSeq(r.auth, LAMBDA v : cfg.scheme = "" \/ v.scheme = cfg.scheme)

\* Only a header field can hold the signature, in a "Signature=" element of
\* its first value.
GetSignedRequestSignature(cfg, r) ==
    LET vs == ValuesFromHeader(cfg, r)
    IN  IF "header" \in cfg.authLookup /\ vs # <<>>
        THEN IF vs[1].elem THEN <<vs[1].sig>> ELSE <<>>
        ELSE <<>>

Verify(cfg, r, nonce, t) ==
    LET dry == [cfg EXCEPT !.dry = TRUE]
        sig == GetSignedRequestSignature(cfg, r)
    IN  /\ sig # <<>>
        /\ sig[1] = CalculateSignature(dry, r, DrawnNonce(nonce), FormatSignTime(t))

---------------------------------------------------------------------------
(* src/web/handler/signer: the server's side.  *)

\* A parameter comes from the header of its lookup, unless authHeaders has
\* it: then from the fields beside the signature.
FromHeader(cfg, k) == k \in DOMAIN cfg.lookups \ cfg.authHeaders
Param(cfg, r, k) ==
    LET f == IF FromHeader(cfg, k) THEN r.header ELSE ValuesFromHeader(cfg, r)[1].fields
    IN  IF k \notin DOMAIN f THEN <<>> ELSE IF f[k] = Absent THEN <<>> ELSE <<f[k]>>

\* The nonce, which may be empty if no lookup names it, and the time, which
\* must lie in the interval before now.
extractorVerifyParam(cfg, r, now, interval) ==
    LET nonce == Param(cfg, r, "nonce")
        time  == Param(cfg, r, "timestamp")
    IN  IF (FromHeader(cfg, "nonce") /\ nonce = <<>>) \/ time = <<>> THEN <<>>
        ELSE LET t == ParseSignTime(time[1])
             IN  IF now - t < 0 \/ now - t > interval THEN <<>>
                 ELSE <<IF nonce = <<>> THEN "" ELSE nonce[1], t>>

\* The middleware's answer up to the cache: the signature, if it verifies.
Verified(cfg, r, now, interval) ==
    IF GetSignedRequestSignature(cfg, r) = <<>> THEN <<>>
    ELSE LET p == extractorVerifyParam(cfg, r, now, interval)
         IN  IF p # <<>> THEN IF Verify(cfg, r, p[1], p[2])
                              THEN GetSignedRequestSignature(cfg, r) ELSE <<>>
             ELSE <<>>

\* External: net/http carries a request to a server, which always has a body,
\* a path, and a url without scheme and host; the context does not travel.
Transport(r) ==
    [r EXCEPT !.body = IF @ = NoBody THEN "" ELSE @,
              !.path = getURIPath(r), !.absolute = FALSE, !.value = Absent]

---------------------------------------------------------------------------
(* What the server can check: signatures in a header that holds no value    *)
(* of the scheme yet, and parameters that travel.  Exempt are               *)
(*  - hmac, whose header has no "Signature=" for the server to find, so that *)
(*    a server configured with it refuses every request;                    *)
(*  - for sha1, requests without a body, whose digest the client takes from *)
(*    a constant that is not the sha1 of an empty body;                     *)
(*  - for the token signer, values of the context and the full url, which   *)
(*    the server does not see as the client did.                            *)
Verifiable(cfg, r, nonce) ==
    /\ cfg.authLookup = {"header"} /\ ValuesFromHeader(cfg, r) = <<>>
    /\ cfg.signer = "default" =>
          /\ r.body # NoBody \/ cfg.alg = "sha256" \/ cfg.unsignedPayload
          /\ "timestamp" \in DOMAIN cfg.lookups \cup cfg.authHeaders
          /\ "nonce" \in DOMAIN cfg.lookups \ cfg.authHeaders => r.header["nonce"] # Absent
    /\ cfg.signer = "token" =>
          /\ {"timestamp", "nonce"} \subseteq cfg.authHeaders \cap DOMAIN cfg.lookups
          /\ \A k \in DOMAIN cfg.lookups : cfg.lookups[k] \notin {"CanonicalUri", "context"}
    /\ cfg.signer \in {"default", "token"}

\* A request that a client signs and net/http carries verifies at the server
\* for as long as its timestamp is recent: what Sign changes on the request
\* and what the server sees of it agree.
RoundTrip(cfg, r, nonce, t, now, interval) ==
    Verifiable(cfg, r, nonce) /\ t <= now /\ now - 2 * (t \div 2) <= interval =>
        Verified(cfg, Transport(Sign(cfg, r, nonce, t)), now, interval) # <<>>

\* A request without a body is the exception: signed with sha1 it verifies
\* only if the payload is not signed.
BodilessOnlySha256(cfg, r, nonce, t) ==
    cfg.signer = "default" /\ r.body = NoBody /\ Verifiable([cfg EXCEPT !.alg = "sha256"], r, nonce) =>
        (Verified(cfg, Transport(Sign(cfg, r, nonce, t)), t, 1) # <<>>
           <=> cfg.alg = "sha256" \/ cfg.unsignedPayload)

\* Two requests have the same text only if they have the same values, unless
\* a value holds the delimiter.
TextTellsApart(cfg, v1, v2) ==
    LET plain(v) == \A k \in DOMAIN v : ~HoldsDelimiter(cfg, v[k])
    IN  TokenStringToSign(cfg, v1) = TokenStringToSign(cfg, v2) /\ plain(v1) /\ plain(v2) => v1 = v2

\* The parts of a request that the signer covers.
Covered(cfg, r) ==
    CASE cfg.signer = "default" ->
           <<r.method, r.path, r.query.vals, [h \in ScopeHeaders(cfg) |-> r.header[h]],
             IF cfg.unsignedPayload THEN "" ELSE r.body>>
      [] cfg.signer = "token" ->
           <<[k \in ScopeHeaders(cfg) \ {"timestamp", "nonce"} |-> valueFromLookupExp(r, k)]>>
      [] OTHER -> <<>>

\* A signed request that was altered on its way verifies only if no part that
\* its signer covers was changed; for the token signer, if no value that it
\* signs holds its delimiter.
TamperEvident(cfg, r, nonce, t, altered, now, interval) ==
    LET sent == Transport(Sign(cfg, r, nonce, t))
        got  == [altered EXCEPT !.auth = sent.auth]
        holds(q) == cfg.signer = "token"
                      /\ \E k \in ScopeHeaders(cfg) \ {"timestamp"} : HoldsDelimiter(cfg, q.header[k])
    IN  Verified(cfg, got, now, interval) # <<>> =>
          holds(got) \/ holds(sent) \/ Covered(cfg, got) = Covered(cfg, sent)
=============================================================================
