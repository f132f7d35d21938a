--------------------------- MODULE RequestAssertion ---------------------------
(***************************************************************************)
(* The signed assertion of a chat request and what the ERP makes of it:    *)
(* ErpSignedAssertionAuthenticator, ErpTrustedRequestResolver and          *)
(* ErpAuthorizationSnapshotVerifier (infrastructure/erp_trust).            *)
(*                                                                         *)
(* Times are small numbers.  A signature is modelled by what it proves:    *)
(* the key that made it and that the claims are the signed ones.           *)
(***************************************************************************)
EXTENDS Integers, FiniteSets

Denied == [status |-> "denied"]
Unavailable == [status |-> "unavailable"]

\* Parsing: three canonical segments within their bounds, the exact fields, the one
\* algorithm and type.
Profiled(token) == token.form = "profiled"

\* The configured key that the header names.
KeysNamed(config, kid) == {k \in config.keys : k.kid = kid}

ValidConfig(config) ==
  /\ \A j, k \in config.keys : j.kid = k.kid => j = k
  /\ \A k \in config.keys : k.activates \in Int /\ k.retires \in Int /\ k.activates < k.retires
  /\ config.lifetime \in Nat \ {0} /\ config.skew \in Nat

\* The claims of time are integers; a token with other ones counts as malformed.
ValidToken(token) == token.claims.iat \in Int /\ token.claims.exp \in Int

\* Definitions named ...Without... precede the definition they are a faulty variant of.
InLifetime(claims, config) ==
  claims.iat < claims.exp /\ claims.exp - claims.iat <= config.lifetime

InTimeWithoutSkew(claims, config, now) == claims.iat <= now /\ claims.exp > now
InTime(claims, config, now) ==
  /\ claims.iat <= now + config.skew
  /\ claims.exp > now - config.skew

InKeyWindow(claims, key) ==
  key.activates <= claims.iat /\ claims.iat < key.retires /\ claims.exp <= key.retires

\* Issuer, audience, method and path, and the digest of the body that came with it.
Bound(claims, config, request) ==
  /\ claims.parties = config.parties
  /\ claims.route = request.route
  /\ claims.body = request.body

\* authenticate, with one reading of the clock.
Authenticate(token, config, request, now) ==
  LET claims == token.claims
  IN IF /\ Profiled(token)
        /\ \E key \in KeysNamed(config, token.kid) :
             /\ InLifetime(claims, config) /\ InTime(claims, config, now)
             /\ InKeyWindow(claims, key)
             /\ claims.wellformed /\ Bound(claims, config, request)
             /\ token.signer = key.public
     THEN [status |-> "trusted", request |-> request.id, reference |-> claims.reference]
     ELSE Denied

-----------------------------------------------------------------------------
(* An answer of the ERP is [code, type, fields], type being what the checks of headers,   *)
(* size and JSON make of it, or "none" when the connection failed. *)

PostJson(answer) ==
  IF answer.type # "json" THEN Unavailable
  ELSE [status |-> "answered", code |-> answer.code, fields |-> answer.fields]

\* resolve: the reference is unknown or used up, or the answer is for this request.
Resolve(reference, answer) ==
  LET post == PostJson(answer)
  IN IF post = Unavailable THEN Unavailable
     ELSE IF post.code \in {404, 409} THEN Denied
     ELSE IF post.code # 200 \/ post.fields.request # reference.request THEN Unavailable
     ELSE [status |-> "resolved", context |-> post.fields]

\* verify: the decision must repeat the four identities of the context.
VerifySnapshot(context, answer) ==
  LET post == PostJson(answer)
  IN IF post = Unavailable \/ post.code # 200
        \/ \E f \in {"request", "customer", "user", "snapshot"} : post.fields[f] # context[f]
     THEN Unavailable
     ELSE [status |-> post.fields.decision]
=============================================================================
