------------------------------- MODULE Access -------------------------------
(***************************************************************************)
(* Who may pass: JWT validation (internal/auth/jwt.go) and the middlewares *)
(* CORS, Auth and OptionalAuth (internal/middleware).  A behaviour follows *)
(* one token under one configuration through time; requests that carry it  *)
(* may come at any moment.                                                 *)
(*                                                                         *)
(* A token is what the code can tell of one: the number of its parts,      *)
(* which of them decode, its algorithm, the key it was signed with, and    *)
(* its claims, 0 or "" standing for an absent one.                         *)
(***************************************************************************)
EXTENDS Integers, Sequences

CONSTANTS
  Tokens,    \* tokens made elsewhere: [parts, header, payload, signature, alg, key, claims]
  Claims,    \* [exp, nbf, iss, aud]: what SignHS256 is asked to sign
  Configs,   \* [issuer, audience, skew, keys, origins, credentials]
  Origins,   \* origins of requests, "" for none
  Headers,   \* Authorization headers, split at the first space: <<>>, <<"bearer", "token">>
  MaxClock   \* bound: how long time runs

\* Times are numbers.  A browser's Origin is a scheme and a host, never the wildcard
\* of a configuration.
ASSUME AccessAssumption ==
  /\ \A c \in Claims : c.exp \in Int /\ c.nbf \in Int
  /\ \A t \in Tokens : /\ {t.header, t.payload, t.signature} \subseteq BOOLEAN
                       /\ t.claims.exp \in Int /\ t.claims.nbf \in Int
  /\ \A g \in Configs : g.skew \in Int /\ g.credentials \in BOOLEAN
  /\ "*" \notin Origins

VARIABLES clock, token, config, response

accessVars == <<clock, token, config, response>>

\* What a request came to: the status, whether the next handler ran, whether it
\* saw claims, and the CORS headers of the response.
Outcome(status, handler, claims, headers) ==
  [status |-> status, handler |-> handler, claims |-> claims, cors |-> headers]

NoHeaders == [allowOrigin |-> "", credentials |-> FALSE, vary |-> FALSE]

NoResponse == Outcome(0, FALSE, FALSE, NoHeaders)

\* SignHS256: three encoded parts, signed with the given secret.
SignHS256(claims, key) ==
  [parts |-> 3, header |-> TRUE, payload |-> TRUE, signature |-> TRUE,
   alg |-> "HS256", key |-> key, claims |-> claims]

AccessInit ==
  /\ clock = 1
  /\ token \in Tokens \cup {SignHS256(c, "secret") : c \in Claims}
  /\ config \in Configs
  /\ response = NoResponse
-----------------------------------------------------------------------------
(* Validator: each check gives "ok" or the error it returns *)

\* Parse.
Parse(t) ==
  CASE t.parts # 3  -> "ErrInvalidToken"
    [] ~t.header    -> "ErrInvalidHeader"
    [] ~t.payload   -> "ErrInvalidPayload"
    [] ~t.signature -> "ErrInvalidSignature"
    [] OTHER        -> "ok"

\* verifyHS256, verifyRS256: a key must be set, and the signature be made with it.
verify(t, key) ==
  CASE key \notin config.keys -> "ErrMissingKey"
    [] t.key # key            -> "ErrInvalidSignature"
    [] OTHER                  -> "ok"

verifySignature(t) ==
  CASE t.alg = "HS256" -> verify(t, "secret")
    [] t.alg = "RS256" -> verify(t, "rsa")
    [] OTHER           -> "ErrUnsupportedAlg"

\* Mutant of checkExpiration: the tolerance is taken off instead of added.
checkExpirationStrict(t) ==
  IF t.claims.exp # 0 /\ clock > t.claims.exp - config.skew THEN "ErrTokenExpired" ELSE "ok"

checkExpiration(t) ==
  IF t.claims.exp # 0 /\ clock > t.claims.exp + config.skew THEN "ErrTokenExpired" ELSE "ok"

checkNotBefore(t) ==
  IF t.claims.nbf # 0 /\ clock < t.claims.nbf - config.skew THEN "not valid before" ELSE "ok"

checkIssuer(t) ==
  IF config.issuer # "" /\ t.claims.iss # config.issuer THEN "ErrInvalidIssuer" ELSE "ok"

checkAudience(t) ==
  IF config.audience # "" /\ t.claims.aud # config.audience THEN "ErrInvalidAudience" ELSE "ok"

\* Validate: the checks in order; the first error is returned.
Validate(t) ==
  LET checks == <<Parse(t), verifySignature(t), checkExpiration(t), checkNotBefore(t),
                  checkIssuer(t), checkAudience(t)>>
      failed == {i \in DOMAIN checks : checks[i] # "ok"}
  IN  IF failed = {} THEN "ok" ELSE checks[CHOOSE i \in failed : \A j \in failed : i <= j]
-----------------------------------------------------------------------------
(* Middlewares *)

\* CORS: the headers of a response, and whether the request goes on.
Allowed(origin) == origin # "" /\ ("*" \in config.origins \/ origin \in config.origins)

\* Mutant of AllowOrigin: the wildcard is sent with credentials too.
AllowOriginAny(origin) == IF "*" \in config.origins THEN "*" ELSE origin

AllowOrigin(origin) ==
  IF "*" \in config.origins /\ ~config.credentials THEN "*" ELSE origin

CORS(origin) ==
  IF Allowed(origin)
  THEN [allowOrigin |-> AllowOrigin(origin), credentials |-> config.credentials,
        vary |-> ~("*" \in config.origins /\ ~config.credentials)]
  ELSE NoHeaders

\* A preflight of an allowed origin is answered here and goes no further.
Preflight(origin) ==
  /\ Allowed(origin)
  /\ response' = Outcome(204, FALSE, FALSE, CORS(origin))
  /\ UNCHANGED <<clock, token, config>>

\* defaultTokenExtractor finds a token in a header of two fields, the first of
\* them Bearer in any case, the second not empty.
Presented(fields) == Len(fields) = 2 /\ fields[1] = "bearer" /\ fields[2] # ""

\* Mutant of Vouched: claims are stored whatever Validate said.
VouchedAlways(fields) == Presented(fields)

Vouched(fields) == Presented(fields) /\ Validate(token) = "ok"

\* Auth.  SkipAuth lets a request by without looking at its token; without one
\* that Validate accepts, the error handler answers 401.
Auth(origin, fields, skip) ==
  /\ response' =
       IF skip \/ Vouched(fields)
       THEN Outcome(200, TRUE, ~skip, CORS(origin))
       ELSE Outcome(401, FALSE, FALSE, CORS(origin))
  /\ UNCHANGED <<clock, token, config>>

OptionalAuth(origin, fields) ==
  /\ response' = Outcome(200, TRUE, Vouched(fields), CORS(origin))
  /\ UNCHANGED <<clock, token, config>>

Advance ==
  /\ clock < MaxClock
  /\ clock' = clock + 1
  /\ response' = NoResponse
  /\ UNCHANGED <<token, config>>

AccessNext ==
  \/ \E origin \in Origins, fields \in Headers, skip \in BOOLEAN : Auth(origin, fields, skip)
  \/ \E origin \in Origins, fields \in Headers : OptionalAuth(origin, fields)
  \/ \E origin \in Origins : Preflight(origin)
  \/ Advance

AccessSpec == AccessInit /\ [][AccessNext]_accessVars
-----------------------------------------------------------------------------
(* Properties *)

\* What the documentation asks of a token, stated at once: three parts that
\* decode, signed with the configured key of its algorithm, for this issuer and
\* audience where they are configured, and now within its validity, extended by
\* the clock skew at both ends.
Genuine ==
  /\ token.parts = 3 /\ token.header /\ token.payload /\ token.signature
  /\ \/ token.alg = "HS256" /\ token.key = "secret"
     \/ token.alg = "RS256" /\ token.key = "rsa"
  /\ token.key \in config.keys
  /\ token.claims.exp = 0 \/ clock - config.skew <= token.claims.exp
  /\ token.claims.nbf = 0 \/ clock + config.skew >= token.claims.nbf
  /\ config.issuer \in {"", token.claims.iss} /\ config.audience \in {"", token.claims.aud}

\* At every moment Validate accepts a token exactly if it is genuine, whatever
\* combination of defects it has.
ValidIffGenuine == Validate(token) = "ok" <=> Genuine

\* A handler sees claims only of a genuine token, behind Auth or OptionalAuth.
ClaimsVouchedFor == response.claims => response.handler /\ Genuine

\* Browsers refuse a wildcard together with credentials: CORS never answers so,
\* and whenever it names an origin it tells caches that the answer varies.
CORSWellFormed ==
  /\ ~(response.cors.allowOrigin = "*" /\ response.cors.credentials)
  /\ response.cors.allowOrigin \notin {"", "*"} => response.cors.vary

\* A handler sees only claims that were verified, and CORS headers are well formed.
MiddlewareSound == ClaimsVouchedFor /\ CORSWellFormed
=============================================================================
