--------------------------- MODULE ProcessProofs ----------------------------
(***************************************************************************)
(* The parts around the proxies, for any configuration and requests: the   *)
(* token bucket, access control and the life of the process.               *)
(***************************************************************************)
EXTENDS TokenBucket, Access, Lifecycle, TLAPS
-----------------------------------------------------------------------------
(* The token bucket                                                        *)

\* A fill is worth between the stored tokens and the capacity.
LEMMA FilledType ==
  ASSUME BucketTypeOK
  PROVE  /\ Filled \in 0..Capacity
         /\ rate \in Nat \ {0} /\ rate * sinceFill \in Nat
<1>1. rate \in Nat \ {0} /\ sinceFill \in Nat
  BY BucketAssumption DEF BucketTypeOK
<1>2. rate * sinceFill \in Nat
  BY <1>1
<1> QED  BY <1>1, <1>2, BucketAssumption DEF BucketTypeOK, Filled

\* Right after a refill the stored tokens are worth themselves.
LEMMA Settled ==
  ASSUME NEW t \in 0..Capacity, NEW r \in Nat
  PROVE  (IF t + r * 0 > Capacity THEN Capacity ELSE t + r * 0) = t
  BY BucketAssumption

\* One more unit of time is worth one more rate, also once the age has saturated.
LEMMA OneTick ==
  ASSUME BucketTypeOK, BucketTick
  PROVE  Filled' = Eager!Least(Capacity, Filled + rate)
<1> DEFINE earned == rate * sinceFill
<1>1. rate \in Nat /\ rate >= 1 /\ sinceFill \in 0..Capacity /\ tokens \in 0..Capacity
      /\ Capacity \in Nat
  BY BucketAssumption DEF BucketTypeOK
<1>2. earned \in Nat /\ rate' = rate /\ tokens' = tokens
  BY <1>1 DEF BucketTick
<1>3. CASE sinceFill < Capacity
  <2>1. rate' * sinceFill' = earned + rate
    BY <1>1, <1>2, <1>3 DEF BucketTick
  <2> HIDE DEF earned
  <2>2. Filled = IF tokens + earned > Capacity THEN Capacity ELSE tokens + earned
    BY DEF Filled, earned
  <2>3. Filled' = IF tokens + (earned + rate) > Capacity THEN Capacity
                                                         ELSE tokens + (earned + rate)
    BY <2>1, <1>2 DEF Filled
  <2> QED  BY <1>1, <1>2, <2>2, <2>3 DEF Eager!Least
<1>4. CASE sinceFill = Capacity
  <2>1. earned >= Capacity
    BY <1>1, <1>4
  <2>2. rate' * sinceFill' = earned
    BY <1>1, <1>2, <1>4 DEF BucketTick
  <2> HIDE DEF earned
  <2>3. Filled = IF tokens + earned > Capacity THEN Capacity ELSE tokens + earned
    BY DEF Filled, earned
  <2>4. Filled' = IF tokens + earned > Capacity THEN Capacity ELSE tokens + earned
    BY <2>2, <1>2 DEF Filled
  <2> QED  BY <1>1, <1>2, <2>1, <2>3, <2>4 DEF Eager!Least
<1> QED  BY <1>1, <1>3, <1>4

\* A new bucket is full.
LEMMA TypeInit == BucketInit => BucketTypeOK
  BY BucketAssumption DEF BucketInit, BucketTypeOK

\* No method overfills or overdraws the bucket.
LEMMA TypeNext == BucketTypeOK /\ [BucketNext]_bucketVars => BucketTypeOK'
<1> SUFFICES ASSUME BucketTypeOK, [BucketNext]_bucketVars PROVE BucketTypeOK'
  OBVIOUS
<1>1. Filled \in 0..Capacity
  BY FilledType
<1>2. ASSUME NEW n \in Costs, AllowN(n) \/ DenyN(n) PROVE BucketTypeOK'
  BY <1>1, <1>2, BucketAssumption DEF BucketTypeOK, AllowN, DenyN
<1>3. ASSUME NEW r \in Rates \cup {0}, SetRate(r) PROVE BucketTypeOK'
  BY <1>1, <1>3, BucketAssumption DEF BucketTypeOK, SetRate, bucketVars
<1>4. CASE Stats \/ Reset \/ BucketTick \/ UNCHANGED bucketVars
  BY <1>1, <1>4, BucketAssumption DEF BucketTypeOK, Stats, Reset, BucketTick, bucketVars
<1> QED  BY <1>2, <1>3, <1>4 DEF BucketNext

\* The bucket never holds less than nothing or more than its capacity.
THEOREM TypeCorrect == BucketSpec => []BucketTypeOK
  BY TypeInit, TypeNext, PTL DEF BucketSpec

\* Every call of the limiter is a step of the eager bucket, or invisible to it.
LEMMA BudgetStep == BucketTypeOK /\ [BucketNext]_bucketVars => [Eager!Next]_(Eager!budget)
<1> SUFFICES ASSUME BucketTypeOK, [BucketNext]_bucketVars PROVE [Eager!Next]_(Eager!budget)
  OBVIOUS
<1>0. Filled \in 0..Capacity /\ rate \in Nat \ {0} /\ BucketTypeOK'
  BY FilledType, TypeNext
<1>1. ASSUME sinceFill' = 0 PROVE Filled' = tokens'
  <2>1. tokens' \in 0..Capacity /\ rate' \in Nat
    BY <1>0, BucketAssumption DEF BucketTypeOK
  <2> QED  BY <1>1, <2>1, Settled DEF Filled
<1>2. ASSUME NEW n \in Costs, AllowN(n) PROVE Eager!Grant(n)
  BY <1>0, <1>1, <1>2, BucketAssumption DEF AllowN, Eager!Grant, Filled
<1>3. ASSUME NEW n \in Costs, DenyN(n) PROVE Eager!Refuse(n)
  BY <1>0, <1>1, <1>3, BucketAssumption DEF DenyN, Eager!Refuse, Eager!budget, Filled
<1>4. ASSUME NEW r \in Rates \cup {0}, SetRate(r)
      PROVE  (r \in Rates /\ Eager!SetRate(r)) \/ UNCHANGED Eager!budget
  BY <1>0, <1>1, <1>4, BucketAssumption DEF SetRate, Eager!SetRate, Eager!budget, bucketVars, Filled
<1>5. CASE Stats
  BY <1>0, <1>1, <1>5 DEF Stats, Eager!budget, Filled
<1>6. CASE Reset
  BY <1>0, <1>1, <1>6 DEF Reset, Eager!Refill, Eager!Next, Filled
<1>7. CASE BucketTick
  BY <1>7, OneTick DEF BucketTick, Eager!Tick, Eager!Next, Filled
<1>8. CASE UNCHANGED bucketVars
  BY <1>8 DEF bucketVars, Eager!budget
<1> QED
  BY <1>2, <1>3, <1>4, <1>5, <1>6, <1>7, <1>8 DEF BucketNext, Eager!Next

\* The limiter grants and refuses as if it were refilled in every unit of time.
THEOREM LazyIsEager == BucketSpec => ImplementsBudget
<1>1. BucketInit => Eager!Init
  BY BucketAssumption DEF BucketInit, Eager!Init
<1> QED
  BY <1>1, BudgetStep, TypeCorrect, PTL DEF BucketSpec, ImplementsBudget, Eager!Spec
-----------------------------------------------------------------------------
(* Access                                                                  *)

AccessTypes ==
  /\ clock \in Int /\ config.skew \in Int /\ config.credentials \in BOOLEAN
  /\ {token.header, token.payload, token.signature} \subseteq BOOLEAN
  /\ token.claims.exp \in Int /\ token.claims.nbf \in Int

\* Validate returns "ok" exactly if each of its checks does: an error is never
\* "ok" itself, whichever of them comes first.
LEMMA ValidateAll ==
  ASSUME NEW t
  PROVE  Validate(t) = "ok" <=>
           /\ Parse(t) = "ok" /\ verifySignature(t) = "ok" /\ checkExpiration(t) = "ok"
           /\ checkNotBefore(t) = "ok" /\ checkIssuer(t) = "ok" /\ checkAudience(t) = "ok"
<1> DEFINE checks == <<Parse(t), verifySignature(t), checkExpiration(t), checkNotBefore(t),
                       checkIssuer(t), checkAudience(t)>>
           failed == {i \in DOMAIN checks : checks[i] # "ok"}
           first  == CHOOSE i \in failed : \A j \in failed : i <= j
<1>1. DOMAIN checks = 1..6
  OBVIOUS
<1>2. CASE failed = {}
  BY <1>1, <1>2 DEF Validate
<1>3. CASE failed # {}
  <2>1. \E i \in failed : \A j \in failed : i <= j
    BY <1>1, <1>3
  <2>2. first \in failed
    BY <2>1
  <2> QED BY <1>1, <1>3, <2>2 DEF Validate
<1> QED BY <1>2, <1>3

\* Each check by itself is the matching clause of Genuine.
LEMMA ValidIsGenuine ==
  ASSUME AccessTypes
  PROVE  ValidIffGenuine
<1>1. Parse(token) = "ok" <=>
        token.parts = 3 /\ token.header /\ token.payload /\ token.signature
  BY DEF Parse, AccessTypes
<1>2. verifySignature(token) = "ok" <=>
        /\ \/ token.alg = "HS256" /\ token.key = "secret"
           \/ token.alg = "RS256" /\ token.key = "rsa"
        /\ token.key \in config.keys
  BY DEF verifySignature, verify
<1>3. checkExpiration(token) = "ok" <=>
        token.claims.exp = 0 \/ clock - config.skew <= token.claims.exp
  BY DEF checkExpiration, AccessTypes
<1>4. checkNotBefore(token) = "ok" <=>
        token.claims.nbf = 0 \/ clock + config.skew >= token.claims.nbf
  BY DEF checkNotBefore, AccessTypes
<1>5. /\ checkIssuer(token) = "ok" <=> config.issuer \in {"", token.claims.iss}
      /\ checkAudience(token) = "ok" <=> config.audience \in {"", token.claims.aud}
  BY DEF checkIssuer, checkAudience
<1> QED BY ValidateAll, <1>1, <1>2, <1>3, <1>4, <1>5, Zenon DEF ValidIffGenuine, Genuine

\* Time passes and requests come; the token and the configuration stay.
LEMMA AccessTypesInv == AccessSpec => []AccessTypes
<1>1. AccessInit => AccessTypes
  <2> SUFFICES ASSUME AccessInit PROVE AccessTypes
    OBVIOUS
  <2>1. clock \in Int /\ config.skew \in Int /\ config.credentials \in BOOLEAN
    BY AccessAssumption DEF AccessInit
  <2>2. CASE token \in Tokens
    BY <2>1, <2>2, AccessAssumption DEF AccessTypes
  <2>3. ASSUME NEW c \in Claims, token = SignHS256(c, "secret")
        PROVE  AccessTypes
    BY <2>1, <2>3, AccessAssumption DEF AccessTypes, SignHS256
  <2> QED BY <2>2, <2>3 DEF AccessInit
<1>2. AccessTypes /\ [AccessNext]_accessVars => AccessTypes'
  <2>1. [AccessNext]_accessVars => UNCHANGED <<token, config>> /\ (clock' = clock \/ clock' = clock + 1)
    BY DEF AccessNext, accessVars, Auth, OptionalAuth, Preflight, Advance
  <2> QED BY <2>1 DEF AccessTypes
<1> QED BY <1>1, <1>2, PTL DEF AccessSpec

\* Validate (jwt.go) accepts the genuine tokens and no others, at every moment and
\* for every combination of defects, keys and clock skew.
THEOREM GenuineTokensOnly == AccessSpec => []ValidIffGenuine
<1>1. AccessTypes => ValidIffGenuine
  BY ValidIsGenuine
<1> QED BY <1>1, AccessTypesInv, PTL

\* A handler sees claims only after Validate has accepted the token in the same
\* state, and every answer of CORS is one a browser can use.
LEMMA AnswerSound ==
  ASSUME AccessTypes, NEW origin \in Origins, NEW fields,
         NEW skip \in BOOLEAN, Auth(origin, fields, skip) \/ OptionalAuth(origin, fields)
                                \/ Preflight(origin)
  PROVE  MiddlewareSound'
<1>1. response'.cors = CORS(origin) /\ (response'.claims => response'.handler /\ Vouched(fields))
  <2>1. CASE Preflight(origin)
    BY <2>1 DEF Preflight, Outcome
  <2>2. CASE OptionalAuth(origin, fields)
    BY <2>2 DEF OptionalAuth, Outcome
  <2>3. CASE Auth(origin, fields, skip)
    BY <2>3 DEF Auth, Outcome
  <2> QED BY <2>1, <2>2, <2>3
<1>2. /\ ~(CORS(origin).allowOrigin = "*" /\ CORS(origin).credentials)
      /\ CORS(origin).allowOrigin \notin {"", "*"} => CORS(origin).vary
  <2>1. CASE ~Allowed(origin)
    BY <2>1 DEF CORS, NoHeaders
  <2>2. CASE Allowed(origin)
    BY <2>2, AccessAssumption DEF CORS, AllowOrigin, AccessTypes
  <2> QED BY <2>1, <2>2
<1>3. Genuine' <=> Genuine
  BY DEF Auth, OptionalAuth, Preflight, Genuine
<1>4. Vouched(fields) => Genuine
  BY ValidIsGenuine DEF Vouched, ValidIffGenuine
<1> QED BY <1>1, <1>2, <1>3, <1>4 DEF MiddlewareSound, ClaimsVouchedFor, CORSWellFormed

\* Before any request there is nothing to be wrong.
LEMMA SilenceSound ==
  ASSUME response = NoResponse
  PROVE  MiddlewareSound
<1>1. ClaimsVouchedFor
  BY DEF NoResponse, Outcome, NoHeaders, ClaimsVouchedFor
<1>2. CORSWellFormed
  BY DEF NoResponse, Outcome, NoHeaders, CORSWellFormed
<1> QED BY <1>1, <1>2 DEF MiddlewareSound

\* Auth and OptionalAuth (auth.go) pass on only the claims of a token that is
\* genuine at that moment, and CORS (cors.go) never answers with a wildcard and
\* credentials.
THEOREM MiddlewareIsSound == AccessSpec => []MiddlewareSound
<1>1. AccessInit => MiddlewareSound
  BY SilenceSound DEF AccessInit
<1>2. AccessTypes /\ MiddlewareSound /\ [AccessNext]_accessVars => MiddlewareSound'
  <2> SUFFICES ASSUME AccessTypes, MiddlewareSound, [AccessNext]_accessVars
               PROVE  MiddlewareSound'
    OBVIOUS
  <2>1. CASE Advance
    <3>1. ASSUME response' = NoResponse PROVE ClaimsVouchedFor' /\ CORSWellFormed'
      BY <3>1 DEF NoResponse, Outcome, NoHeaders, ClaimsVouchedFor, CORSWellFormed
    <3> QED BY <2>1, <3>1 DEF Advance, MiddlewareSound
  <2>2. CASE UNCHANGED accessVars
    BY <2>2 DEF accessVars, MiddlewareSound, ClaimsVouchedFor, CORSWellFormed, Genuine
  <2> QED BY <2>1, <2>2, AnswerSound DEF AccessNext
<1> QED BY <1>1, <1>2, AccessTypesInv, PTL DEF AccessSpec
-----------------------------------------------------------------------------
(* The life of the process                                                 *)

\* What Build makes of a backend of the configuration.
BuiltAs(c, b) ==
  /\ b.addr = c.addr
  /\ b.weight = IF c.weight > 1 THEN c.weight ELSE 1
  /\ b.pool = [x \in PoolSetting \cap InUse(cfg) |-> IF cfg.value[x] > 0 THEN cfg.value[x] ELSE Default[x]]

\* Main goes on only with a configuration that was loaded from the file, and starts
\* the registry's watcher, which may end the process, after that.
Configured ==
  /\ file \in Files
  /\ pc \in {"load", "build"} => watcher = "none"
  /\ cfg = NoCfg \/ (cfg = applyDefaults(file) /\ Loads(file))
  /\ pc = "load" => cfg = NoCfg
  /\ pc \notin {"load", "exited"} => cfg = applyDefaults(file) /\ Loads(file)
  /\ pc \notin {"load", "build"} /\ cfg # NoCfg =>
       /\ DOMAIN built = DOMAIN cfg.backends
       /\ \A i \in DOMAIN built : BuiltAs(cfg.backends[i], built[i])

\* Main's own steps are the only ones that touch these, and an exit is the last.
LEMMA ConfiguredInv == LifeSpec => []Configured
<1>1. LifeInit => Configured
  BY DEF LifeInit, Configured
<1>2. Configured /\ [LifeNext]_lifeVars => Configured'
  <2> SUFFICES ASSUME Configured, [LifeNext]_lifeVars PROVE Configured'
    OBVIOUS
  <2> USE DEF Configured
  <2>1. CASE LoadConfig
    BY <2>1 DEF LoadConfig, Proceed, Exit, aside
  <2>2. CASE Build
    <3>1. /\ pc = "build" /\ pc' = "servers" /\ UNCHANGED <<file, cfg>>
          /\ DOMAIN built' = DOMAIN cfg.backends
          /\ \A i \in DOMAIN built' : BuiltAs(cfg.backends[i], built'[i])
      BY <2>2 DEF Build, Proceed, BuiltAs
    <3>2. \A i \in DOMAIN built' : BuiltAs(cfg.backends[i], built[i])'
      BY <3>1 DEF BuiltAs
    <3> QED BY <3>1, <3>2
  <2>3. CASE /\ UNCHANGED <<file, cfg, built>>
             /\ pc \notin {"load", "build", "exited"} /\ pc' \notin {"load", "build"}
    BY <2>3 DEF BuiltAs
  <2>4. CASE UNCHANGED <<file, cfg, built, pc>> /\ (pc \in {"load", "build"} => UNCHANGED watcher)
    BY <2>4 DEF BuiltAs
  <2>5. CASE Main
    <3>1. CASE StartServers \/ StartChecker \/ StartProxy \/ StartHTTP \/ Wait
      BY <2>3, <3>1 DEF StartServers, StartChecker, StartProxy, StartHTTP, Wait, Proceed, Exit
    <3>2. ASSUME NEW s \in Server, EndShutdown(s) PROVE Configured'
      BY <2>3, <3>2 DEF EndShutdown, Proceed, Server, After
    <3>3. ASSUME NEW s \in Server, BeginShutdown(s) PROVE Configured'
      BY <2>4, <3>3 DEF BeginShutdown, aside
    <3>4. CASE StopRegistry \/ CloseProxy \/ StopProxy \/ StopChecker
      BY <2>3, <2>4, <3>4 DEF StopRegistry, CloseProxy, StopProxy, StopChecker, Proceed, Exit, aside
    <3> QED BY <2>1, <2>2, <2>5, <3>1, <3>2, <3>3, <3>4 DEF Main
  <2>6. CASE Watch \/ WatcherPanics
    BY <2>3, <2>4, <2>6 DEF Watch, WatcherPanics, Exit, main
  <2>7. CASE ~Main /\ ~Watch /\ ~WatcherPanics
    BY <2>4, <2>7 DEF LifeNext, lifeVars, main, aside, Signal, Listen, ArriveAt, Finish, Accept,
                      LeaveLoop, HandleConn, CheckerEnds, Countdown
  <2> QED BY <2>5, <2>6, <2>7
<1> QED BY <1>1, <1>2, PTL DEF LifeSpec

\* A list that is not empty has an element.
LEMMA NotEmpty ==
  ASSUME NEW f, f # <<>>, f = [i \in DOMAIN f |-> f[i]]
  PROVE  DOMAIN f # {}
<1> SUFFICES ASSUME DOMAIN f = {} PROVE FALSE
  OBVIOUS
<1>1. f \in [1..0 -> {}]
  OBVIOUS
<1>2. f \in Seq({}) /\ Len(f) = 0
  BY <1>1
<1> QED BY <1>2

\* A weight that Validate lets pass is positive once the default is in.
LEMMA WeighedPositive ==
  ASSUME NEW w \in Int, Weighed(w) >= 0
  PROVE  Weighed(w) \in Nat \ {0}
  BY DEF Weighed

\* The settings of a pool take effect just if pooling is enabled.
LEMMA PoolInUse ==
  ASSUME NEW c
  PROVE  PoolSetting \cap InUse(c) = IF "tcp_pool" \in c.enabled THEN PoolSetting ELSE {}
  BY DEF PoolSetting, InUse, Optional

\* applyDefaults replaces what is zero and in use, and nothing else.
LEMMA SettingsKept ==
  ASSUME NEW f \in Files, NEW x \in Setting
  PROVE  LET v == applyDefaults(f).value[x] IN
         /\ v \in Int /\ Default[x] \in Nat \ {0}
         /\ x \in InUse(f) => v # 0
         /\ f.value[x] # 0 => v = f.value[x]
<1>1. applyDefaults(f).value[x] = IF f.value[x] = 0 /\ x \in InUse(f) THEN Default[x] ELSE f.value[x]
  BY DEF applyDefaults, Defaulted
<1>2. Default[x] \in Nat \ {0} /\ f.value[x] \in Int
  BY LifecycleAssumption
<1> QED BY <1>1, <1>2

\* The three places that fill in weights and pool settings (applyDefaults, Validate
\* and main) agree, so a process past its configuration has the file's backends, and
\* no setting in use is zero.
THEOREM ServesItsFile == LifeSpec => []LoadedIsServable
<1>1. Configured => LoadedIsServable
  <2> SUFFICES ASSUME Configured, pc \notin {"load", "build"}, cfg # NoCfg
               PROVE  LoadedIsServable
    BY DEF LoadedIsServable
  <2>1. cfg = applyDefaults(file) /\ ValidConfig(cfg) /\ file \in Files
    BY DEF Configured, Loads
  <2>2. /\ cfg.listen = file.listen /\ cfg.enabled = file.enabled
        /\ DOMAIN cfg.backends = DOMAIN file.backends
        /\ \A i \in DOMAIN file.backends :
             /\ cfg.backends[i].addr = file.backends[i].addr
             /\ cfg.backends[i].weight = Weighed(file.backends[i].weight)
    BY <2>1 DEF applyDefaults
  <2>3. /\ DOMAIN built = DOMAIN cfg.backends
        /\ \A i \in DOMAIN built : BuiltAs(cfg.backends[i], built[i])
    BY DEF Configured
  <2>4. file.listen # "" /\ built # <<>> /\ DOMAIN built = DOMAIN file.backends
    <3>1. cfg.backends = [i \in DOMAIN cfg.backends |-> cfg.backends[i]]
      BY <2>1, <2>2 DEF applyDefaults
    <3>2. DOMAIN cfg.backends # {}
      BY <2>1, <3>1, NotEmpty DEF ValidConfig
    <3>3. DOMAIN <<>> = {}
      OBVIOUS
    <3>4. built # <<>>
      BY <2>3, <3>2, <3>3
    <3> QED BY <2>1, <2>2, <2>3, <3>4 DEF ValidConfig
  <2>5. ASSUME NEW i \in DOMAIN built
        PROVE  /\ built[i].addr # "" /\ built[i].addr = file.backends[i].addr
               /\ cfg.backends[i].weight = built[i].weight
               /\ file.backends[i].weight \in {0, built[i].weight}
               /\ DOMAIN built[i].pool = IF "tcp_pool" \in file.enabled THEN PoolSetting ELSE {}
               /\ \A x \in DOMAIN built[i].pool : built[i].pool[x] > 0
    <3>1. /\ cfg.backends[i].addr # "" /\ cfg.backends[i].weight >= 0
          /\ file.backends[i].weight \in Int
      BY <2>1, <2>2, <2>3, LifecycleAssumption DEF ValidConfig
    <3>2. cfg.backends[i].weight = Weighed(file.backends[i].weight)
      BY <2>2, <2>3
    <3>3. cfg.backends[i].weight \in Nat \ {0}
      BY <3>1, <3>2, WeighedPositive
    <3>4. InUse(cfg) = InUse(file)
      BY <2>2 DEF InUse
    <3>5. built[i].pool = [x \in PoolSetting \cap InUse(cfg) |->
                             IF cfg.value[x] > 0 THEN cfg.value[x] ELSE Default[x]]
      BY <2>3 DEF BuiltAs
    <3>6. DOMAIN built[i].pool = IF "tcp_pool" \in file.enabled THEN PoolSetting ELSE {}
      BY <3>4, <3>5, PoolInUse
    <3>7. ASSUME NEW x \in DOMAIN built[i].pool PROVE built[i].pool[x] > 0
      <4>1. /\ x \in PoolSetting \cap InUse(cfg)
            /\ built[i].pool[x] = IF cfg.value[x] > 0 THEN cfg.value[x] ELSE Default[x]
        BY <3>5, <3>7
      <4>2. x \in Setting
        BY <4>1 DEF PoolSetting
      <4>3. cfg.value[x] \in Int /\ Default[x] \in Nat \ {0}
        BY <2>1, <4>2, SettingsKept
      <4> QED BY <4>1, <4>3
    <3>8. /\ built[i].addr = cfg.backends[i].addr
          /\ built[i].weight = IF cfg.backends[i].weight > 1 THEN cfg.backends[i].weight ELSE 1
      BY <2>3, Zenon DEF BuiltAs
    <3>9. built[i].addr = cfg.backends[i].addr /\ built[i].weight = cfg.backends[i].weight
      BY <3>3, <3>8
    <3>10. file.backends[i].weight \in {0, built[i].weight}
      BY <3>2, <3>9 DEF Weighed
    <3>11. built[i].addr # "" /\ built[i].addr = file.backends[i].addr
      BY <2>2, <2>3, <3>1, <3>9
    <3> QED BY <3>6, <3>7, <3>9, <3>10, <3>11
  <2>6. /\ \A x \in InUse(file) : cfg.value[x] # 0
        /\ \A x \in Setting : file.value[x] # 0 => cfg.value[x] = file.value[x]
    <3>1. InUse(file) \subseteq Setting
      BY DEF InUse
    <3> QED BY <2>1, <3>1, SettingsKept
  <2> QED BY <2>4, <2>5, <2>6 DEF LoadedIsServable
<1> QED BY <1>1, ConfiguredInv, PTL

\* The states of shutting down: which parts main may have touched at each point, and
\* what it left behind.
Untouched(s) == server[s] \in {"none", "starting", "up", "failed"}
Down(s) == server[s] \in {"none", "closed"}

LifeTypes ==
  /\ exitCode \in {Running, 0, 1, 2}
  /\ pc = "exited" <=> ~Alive
  /\ left \in Nat
  /\ server \in [Server -> {"none", "starting", "up", "failed", "draining", "closed"}]
  /\ inflight \in [Server -> Nat]
  /\ conns \in [starting : Nat, active : Nat, ending : Nat]

Stages ==
  /\ pc \in {"load", "build", "servers", "checker", "proxy"} => tcp = "off"
  /\ pc \in {"load", "build", "servers"} => \A s \in Server : server[s] = "none"
  /\ pc \in {"checker", "proxy", "l7"} => server["http"] = "none"
  /\ pc \in {"load", "build", "servers", "checker", "proxy", "l7", "wait"} => \A s \in Server : Untouched(s)
  /\ pc = "http" => Untouched("admin") /\ Untouched("registry")
  /\ pc = "admin" => Down("http") /\ Untouched("registry")
  /\ pc = "registry" => Down("http") /\ Down("admin")
  /\ pc \in {"services", "l4", "health"} \/ tcp = "closed" \/ watcher = "closed" => \A s \in Server : Down(s)
  /\ tcp = "closed" \/ watcher = "closed" => pc \in {"l4", "health", "exited"}
  /\ checker = "stopped" => pc = "exited"
  /\ pc = "health" => tcp = "closed" /\ (left > 0 => Open = 0)
  /\ \A s \in Server : server[s] \in {"none", "starting", "failed"} => inflight[s] = 0

ShutdownInv == LifeTypes /\ Stages /\ ShutdownClean

\* A handler that moves on was there to be waited for.
LEMMA HandlerTypes ==
  ASSUME NEW c \in [starting : Nat, active : Nat, ending : Nat], NEW d,
         \/ c.starting > 0 /\ d = [c EXCEPT !.starting = @ - 1, !.active = @ + 1]
         \/ c.active > 0 /\ d = [c EXCEPT !.active = @ - 1, !.ending = @ + 1]
         \/ c.ending > 0 /\ d = [c EXCEPT !.ending = @ - 1]
  PROVE  /\ d \in [starting : Nat, active : Nat, ending : Nat]
         /\ c.starting + c.active + c.ending > 0
<1> DEFINE T == [starting : Nat, active : Nat, ending : Nat]
<1>0. c \in T
  OBVIOUS
<1>1. ASSUME NEW e \in T, NEW n \in Nat
      PROVE  [e EXCEPT !.starting = n] \in T /\ [e EXCEPT !.active = n] \in T /\ [e EXCEPT !.ending = n] \in T
  OBVIOUS
<1>2. CASE c.starting > 0 /\ d = [c EXCEPT !.starting = @ - 1, !.active = @ + 1]
  <2>1. d = [[c EXCEPT !.starting = c.starting - 1] EXCEPT !.active = c.active + 1]
    BY <1>2
  <2>2. c.starting - 1 \in Nat /\ c.active + 1 \in Nat /\ c.starting + c.active + c.ending > 0
    BY <1>2
  <2> HIDE DEF T
  <2>3. d \in T
    BY <1>0, <1>1, <2>1, <2>2
  <2> QED BY <2>2, <2>3 DEF T
<1>3. CASE c.active > 0 /\ d = [c EXCEPT !.active = @ - 1, !.ending = @ + 1]
  <2>1. d = [[c EXCEPT !.active = c.active - 1] EXCEPT !.ending = c.ending + 1]
    BY <1>3
  <2>2. c.active - 1 \in Nat /\ c.ending + 1 \in Nat /\ c.starting + c.active + c.ending > 0
    BY <1>3
  <2> HIDE DEF T
  <2>3. d \in T
    BY <1>0, <1>1, <2>1, <2>2
  <2> QED BY <2>2, <2>3 DEF T
<1>4. CASE c.ending > 0 /\ d = [c EXCEPT !.ending = @ - 1]
  BY <1>4
<1> QED BY <1>2, <1>3, <1>4

\* No step leaves the order: each stage allows what the code does in it.
LEMMA ShutdownInvStep == ShutdownInv /\ [LifeNext]_lifeVars => ShutdownInv'
<1> SUFFICES ASSUME ShutdownInv, [LifeNext]_lifeVars PROVE ShutdownInv'
  OBVIOUS
<1> USE DEF ShutdownInv, LifeTypes, Stages, ShutdownClean, DrainsInOrder, CleanExit, Alive, Running,
            Server, Untouched, Down, Open, env, aside, main
<1>1. CASE LoadConfig
  BY <1>1 DEF LoadConfig, Proceed, Exit
<1>2. CASE Build
  BY <1>2 DEF Build, Proceed
<1>3. CASE StartServers
  BY <1>3 DEF StartServers, Proceed
<1>4. CASE StartChecker
  BY <1>4 DEF StartChecker, Proceed
<1>5. CASE StartProxy
  BY <1>5 DEF StartProxy, Proceed, Exit
<1>6. CASE StartHTTP
  BY <1>6 DEF StartHTTP, Proceed
<1>7. CASE Wait
  BY <1>7 DEF Wait, Proceed
<1>8. CASE CloseProxy
  BY <1>8 DEF CloseProxy
<1>9. CASE StopProxy
  BY <1>9 DEF StopProxy, Proceed, Exit, Expired
<1>10. CASE StopChecker
  BY <1>10 DEF StopChecker, Exit
<1>11. CASE Signal
  BY <1>11 DEF Signal
<1>12. CASE Accept
  BY <1>12 DEF Accept
<1>13. CASE LeaveLoop
  BY <1>13 DEF LeaveLoop
<1>14. CASE HandleConn
  <2>1. UNCHANGED <<pc, tcp, server, inflight, left, exitCode, checker, watcher>> /\ Alive
    BY <1>14 DEF HandleConn
  <2>2. conns' \in [starting : Nat, active : Nat, ending : Nat] /\ Open > 0
    BY <1>14, HandlerTypes DEF HandleConn
  <2> QED BY <2>1, <2>2
<1>15. CASE Countdown
  BY <1>15 DEF Countdown
<1>16. ASSUME NEW s \in Server, BeginShutdown(s) PROVE ShutdownInv'
  BY <1>16 DEF BeginShutdown
<1>17. ASSUME NEW s \in Server, EndShutdown(s) PROVE ShutdownInv'
  BY <1>17 DEF EndShutdown, Proceed, Drained, Expired, After
<1>18. ASSUME NEW s \in Server, Listen(s) PROVE ShutdownInv'
  BY <1>18 DEF Listen
<1>19. ASSUME NEW s \in Server, ArriveAt(s) PROVE ShutdownInv'
  BY <1>19 DEF ArriveAt
<1>20. ASSUME NEW s \in Server, Finish(s) PROVE ShutdownInv'
  BY <1>20 DEF Finish
<1>21. CASE UNCHANGED lifeVars
  BY <1>21 DEF lifeVars
<1>22. CASE StopRegistry
  BY <1>22 DEF StopRegistry, Proceed
<1>23. CASE CheckerEnds
  BY <1>23 DEF CheckerEnds
<1>24. CASE Watch
  BY <1>24 DEF Watch
<1>25. CASE WatcherPanics
  BY <1>25 DEF WatcherPanics, Exit
<1> QED
  BY ONLY [LifeNext]_lifeVars, <1>1, <1>2, <1>3, <1>4, <1>5, <1>6, <1>7, <1>8, <1>9, <1>10, <1>11, <1>12, <1>13, <1>14, <1>15, <1>16, <1>17, <1>18, <1>19, <1>20, <1>21, <1>22, <1>23, <1>24, <1>25 DEF LifeNext, Main

\* Nothing is running when a process begins.
LEMMA ShutdownInvInit == LifeInit => ShutdownInv
<1> SUFFICES ASSUME LifeInit PROVE ShutdownInv
  OBVIOUS
<1> USE DEF LifeInit, Server
<1>1. LifeTypes
  BY LifecycleAssumption DEF LifeTypes, Alive, Running
<1>2. Stages
  BY DEF Stages, Untouched
<1>3. ShutdownClean
  BY DEF ShutdownClean, DrainsInOrder, CleanExit, Running
<1> QED BY <1>1, <1>2, <1>3 DEF ShutdownInv

\* Main shuts down from the front to the back and its exit code is true, whatever
\* the servers, the clients, the accept loop and the deadline do meanwhile.
THEOREM ShutsDownInOrder == LifeSpec => []ShutdownClean
<1>1. ShutdownInv => ShutdownClean
  BY DEF ShutdownInv
<1> QED BY <1>1, ShutdownInvInit, ShutdownInvStep, PTL DEF LifeSpec
=============================================================================
