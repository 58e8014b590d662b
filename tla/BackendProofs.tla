--------------------------- MODULE BackendProofs ---------------------------
(***************************************************************************)
(* The registry's HTTP interface, for any bodies, paths and limit, answers *)
(* truthfully and stores only usable backends.                             *)
(*                                                                         *)
(* The load balancers, for any lists, weights and numbers of callers: Next *)
(* raises no false alarm although it reads the health flags one by one,    *)
(* and LeastConnections finds a least loaded backend.                      *)
(*                                                                         *)
(* NoFalseAlarm is not inductive: CallsSound says what a scan has seen so  *)
(* far.  LeastSoFar says the same of the candidate of LeastConnections.    *)
(***************************************************************************)
EXTENDS LoadBalancer, RegistryAPI, FiniteSetTheorems, SequenceTheorems, TLAPS
-----------------------------------------------------------------------------
(* The registry's HTTP interface                                           *)

\* A path with one more segment ends in it, and is as before without it.
LEMMA LastSegment ==
  ASSUME NEW S, NEW p \in Seq(S), NEW x, p # <<>>
  PROVE  /\ Append(p, x) # <<>> /\ Append(p, x)[Len(Append(p, x))] = x
         /\ Len(Append(p, x)) > 1 /\ SubSeq(Append(p, x), 1, Len(Append(p, x)) - 1) = p
<1> DEFINE q == Append(p, x)
           f == SubSeq(q, 1, Len(q) - 1)
<1>1. p \in Seq(S \cup {x}) /\ Len(p) \in Nat \ {0}
  BY SeqMonotonic, EmptySeq
<1>2. q \in Seq(S \cup {x}) /\ Len(q) = Len(p) + 1 /\ q[Len(p) + 1] = x
      /\ \A i \in 1..Len(p) : q[i] = p[i]
  BY <1>1
<1>3. f \in Seq(S \cup {x}) /\ Len(f) = Len(p) /\ \A i \in 1..Len(p) : f[i] = q[i]
  BY <1>1, <1>2
<1>4. f = p
  BY <1>1, <1>2, <1>3, SeqEqual
<1> QED BY <1>1, <1>2, <1>4

\* The routes of handler.go lead to the service that the URL names.
LEMMA URLsAddress == AddressedByURL
<1> SUFFICES ASSUME NEW i \in Paths, i # <<>>, i[Len(i)] # "heartbeat"
             PROVE  AnswersFor(i, Serve("GET", i, NoBody, <<>>, ""),
                               Serve("PUT", Append(i, "heartbeat"), NoBody, <<>>, ""),
                               Serve("DELETE", i, NoBody, <<>>, ""))
  BY DEF AddressedByURL
<1>1. Serve("GET", i, NoBody, <<>>, "") = handleGet(i)
  BY DEF Serve
<1>2. Serve("DELETE", i, NoBody, <<>>, "") = handleDeregister(i)
  BY DEF Serve
<1>3. Serve("PUT", Append(i, "heartbeat"), NoBody, <<>>, "") = handleHeartbeat(i)
  <2>1. i \in Seq(Segment)
    BY APIAssumption
  <2>2. /\ Append(i, "heartbeat") # <<>> /\ Append(i, "heartbeat")[Len(Append(i, "heartbeat"))] = "heartbeat"
        /\ HeartbeatID(Append(i, "heartbeat")) = i
    BY <2>1, LastSegment DEF HeartbeatID
  <2> QED BY <2>2 DEF Serve
<1> SUFFICES AnswersFor(i, handleGet(i), handleHeartbeat(i), handleDeregister(i))
  BY <1>1, <1>2, <1>3, Zenon
<1>4. CASE i \in DOMAIN stored
  <2>1. /\ handleGet(i).code = 200 /\ handleGet(i).shown = {i} /\ handleGet(i).after = stored
        /\ handleHeartbeat(i).code = 204 /\ handleHeartbeat(i).after = stored
    BY <1>4 DEF handleGet, handleHeartbeat, Unknown, Response
  <2>2. /\ handleDeregister(i).code = 204
        /\ handleDeregister(i).after = [j \in DOMAIN stored \ {i} |-> stored[j]]
    BY <1>4 DEF handleDeregister, Unknown, Response
  <2>3. DOMAIN handleDeregister(i).after = DOMAIN stored \ {i}
        /\ \A j \in DOMAIN handleDeregister(i).after : handleDeregister(i).after[j] = stored[j]
    BY <2>2
  <2> QED BY <1>4, <2>1, <2>2, <2>3, Zenon DEF AnswersFor
<1>5. CASE i \notin DOMAIN stored
  <2>1. Refused(404).code = 404 /\ Refused(404).after = stored
    BY DEF Refused, Response
  <2>2. handleGet(i) = Refused(404) /\ handleDeregister(i) = Refused(404) /\ handleHeartbeat(i) = Refused(404)
    BY <1>5 DEF handleGet, handleDeregister, handleHeartbeat, Unknown
  <2>3. AnswersFor(i, Refused(404), Refused(404), Refused(404))
    BY <1>5, <2>1 DEF AnswersFor
  <2> QED BY <2>2, <2>3, Zenon
<1> QED BY <1>4, <1>5

\* The services and their number.
Registered == IsFiniteSet(DOMAIN stored) /\ StoredIsUsable

\* Register adds or replaces one service, that passed the checks, within the limit.
LEMMA RegisterUsable ==
  ASSUME Registered, NEW body \in Bodies, Complete(body), NEW id, stored' = Register(body, id).after
  PROVE  Registered'
<1> DEFINE full == MaxServices > 0 /\ Cardinality(DOMAIN stored) >= MaxServices /\ id \notin DOMAIN stored
           weight == IF body.weight <= 0 THEN 1 ELSE body.weight
<1>1. CASE full
  <2>1. stored' = stored
    BY <1>1 DEF Register, Refused, Response
  <2> QED BY <2>1 DEF Registered, StoredIsUsable
<1>2. CASE ~full
  <2>1. weight \in Int /\ weight >= 1
    BY APIAssumption
  <2>2. stored' = [i \in DOMAIN stored \cup {id} |->
                     IF i = id THEN [name |-> body.name, address |-> body.address, weight |-> weight]
                               ELSE stored[i]]
    BY <1>2 DEF Register, Response
  <2>3. \A i \in DOMAIN stored' :
          stored'[i].name # "" /\ stored'[i].address # "" /\ stored'[i].weight >= 1
    <3> SUFFICES ASSUME NEW i \in DOMAIN stored'
                 PROVE  stored'[i].name # "" /\ stored'[i].address # "" /\ stored'[i].weight >= 1
      OBVIOUS
    <3>1. CASE i = id
      <4>1. stored'[i] = [name |-> body.name, address |-> body.address, weight |-> weight]
        BY <2>2, <3>1
      <4>2. /\ stored'[i].name = body.name /\ stored'[i].address = body.address
            /\ stored'[i].weight = weight
        BY <4>1
      <4> QED BY <2>1, <4>2 DEF Complete
    <3>2. CASE i # id
      BY <2>2, <3>2 DEF Registered, StoredIsUsable
    <3> QED BY <3>1, <3>2
  <2>4. DOMAIN stored' = DOMAIN stored \cup {id}
    BY <2>2
  <2>5. IsFiniteSet(DOMAIN stored) /\ Cardinality(DOMAIN stored) \in Nat
    BY FS_CardinalityType DEF Registered
  <2>6. CASE id \in DOMAIN stored
    <3>1. DOMAIN stored' = DOMAIN stored
      BY <2>4, <2>6
    <3> QED BY <2>3, <3>1 DEF Registered, StoredIsUsable
  <2>7. CASE id \notin DOMAIN stored
    <3>1. IsFiniteSet(DOMAIN stored') /\ Cardinality(DOMAIN stored') = Cardinality(DOMAIN stored) + 1
      BY <2>4, <2>5, <2>7, FS_AddElement
    <3>2. MaxServices > 0 => Cardinality(DOMAIN stored') <= MaxServices
      BY <1>2, <2>5, <2>7, <3>1, APIAssumption
    <3> QED BY <2>3, <3>1, <3>2 DEF Registered, StoredIsUsable
  <2> QED BY <2>6, <2>7
<1> QED BY <1>1, <1>2

\* DELETE and the cleanup take one service out.
LEMMA RemovalUsable ==
  ASSUME Registered, NEW id \in DOMAIN stored, stored' = [i \in DOMAIN stored \ {id} |-> stored[i]]
  PROVE  Registered'
<1>1. DOMAIN stored' = DOMAIN stored \ {id} /\ \A i \in DOMAIN stored' : stored'[i] = stored[i]
  OBVIOUS
<1>2. IsFiniteSet(DOMAIN stored') /\ Cardinality(DOMAIN stored') = Cardinality(DOMAIN stored) - 1
      /\ Cardinality(DOMAIN stored) \in Nat
  BY <1>1, FS_RemoveElement, FS_CardinalityType DEF Registered
<1>3. \A i \in DOMAIN stored' :
        stored'[i].name # "" /\ stored'[i].address # "" /\ stored'[i].weight >= 1
  BY <1>1 DEF Registered, StoredIsUsable
<1>4. MaxServices > 0 => Cardinality(DOMAIN stored) <= MaxServices
  BY DEF Registered, StoredIsUsable
<1>5. MaxServices > 0 => Cardinality(DOMAIN stored') <= MaxServices
  BY <1>2, <1>4, APIAssumption
<1> QED BY <1>2, <1>3, <1>5 DEF Registered, StoredIsUsable

\* A request makes at most one of these changes.
LEMMA RequestUsable ==
  ASSUME Registered, NEW method, NEW path, NEW body, NEW generated, NEW name,
         path = <<>> /\ method = "POST" => body \in Bodies,
         ServeHTTP(method, path, body, generated, name)
  PROVE  Registered'
<1> DEFINE r == Serve(method, path, body, generated, name)
<1>1. stored' = r.after
  BY DEF ServeHTTP
<1>2. ASSUME stored' = stored PROVE Registered'
  BY <1>2 DEF Registered, StoredIsUsable
<1>3. \A c : Refused(c).after = stored
  BY DEF Refused, Response
<1>4. CASE path = <<>> /\ method = "POST"
  <2>1. r = handleRegister(body, generated)
    BY <1>4 DEF Serve
  <2>2. CASE ~body.json \/ ~Complete(body) \/ body.ttl = "malformed"
    BY <1>1, <1>2, <1>3, <2>1, <2>2 DEF handleRegister
  <2>3. CASE ~(~body.json \/ ~Complete(body) \/ body.ttl = "malformed")
    <3>1. r = Register(body, IF body.id = <<>> THEN generated ELSE body.id)
      BY <2>1, <2>3 DEF handleRegister
    <3> QED BY <1>1, <1>4, <2>3, <3>1, RegisterUsable
  <2> QED BY <2>2, <2>3
<1>5. CASE path = <<>> /\ method = "GET"
  <2>1. r.after = stored
    BY <1>5 DEF Serve, handleList, Response
  <2> QED BY <1>1, <1>2, <2>1
<1>6. CASE path # <<>> /\ path[Len(path)] # "heartbeat" /\ method = "DELETE" /\ path \in DOMAIN stored
  <2>1. r.after = [i \in DOMAIN stored \ {path} |-> stored[i]]
    BY <1>6 DEF Serve, handleDeregister, Unknown, Response
  <2> QED BY <1>1, <1>6, <2>1, RemovalUsable
<1>7. CASE path # <<>> /\ ~(path[Len(path)] # "heartbeat" /\ method = "DELETE" /\ path \in DOMAIN stored)
  <2>1. \A i : handleGet(i).after = stored /\ handleHeartbeat(i).after = stored
    BY <1>3 DEF handleGet, handleHeartbeat, Response
  <2>2. path \notin DOMAIN stored => handleDeregister(path).after = stored
    BY <1>3 DEF handleDeregister, Unknown
  <2>3. \/ r = handleHeartbeat(HeartbeatID(path)) \/ r = handleGet(path) \/ r = Refused(405)
        \/ r = handleDeregister(path) /\ path \notin DOMAIN stored
    BY <1>7 DEF Serve
  <2> QED BY <1>1, <1>2, <1>3, <2>1, <2>2, <2>3
<1>8. CASE path = <<>> /\ method \notin {"POST", "GET"}
  <2>1. r = Refused(405)
    BY <1>8 DEF Serve
  <2> QED BY <1>1, <1>2, <1>3, <2>1
<1> QED BY <1>4, <1>5, <1>6, <1>7, <1>8

\* Whatever is posted, only usable services within the limit are registered, and
\* each is shown, renewed and removed at its own URL.
THEOREM EndpointsAreTrue == APISpec => []EndpointsTrue
<1>1. APIInit => Registered
  <2> SUFFICES ASSUME APIInit PROVE Registered
    OBVIOUS
  <2>1. DOMAIN stored = {}
    BY DEF APIInit
  <2> QED BY <2>1, FS_EmptySet, APIAssumption DEF Registered, StoredIsUsable
<1>2. Registered /\ [APINext]_apiVars => Registered'
  <2> SUFFICES ASSUME Registered, [APINext]_apiVars PROVE Registered'
    OBVIOUS
  <2>1. CASE \E body \in Bodies, generated \in Fresh :
               ServeHTTP("POST", <<>>, body, generated, "")
    BY <2>1, RequestUsable
  <2>2. CASE \E method \in Method, path \in Paths, name \in {"", "n1"} :
               <<method, path>> # <<"POST", <<>>>> /\ ServeHTTP(method, path, NoBody, <<>>, name)
    BY <2>2, RequestUsable
  <2>3. CASE \E id \in DOMAIN stored : Expire(id)
    BY <2>3, RemovalUsable DEF Expire
  <2>4. CASE UNCHANGED apiVars
    BY <2>4 DEF apiVars, Registered, StoredIsUsable
  <2> QED BY <2>1, <2>2, <2>3, <2>4 DEF APINext
<1>3. Registered => EndpointsTrue
  BY URLsAddress DEF Registered, EndpointsTrue
<1> QED BY <1>1, <1>2, <1>3, PTL DEF APISpec
-----------------------------------------------------------------------------
(* The load balancers                                                      *)

\* The modulus of the round.
LEMMA RoundCovers ==
  ASSUME NEW L \in Nat \ {0}, NEW a \in 0..(L - 1), NEW p \in 0..(L - 1)
  PROVE  \E j \in 0..(L - 1) : (a + j) % L = p
<1>1. CASE p >= a
  <2>1. p - a \in 0..(L - 1) /\ (a + (p - a)) % L = p
    BY <1>1
  <2> QED BY <2>1
<1>2. CASE p < a
  <2>1. p - a + L \in 0..(L - 1) /\ a + (p - a + L) = p + L
    BY <1>2
  <2>2. (a + (p - a + L)) % L = p
    BY <2>1
  <2> QED BY <2>1, <2>2
<1> QED BY <1>1, <1>2

\* A call of Next, and the backend it reads j-th.
Call == [at : Place, i : Nat, best : Backend \cup {None}, acc : Int,
         alive : SUBSET Backend, calm : BOOLEAN]

ReadAt(s, kind, l, j) ==
  IF kind = "round-robin" THEN l[((s.acc + j) % Len(l)) + 1] ELSE l[j + 1]

\* A scan that has found nothing has passed none of the backends that were healthy
\* all along.
ScanSound(s, kind, l, h) ==
  s.at = "scan" =>
    /\ l # <<>>
    /\ s.alive \subseteq Range(l) \cap h
    /\ kind = "round-robin" => s.acc \in 0..(Len(l) - 1)
    /\ kind = "least-conn" /\ s.best = None => s.acc = MaxInt
    /\ s.best = None => \A j \in 0..(s.i - 1) : ReadAt(s, kind, l, j) \notin s.alive

\* A scan stays sound while backends lose their health.
LEMMA SoundAfterChange ==
  ASSUME NEW s, NEW t, NEW kind, NEW l, NEW h, NEW g, ScanSound(s, kind, l, h),
         t.at = s.at, t.i = s.i, t.best = s.best, t.acc = s.acc, t.alive \subseteq s.alive \cap g
  PROVE  ScanSound(t, kind, l, g)
  BY DEF ScanSound, ReadAt

\* A scan that goes on to the next backend stays sound, if it takes a backend
\* that was healthy all along.
LEMMA SoundAfterRead ==
  ASSUME NEW s, NEW t, NEW kind, NEW l, NEW h, ScanSound(s, kind, l, h), s.at = "scan", s.i \in Nat,
         t.at = s.at, t.i = s.i + 1, t.alive = s.alive, t.best = None => s.best = None /\ t.acc = s.acc,
         kind = "round-robin" => t.acc = s.acc,
         ReadAt(s, kind, l, s.i) \in h => t.best # None
  PROVE  ScanSound(t, kind, l, h)
<1>1. CASE t.best # None
  BY <1>1 DEF ScanSound
<1>2. CASE t.best = None
  <2>1. \A j \in 0..(t.i - 1) : j = s.i \/ j \in 0..(s.i - 1)
    OBVIOUS
  <2>2. ReadAt(s, kind, l, s.i) \notin s.alive
    BY <1>2 DEF ScanSound
  <2>3. \A j : ReadAt(t, kind, l, j) = ReadAt(s, kind, l, j)
    BY <1>2 DEF ReadAt
  <2>4. \A j \in 0..(t.i - 1) : ReadAt(t, kind, l, j) \notin t.alive
    BY <1>2, <2>1, <2>2, <2>3 DEF ScanSound
  <2> QED BY <1>2, <2>4 DEF ScanSound
<1> QED BY <1>1, <1>2

\* A scan that found nothing in the whole list proves that none was healthy all along.
LEMMA NothingMissed ==
  ASSUME NEW s, NEW kind, NEW l \in Seq(Backend), NEW h, ScanSound(s, kind, l, h), s.at = "scan",
         s.best = None, s.i \in Nat, s.i >= Len(l)
  PROVE  s.alive = {}
<1>1. Len(l) \in Nat /\ DOMAIN l = 1..Len(l)
  BY LenProperties
<1> SUFFICES ASSUME NEW b \in s.alive PROVE FALSE
  OBVIOUS
<1>2. PICK p \in 1..Len(l) : l[p] = b
  BY <1>1 DEF ScanSound, Range
<1>3. \E j \in 0..(s.i - 1) : ReadAt(s, kind, l, j) = b
  <2>1. CASE kind = "round-robin"
    <3>1. Len(l) \in Nat \ {0} /\ s.acc \in 0..(Len(l) - 1) /\ p - 1 \in 0..(Len(l) - 1)
      BY <1>1, <1>2, <2>1 DEF ScanSound
    <3>2. PICK j \in 0..(Len(l) - 1) : (s.acc + j) % Len(l) = p - 1
      BY <3>1, RoundCovers
    <3>3. j \in 0..(s.i - 1) /\ ReadAt(s, kind, l, j) = l[(p - 1) + 1]
      BY <1>1, <2>1, <3>2 DEF ReadAt
    <3> QED BY <1>1, <1>2, <3>3
  <2>2. CASE kind # "round-robin"
    <3>1. p - 1 \in 0..(s.i - 1) /\ ReadAt(s, kind, l, p - 1) = l[(p - 1) + 1] /\ (p - 1) + 1 = p
      BY <1>1, <1>2, <2>2 DEF ReadAt
    <3> QED BY <1>2, <3>1
  <2> QED BY <2>1, <2>2
<1> QED BY <1>3 DEF ScanSound

CallOK(s, kind, l, h) ==
  s \in Call /\ ScanSound(s, kind, l, h) /\ (s.at = "error" => s.alive = {})

\* The balancer's state, with every call of Next sound.
CallsSound ==
  /\ lbKind \in {"round-robin", "least-conn", "weighted"}
  /\ list \in Seq(Backend) /\ counter \in Nat /\ healthy \subseteq Backend
  /\ scan \in [Caller -> Call]
  /\ \A c \in Caller : CallOK(scan[c], lbKind, list, healthy)

\* Callers that are not scanning are sound whatever the list.
LEMMA IdleOK == 
  ASSUME NEW s \in Call, s.at # "scan", s.at = "error" => s.alive = {}, NEW kind, NEW l, NEW h
  PROVE  CallOK(s, kind, l, h)
  BY DEF CallOK, ScanSound

\* Updates of one field.
LEMMA UpdatedCall ==
  ASSUME NEW s \in Call
  PROVE  /\ \A n \in Nat : [s EXCEPT !.i = n] \in Call
         /\ \A b \in Backend \cup {None} : [s EXCEPT !.best = b] \in Call
         /\ \A n \in Int : [s EXCEPT !.acc = n] \in Call
         /\ \A p \in Place : [s EXCEPT !.at = p] \in Call
  BY DEF Call

\* What Begin, and the ends of a call, put in the place of a call.
LEMMA CalledOK ==
  ASSUME NEW at \in Place \ {"scan"}, NEW b \in Backend \cup {None}, NEW kind, NEW l, NEW h
  PROVE  CallOK(Called(at, b, 0, {}), kind, l, h)
<1> DEFINE s == Called(at, b, 0, {})
<1>1. 0 \in Int /\ {} \in SUBSET Backend
  OBVIOUS
<1>2. s \in Call /\ s.at = at /\ s.alive = {}
  BY <1>1 DEF Called, Call
<1> HIDE DEF s
<1>3. CallOK(s, kind, l, h)
  BY <1>2, IdleOK
<1> QED BY <1>3 DEF s

\* A change seen by the scans in progress takes backends out of their view.
LEMMA DisturbedOK ==
  ASSUME CallsSound, NEW dead
  PROVE  /\ Disturbed(dead) \in [Caller -> Call]
         /\ \A d \in Caller :
              /\ CallOK(Disturbed(dead)[d], lbKind, list, healthy \ dead)
              /\ Disturbed(dead)[d].at = scan[d].at
              /\ Disturbed(dead)[d].best = scan[d].best
              /\ scan[d].at = "scan" => Disturbed(dead)[d].calm = FALSE
<1> DEFINE D == Disturbed(dead)
<1>1. ASSUME NEW d \in Caller
      PROVE  /\ CallOK(D[d], lbKind, list, healthy \ dead)
             /\ D[d].at = scan[d].at /\ D[d].best = scan[d].best
             /\ scan[d].at = "scan" => D[d].calm = FALSE
  <2>1. scan[d] \in Call /\ CallOK(scan[d], lbKind, list, healthy)
    BY DEF CallsSound
  <2>2. CASE scan[d].at # "scan"
    BY <2>1, <2>2 DEF Disturbed, CallOK, ScanSound
  <2>3. CASE scan[d].at = "scan"
    <3> DEFINE s == scan[d]
               t == [s EXCEPT !.alive = @ \ dead, !.calm = FALSE]
    <3>1. D[d] = t
      BY <2>3 DEF Disturbed
    <3>2. s \in Call
      BY <2>1
    <3> HIDE DEF s
    <3>3. /\ t \in Call /\ t.at = s.at /\ t.i = s.i /\ t.best = s.best /\ t.acc = s.acc
          /\ t.alive = s.alive \ dead /\ t.calm = FALSE
      BY <3>2 DEF Call
    <3> HIDE DEF t
    <3>4. ScanSound(s, lbKind, list, healthy) /\ s.at = "scan"
      BY <2>1, <2>3 DEF CallOK, s
    <3>5. t.alive \subseteq s.alive \cap (healthy \ dead)
      BY <3>3, <3>4 DEF ScanSound
    <3>6. ScanSound(t, lbKind, list, healthy \ dead)
      BY <3>3, <3>4, <3>5, SoundAfterChange
    <3>7. CallOK(t, lbKind, list, healthy \ dead)
      BY <3>3, <3>4, <3>6 DEF CallOK
    <3> QED BY <3>1, <3>3, <3>7 DEF s
  <2> QED BY <2>2, <2>3
<1>2. D \in [Caller -> Call]
  BY <1>1 DEF Disturbed, CallOK
<1> QED BY <1>1, <1>2

\* One call moves on, the others stay.
LEMMA OneCall ==
  ASSUME CallsSound, NEW f \in [Caller -> Call], NEW c \in Caller, NEW r,
         \A d \in Caller : CallOK(f[d], lbKind, list, healthy),
         CallOK(r, lbKind, list, healthy), scan' = [f EXCEPT ![c] = r],
         UNCHANGED <<lbKind, list, healthy>>, counter' \in Nat
  PROVE  CallsSound'
<1>1. r \in Call
  BY DEF CallOK
<1>2. scan' \in [Caller -> Call]
  BY <1>1
<1>3. \A d \in Caller : CallOK(scan'[d], lbKind, list, healthy)
  OBVIOUS
<1> QED BY <1>2, <1>3 DEF CallsSound

\* The lock, the empty list and the start of the loop.
LEMMA BeginSound ==
  ASSUME CallsSound, NEW c \in Caller, Begin(c)
  PROVE  CallsSound'
<1>0. /\ lbKind \in {"round-robin", "least-conn", "weighted"} /\ list \in Seq(Backend)
      /\ counter \in Nat /\ healthy \subseteq Backend /\ scan \in [Caller -> Call]
      /\ \A d \in Caller : CallOK(scan[d], lbKind, list, healthy)
  BY DEF CallsSound
<1>1. UNCHANGED <<lbKind, list, healthy>>
  BY DEF Begin
<1>2. CASE list = <<>>
  <2>1. scan' = [scan EXCEPT ![c] = Called("error", None, 0, {})] /\ counter' = counter
    BY <1>2 DEF Begin, Step
  <2>2. CallOK(Called("error", None, 0, {}), lbKind, list, healthy)
    BY CalledOK DEF Place
  <2> QED BY <1>0, <1>1, <2>1, <2>2, OneCall
<1>3. CASE list # <<>>
  <2> DEFINE acc == CASE lbKind = "round-robin" -> Start(counter')
                      [] lbKind = "least-conn"  -> MaxInt
                      [] lbKind = "weighted"    -> 0
             v == Listed \cap healthy
             r == Called("scan", None, acc, v)
             f == IF counter' < counter THEN Disturbed({}) ELSE scan
  <2>1. scan' = [f EXCEPT ![c] = r]
    BY <1>3 DEF Begin
  <2>2. counter' = IF lbKind = "round-robin" THEN (counter + 1) % CounterMod ELSE 0
    BY <1>3 DEF Begin
  <2>3. counter' \in Nat
    BY <1>0, <2>2, LBAssumption
  <2>4. Len(list) \in Nat \ {0}
    BY <1>0, <1>3, EmptySeq, LenProperties
  <2>5. /\ acc \in Int
        /\ lbKind = "round-robin" => acc \in 0..(Len(list) - 1)
        /\ lbKind = "least-conn" => acc = MaxInt
    <3>1. CASE lbKind = "round-robin"
      BY <2>3, <2>4, <3>1 DEF Start
    <3>2. CASE lbKind = "least-conn"
      BY <3>2, LBAssumption, FS_CardinalityType DEF MaxInt
    <3>3. CASE lbKind = "weighted"
      BY <3>3
    <3> QED BY <1>0, <3>1, <3>2, <3>3
  <2>6. f \in [Caller -> Call] /\ \A d \in Caller : CallOK(f[d], lbKind, list, healthy)
    <3>1. healthy \ {} = healthy
      OBVIOUS
    <3> QED BY <1>0, <3>1, DisturbedOK
  <2> HIDE DEF acc, f
  <2>7. v \in SUBSET Backend
    BY <1>0
  <2>8. /\ r \in Call /\ r.at = "scan" /\ r.i = 0 /\ r.best = None /\ r.acc = acc /\ r.alive = v
    BY <2>5, <2>7 DEF Called, Call, Place
  <2> HIDE DEF r
  <2>9. CallOK(r, lbKind, list, healthy)
    BY <1>3, <2>5, <2>8 DEF CallOK, ScanSound, Listed
  <2> QED BY <1>1, <2>1, <2>3, <2>6, <2>9, OneCall
<1> QED BY <1>2, <1>3

\* No backend has as many connections as math.MaxInt64.
LEMMA ConnsBelowMax ==
  ASSUME NEW b
  PROVE  Conns(b) \in Nat /\ Conns(b) < MaxInt
<1> DEFINE U == {c \in Caller : scan[c].at = "using" /\ scan[c].best = b}
<1>1. U \subseteq Caller
  OBVIOUS
<1>2. Cardinality(U) \in Nat /\ Cardinality(Caller) \in Nat /\ Cardinality(U) <= Cardinality(Caller)
  <2> HIDE DEF U
  <2> QED BY <1>1, LBAssumption, FS_Subset, FS_CardinalityType
<1> QED BY <1>2 DEF Conns, MaxInt

\* Each of the three loops takes a backend that it finds healthy, at the latest then.
LEMMA ReadSound ==
  ASSUME CallsSound, NEW c \in Caller, Read(c)
  PROVE  CallsSound'
<1> DEFINE s == scan[c]
<1>0. /\ lbKind \in {"round-robin", "least-conn", "weighted"} /\ list \in Seq(Backend)
      /\ counter \in Nat /\ healthy \subseteq Backend /\ scan \in [Caller -> Call]
      /\ \A d \in Caller : CallOK(scan[d], lbKind, list, healthy)
  BY DEF CallsSound
<1>1. /\ UNCHANGED <<lbKind, list, healthy, counter>> /\ s.at = "scan" /\ s.i < Len(list)
      /\ s \in Call /\ ScanSound(s, lbKind, list, healthy) /\ s.i \in Nat /\ Len(list) \in Nat
  BY <1>0, LenProperties DEF Read, LoopEnd, CallOK, Call
<1>2. ASSUME NEW r, scan' = [scan EXCEPT ![c] = r], r \in Call,
             r.at = s.at, r.i = s.i + 1, r.alive = s.alive,
             r.best = None => s.best = None /\ r.acc = s.acc,
             lbKind = "round-robin" => r.acc = s.acc,
             ReadAt(s, lbKind, list, s.i) \in healthy => r.best # None
      PROVE  CallsSound'
  <2> HIDE DEF s
  <2>1. ScanSound(r, lbKind, list, healthy)
    BY <1>1, <1>2, SoundAfterRead
  <2>2. CallOK(r, lbKind, list, healthy)
    BY <1>1, <1>2, <2>1 DEF CallOK
  <2> QED BY <1>0, <1>1, <1>2, <2>2, OneCall
<1>3. CASE ReadRoundRobin(c)
  <2> DEFINE b == list[((s.acc + s.i) % Len(list)) + 1]
             r == [s EXCEPT !.i = @ + 1, !.best = IF b \in healthy THEN b ELSE None]
  <2>1. scan' = [scan EXCEPT ![c] = r] /\ lbKind = "round-robin" /\ s.best = None
    BY <1>3 DEF ReadRoundRobin, Step
  <2>2. b = ReadAt(s, lbKind, list, s.i)
    BY <2>1 DEF ReadAt
  <2> DEFINE nb == IF b \in healthy THEN b ELSE None
  <2>a. nb \in Backend \cup {None}
    BY <1>0
  <2> HIDE DEF s, b, nb
  <2>b. r \in Call
    <3>1. r = [[s EXCEPT !.i = s.i + 1] EXCEPT !.best = nb]
      BY DEF nb
    <3>2. [s EXCEPT !.i = s.i + 1] \in Call
      BY <1>1, UpdatedCall
    <3> QED BY <2>a, <3>1, <3>2, UpdatedCall
  <2>3. /\ r \in Call /\ r.at = s.at /\ r.i = s.i + 1 /\ r.alive = s.alive /\ r.acc = s.acc
        /\ r.best = IF b \in healthy THEN b ELSE None
    BY <1>1, <2>b DEF Call
  <2> HIDE DEF r
  <2>4. b \in healthy => r.best # None
    BY <1>0, <2>3, LBAssumption
  <2> QED BY <1>2, <2>1, <2>2, <2>3, <2>4
<1>4. CASE ReadLeastConn(c)
  <2> DEFINE b == list[s.i + 1]
             take == b \in healthy /\ Fewer(Conns(b), s.acc)
             r == IF take THEN [s EXCEPT !.i = @ + 1, !.best = b, !.acc = Conns(b)]
                          ELSE [s EXCEPT !.i = @ + 1]
  <2>1. scan' = [scan EXCEPT ![c] = r] /\ lbKind = "least-conn"
    BY <1>4 DEF ReadLeastConn, Step
  <2>2. b = ReadAt(s, lbKind, list, s.i) /\ b # None
    BY <1>0, <1>1, <2>1, LBAssumption DEF ReadAt
  <2>3. s.best = None => s.acc = MaxInt
    BY <1>1, <2>1 DEF ScanSound
  <2>4. b \in healthy /\ s.best = None => take
    BY <2>3, ConnsBelowMax DEF Fewer
  <2>5. Conns(b) \in Int
    BY ConnsBelowMax
  <2> HIDE DEF s, b
  <2>6. CASE take
    <3>1. /\ r.at = s.at /\ r.i = s.i + 1 /\ r.alive = s.alive /\ r.acc = Conns(b) /\ r.best = b
      BY <1>1, <2>6 DEF Call
    <3>2. r \in Call
      <4>1. [s EXCEPT !.i = s.i + 1] \in Call
        BY <1>1, UpdatedCall
      <4>2. [[s EXCEPT !.i = s.i + 1] EXCEPT !.best = b] \in Call
        BY <1>0, <2>6, <4>1, UpdatedCall
      <4>3. r = [[[s EXCEPT !.i = s.i + 1] EXCEPT !.best = b] EXCEPT !.acc = Conns(b)]
        BY <2>6
      <4> QED BY <2>5, <4>2, <4>3, UpdatedCall
    <3> QED BY <1>2, <2>1, <2>2, <3>1, <3>2
  <2>7. CASE ~take
    <3>1. /\ r \in Call /\ r.at = s.at /\ r.i = s.i + 1 /\ r.alive = s.alive /\ r.acc = s.acc
          /\ r.best = s.best
      BY <1>1, <2>7 DEF Call
    <3> HIDE DEF r
    <3> QED BY <1>2, <2>1, <2>2, <2>4, <2>7, <3>1
  <2> QED BY <2>6, <2>7
<1>5. CASE ReadWeighted(c)
  <2> DEFINE b == list[s.i + 1]
             nb == IF s.best = None \/ current'[b] > current[s.best] THEN b ELSE s.best
             r == IF b \in healthy
                  THEN [s EXCEPT !.i = @ + 1, !.acc = @ + Weight[b], !.best = nb]
                  ELSE [s EXCEPT !.i = @ + 1]
  <2>1. scan' = [scan EXCEPT ![c] = r] /\ lbKind = "weighted"
    BY <1>1, <1>5 DEF ReadWeighted, Step, Call
  <2>2. b = ReadAt(s, lbKind, list, s.i) /\ b \in Backend
    BY <1>0, <1>1, <2>1 DEF ReadAt
  <2>3. nb \in Backend /\ nb # None /\ s.acc + Weight[b] \in Int
    BY <1>1, <2>2, LBAssumption DEF Call
  <2> HIDE DEF s, b, nb
  <2>4. CASE b \in healthy
    <3>1. r = [[[s EXCEPT !.i = s.i + 1] EXCEPT !.acc = s.acc + Weight[b]] EXCEPT !.best = nb]
      BY <2>4
    <3>2. [s EXCEPT !.i = s.i + 1] \in Call
      BY <1>1, UpdatedCall
    <3>3. [[s EXCEPT !.i = s.i + 1] EXCEPT !.acc = s.acc + Weight[b]] \in Call
      BY <2>3, <3>2, UpdatedCall
    <3>4. r \in Call
      BY <2>3, <3>1, <3>3, UpdatedCall
    <3>5. r.at = s.at /\ r.i = s.i + 1 /\ r.alive = s.alive /\ r.best = nb
      BY <1>1, <3>1 DEF Call
    <3> HIDE DEF r
    <3> QED BY <1>2, <2>1, <2>2, <2>3, <3>4, <3>5
  <2>5. CASE b \notin healthy
    <3>1. /\ r \in Call /\ r.at = s.at /\ r.i = s.i + 1 /\ r.alive = s.alive /\ r.acc = s.acc
          /\ r.best = s.best
      BY <1>1, <2>5 DEF Call
    <3> HIDE DEF r
    <3> QED BY <1>2, <2>1, <2>2, <2>5, <3>1
  <2> QED BY <2>4, <2>5
<1> QED BY <1>3, <1>4, <1>5 DEF Read

\* Next fails only after it has read the whole list in vain.
LEMMA ReturnSound ==
  ASSUME CallsSound, NEW c \in Caller, Return(c)
  PROVE  CallsSound'
<1> DEFINE s == scan[c]
<1>0. /\ list \in Seq(Backend) /\ counter \in Nat /\ scan \in [Caller -> Call]
      /\ \A d \in Caller : CallOK(scan[d], lbKind, list, healthy)
  BY DEF CallsSound
<1>1. /\ UNCHANGED <<lbKind, list, healthy, counter>> /\ s.at = "scan"
      /\ s.i >= Len(list) \/ s.best # None
      /\ s \in Call /\ ScanSound(s, lbKind, list, healthy)
      /\ s.i \in Nat /\ s.best \in Backend \cup {None}
  BY <1>0 DEF Return, LoopEnd, CallOK, Call
<1>2. CASE s.best = None
  <2> DEFINE r == [s EXCEPT !.at = "error", !.i = 0, !.acc = 0]
  <2>1. scan' = [scan EXCEPT ![c] = r]
    BY <1>2 DEF Return, Step
  <2> HIDE DEF s
  <2> DEFINE p == [s EXCEPT !.at = "error"]
             q == [p EXCEPT !.i = 0]
  <2>2. p \in Call
    BY <1>1, UpdatedCall DEF Place
  <2>3. r = [q EXCEPT !.acc = 0]
    OBVIOUS
  <2>4. r.at = "error" /\ r.alive = s.alive
    BY <1>1 DEF Call
  <2> HIDE DEF p, r
  <2>5. q \in Call
    BY <2>2, UpdatedCall
  <2> HIDE DEF q
  <2>6. r \in Call
    BY <2>3, <2>5, UpdatedCall
  <2>7. s.alive = {}
    BY <1>0, <1>1, <1>2, NothingMissed
  <2>8. CallOK(r, lbKind, list, healthy)
    BY <2>4, <2>6, <2>7, IdleOK
  <2> QED BY <1>0, <1>1, <2>1, <2>8, OneCall
<1>3. CASE s.best # None
  <2>1. scan' = [scan EXCEPT ![c] = Called("picked", s.best, 0, {})]
    BY <1>3 DEF Return, Step
  <2>2. CallOK(Called("picked", s.best, 0, {}), lbKind, list, healthy)
    BY <1>1, CalledOK DEF Place
  <2> HIDE DEF s
  <2> QED BY <1>0, <1>1, <2>1, <2>2, OneCall
<1> QED BY <1>2, <1>3

\* What a caller does with its backend concerns the scans of the others not at all.
LEMMA UseSound ==
  ASSUME CallsSound, NEW c \in Caller, Dial(c) \/ Hangup(c)
  PROVE  CallsSound'
<1>0. /\ counter \in Nat /\ scan \in [Caller -> Call]
      /\ \A d \in Caller : CallOK(scan[d], lbKind, list, healthy)
  BY DEF CallsSound
<1>1. UNCHANGED <<lbKind, list, healthy, counter>>
  BY DEF Dial, Hangup
<1>2. CallOK(Idle, lbKind, list, healthy)
  BY CalledOK DEF Idle, Place
<1>3. /\ Disturbed({}) \in [Caller -> Call]
      /\ \A d \in Caller : CallOK(Disturbed({})[d], lbKind, list, healthy)
  <2>1. healthy \ {} = healthy
    OBVIOUS
  <2> QED BY <2>1, DisturbedOK
<1>4. CASE scan' = [scan EXCEPT ![c] = Idle]
  BY <1>0, <1>1, <1>2, <1>4, OneCall
<1>5. CASE scan' = [Disturbed({}) EXCEPT ![c] = Idle]
  BY <1>0, <1>1, <1>2, <1>3, <1>5, OneCall
<1>6. CASE scan[c].at = "picked" /\ scan' = [Disturbed({}) EXCEPT ![c].at = "using"]
  <2> DEFINE t == Disturbed({})[c]
             r == [t EXCEPT !.at = "using"]
  <2>1. scan' = [Disturbed({}) EXCEPT ![c] = r]
    BY <1>6
  <2>2. t \in Call
    BY <1>3
  <2> HIDE DEF t
  <2>3. r \in Call /\ r.at = "using"
    BY <2>2, UpdatedCall DEF Place, Call
  <2> HIDE DEF r
  <2>4. CallOK(r, lbKind, list, healthy)
    BY <2>3, IdleOK
  <2> QED BY <1>0, <1>1, <1>3, <2>1, <2>4, OneCall
<1> QED BY <1>4, <1>5, <1>6 DEF Dial, Hangup

\* The list changes only when nobody scans it; a health flag may change at any time.
LEMMA ChangeSound ==
  ASSUME CallsSound
  PROVE  /\ \A b \in Backend : AddBackend(b) \/ RemoveBackend(b) => CallsSound'
         /\ \A l \in Lists : UpdateBackends(l) => CallsSound'
         /\ \A b \in Backend, up \in BOOLEAN : SetHealthy(b, up) => CallsSound'
<1>0. /\ lbKind \in {"round-robin", "least-conn", "weighted"} /\ list \in Seq(Backend)
      /\ counter \in Nat /\ healthy \subseteq Backend /\ scan \in [Caller -> Call]
      /\ \A d \in Caller : CallOK(scan[d], lbKind, list, healthy)
  BY DEF CallsSound
<1>1. ASSUME Scanning = {}, UNCHANGED <<lbKind, counter, healthy, scan>>, list' \in Seq(Backend)
      PROVE  CallsSound'
  <2>1. \A d \in Caller : CallOK(scan[d], lbKind, list', healthy)
    <3> SUFFICES ASSUME NEW d \in Caller PROVE CallOK(scan[d], lbKind, list', healthy)
      OBVIOUS
    <3>1. scan[d] \in Call /\ scan[d].at # "scan" /\ (scan[d].at = "error" => scan[d].alive = {})
      BY <1>0, <1>1 DEF Scanning, CallOK
    <3> QED BY <3>1, IdleOK
  <2> QED BY <1>0, <1>1, <2>1 DEF CallsSound
<1>2. ASSUME NEW b \in Backend, AddBackend(b) PROVE CallsSound'
  <2>1. list' \in Seq(Backend)
    BY <1>0, <1>2 DEF AddBackend
  <2> QED BY <1>1, <1>2, <2>1 DEF AddBackend
<1>3. ASSUME NEW b \in Backend, RemoveBackend(b) PROVE CallsSound'
  <2>1. PICK i \in DOMAIN list :
          list' = SubSeq([list EXCEPT ![i] = list[Len(list)]], 1, Len(list) - 1)
    BY <1>3 DEF RemoveBackend
  <2> DEFINE q == [list EXCEPT ![i] = list[Len(list)]]
  <2>2. q \in Seq(Backend) /\ Len(q) = Len(list)
    BY <1>0
  <2> HIDE DEF q
  <2>3. SubSeq(q, 1, Len(q) - 1) \in Seq(Backend)
    BY <2>2
  <2>4. list' \in Seq(Backend)
    BY <2>1, <2>2, <2>3 DEF q
  <2> QED BY <1>1, <1>3, <2>4 DEF RemoveBackend
<1>4. ASSUME NEW l \in Lists, UpdateBackends(l) PROVE CallsSound'
  BY <1>1, <1>4, LBAssumption DEF UpdateBackends
<1>5. ASSUME NEW b \in Backend, NEW up \in BOOLEAN, SetHealthy(b, up) PROVE CallsSound'
  <2> DEFINE dead == IF up THEN {} ELSE {b}
  <2>1. /\ scan' = Disturbed(dead) /\ UNCHANGED <<lbKind, list, counter>>
        /\ healthy' = IF up THEN healthy \cup {b} ELSE healthy \ {b}
    BY <1>5 DEF SetHealthy
  <2>2. healthy' \subseteq Backend /\ healthy \ dead \subseteq healthy'
    BY <1>0, <2>1
  <2> HIDE DEF dead
  <2>3. /\ Disturbed(dead) \in [Caller -> Call]
        /\ \A d \in Caller : CallOK(Disturbed(dead)[d], lbKind, list, healthy \ dead)
    BY DisturbedOK
  <2>4. ASSUME NEW s, NEW h, NEW g, CallOK(s, lbKind, list, h), h \subseteq g
        PROVE  CallOK(s, lbKind, list, g)
    BY <2>4 DEF CallOK, ScanSound
  <2> QED BY <1>0, <2>1, <2>2, <2>3, <2>4 DEF CallsSound
<1> QED BY <1>2, <1>3, <1>4, <1>5

\* All calls stay sound, through any changes.
LEMMA CallsSoundInv == LBSpec => []CallsSound
<1>1. LBInit => CallsSound
  <2> SUFFICES ASSUME LBInit PROVE CallsSound
    OBVIOUS
  <2>1. CallOK(Idle, lbKind, list, healthy)
    BY CalledOK DEF Idle, Place
  <2>2. Idle \in Call
    BY <2>1 DEF CallOK
  <2> QED BY <2>1, <2>2, LBAssumption DEF LBInit, CallsSound
<1>2. CallsSound /\ [LBNext]_lbVars => CallsSound'
  <2> SUFFICES ASSUME CallsSound, [LBNext]_lbVars PROVE CallsSound'
    OBVIOUS
  <2>1. CASE UNCHANGED lbVars
    BY <2>1 DEF lbVars, CallsSound
  <2> QED BY <2>1, BeginSound, ReadSound, ReturnSound, UseSound, ChangeSound DEF LBNext
<1> QED BY <1>1, <1>2, PTL DEF LBSpec

\* Next (all three balancers) returns ErrNoHealthyBackends only if no listed backend
\* was healthy for the whole of the call.
THEOREM NoAlarmIsFalse == LBSpec => []NoFalseAlarm
<1>1. CallsSound => NoFalseAlarm
  BY DEF CallsSound, CallOK, NoFalseAlarm
<1> QED BY <1>1, CallsSoundInv, PTL

\* A calm scan of LeastConnections has the least loaded of the healthy backends
\* that it has read; k counts connections.
Leading(s, l, h, k) ==
  s.at = "scan" /\ s.calm =>
    /\ s.best # None => s.best \in Backend \cap h /\ s.acc = k[s.best]
    /\ \A j \in 1..s.i : l[j] \in h => s.best # None /\ k[s.best] <= k[l[j]]

Counts == [b \in Backend |-> Conns(b)]

LeastSoFar ==
  lbKind = "least-conn" => \A c \in Caller : Leading(scan[c], list, healthy, Counts)

\* Counts change only with the callers that use a backend.
LEMMA CountsSame ==
  ASSUME \A d \in Caller : \/ scan'[d].at = scan[d].at /\ scan'[d].best = scan[d].best
                           \/ scan'[d].at # "using" /\ scan[d].at # "using"
  PROVE  Counts' = Counts
<1>1. ASSUME NEW b PROVE Conns(b)' = Conns(b)
  <2>1. {d \in Caller : scan'[d].at = "using" /\ scan'[d].best = b} =
        {d \in Caller : scan[d].at = "using" /\ scan[d].best = b}
    OBVIOUS
  <2> QED BY <2>1 DEF Conns
<1> QED BY <1>1 DEF Counts

\* One more backend is compared with the best so far.
LEMMA LeadingAfterRead ==
  ASSUME NEW s \in Call, NEW l, NEW h, NEW k \in [Backend -> Nat], Leading(s, l, h, k), s.at = "scan",
         \A j \in 1..(s.i + 1) : l[j] \in Backend, NEW t, t.calm = s.calm, t.i = s.i + 1,
         s.best = None => s.acc > k[l[s.i + 1]],
         IF l[s.i + 1] \in h /\ k[l[s.i + 1]] < s.acc
         THEN t.best = l[s.i + 1] /\ t.acc = k[l[s.i + 1]]
         ELSE t.best = s.best /\ t.acc = s.acc
  PROVE  Leading(t, l, h, k)
<1> SUFFICES ASSUME t.at = "scan", t.calm PROVE Leading(t, l, h, k)
  BY DEF Leading
<1> DEFINE b == l[s.i + 1]
<1>0. s.i \in Nat /\ \A j \in 1..s.i : k[l[j]] \in Nat
  BY DEF Call
<1>1. /\ s.i \in Nat /\ s.acc \in Int /\ k[b] \in Nat /\ b \in Backend
      /\ s.best # None => s.best \in Backend \cap h /\ s.acc = k[s.best] /\ k[s.best] \in Nat
      /\ \A j \in 1..s.i : l[j] \in h => s.best # None /\ k[s.best] <= k[l[j]]
  BY <1>0 DEF Leading, Call
<1>2. \A j \in 1..t.i : j \in 1..s.i \/ j = s.i + 1
  BY <1>1
<1>3. CASE b \in h /\ k[b] < s.acc
  <2>1. t.best = b /\ t.acc = k[b] /\ b # None
    BY <1>1, <1>3, LBAssumption
  <2>2. ASSUME NEW j \in 1..s.i, l[j] \in h PROVE k[b] <= k[l[j]]
    <3>1. s.best # None /\ k[s.best] <= k[l[j]] /\ k[b] < k[s.best]
      BY <1>1, <1>3, <2>2
    <3> QED BY <1>0, <1>1, <3>1
  <2>3. k[b] <= k[l[s.i + 1]]
    BY <1>1
  <2>4. \A j \in 1..t.i : l[j] \in h => k[b] <= k[l[j]]
    BY <1>2, <2>2, <2>3
  <2> QED BY <1>1, <1>3, <2>1, <2>4 DEF Leading
<1>4. CASE ~(b \in h /\ k[b] < s.acc)
  <2>1. t.best = s.best /\ t.acc = s.acc
    BY <1>4
  <2>2. b \in h => s.best # None /\ k[s.best] <= k[b]
    BY <1>1, <1>4
  <2>3. \A j \in 1..t.i : l[j] \in h => s.best # None /\ k[s.best] <= k[l[j]]
    BY <1>1, <1>2, <2>2
  <2> QED BY <1>1, <2>1, <2>3 DEF Leading
<1> QED BY <1>3, <1>4

\* A scan that is disturbed, over or not begun leads trivially.
LEMMA LeadingTrivial ==
  ASSUME NEW s, NEW l, NEW h, NEW k,
         s.at # "scan" \/ s.calm = FALSE \/ (s.i = 0 /\ s.best = None)
  PROVE  Leading(s, l, h, k)
  BY DEF Leading

\* Every step keeps the candidates the least loaded: a calm scan reads on, any change of
\* a count or a flag ends the calm.
LEMMA LeastSoFarStep == CallsSound /\ LeastSoFar /\ [LBNext]_lbVars => LeastSoFar'
<1> SUFFICES ASSUME CallsSound, LeastSoFar, [LBNext]_lbVars, lbKind' = "least-conn"
             PROVE  \A d \in Caller : Leading(scan'[d], list', healthy', Counts')
  BY DEF LeastSoFar
<1>0. /\ lbKind = "least-conn" /\ list \in Seq(Backend) /\ scan \in [Caller -> Call]
      /\ healthy \subseteq Backend
      /\ \A d \in Caller : Leading(scan[d], list, healthy, Counts)
  <2>1. UNCHANGED lbKind
    BY DEF LBNext, lbVars, Begin, Read, Return, Dial, Hangup, AddBackend, RemoveBackend, SetHealthy,
           UpdateBackends
  <2> QED BY <2>1 DEF LeastSoFar, CallsSound
<1>1. ASSUME NEW c \in Caller, UNCHANGED <<list, healthy>>, scan[c].at # "using",
             scan'[c].at # "using", \A d \in Caller \ {c} : scan'[d] = scan[d],
             Leading(scan'[c], list, healthy, Counts)
      PROVE  \A d \in Caller : Leading(scan'[d], list', healthy', Counts')
  <2>1. Counts' = Counts
    BY <1>1, CountsSame
  <2> QED BY <1>0, <1>1, <2>1
<1>2. ASSUME NEW c \in Caller, NEW r,
             scan' = [Disturbed({}) EXCEPT ![c] = r],
             r.at # "scan" \/ (r.i = 0 /\ r.best = None)
      PROVE  \A d \in Caller : Leading(scan'[d], list', healthy', Counts')
  <2> SUFFICES ASSUME NEW d \in Caller PROVE Leading(scan'[d], list', healthy', Counts')
    OBVIOUS
  <2>1. CASE d = c
    <3>1. scan'[d] = r
      BY <1>2, <2>1, DisturbedOK
    <3> QED BY <1>2, <3>1, LeadingTrivial
  <2>2. CASE d # c
    <3>1. scan'[d].at = scan[d].at /\ (scan[d].at = "scan" => scan'[d].calm = FALSE)
      BY <1>2, <2>2, DisturbedOK
    <3> QED BY <3>1, LeadingTrivial
  <2> QED BY <2>1, <2>2
<1>3. ASSUME NEW c \in Caller, Begin(c)
      PROVE  \A d \in Caller : Leading(scan'[d], list', healthy', Counts')
  <2>1. UNCHANGED <<list, healthy>> /\ scan[c].at = "idle"
    BY <1>3 DEF Begin
  <2>2. PICK r, f : /\ scan' = [f EXCEPT ![c] = r] /\ f \in {scan, Disturbed({})}
                    /\ r.at # "using" /\ (r.at # "scan" \/ (r.i = 0 /\ r.best = None))
    <3>1. CASE list = <<>>
      <4>1. scan' = [scan EXCEPT ![c] = Called("error", None, 0, {})]
        BY <1>3, <3>1 DEF Begin, Step
      <4>2. Called("error", None, 0, {}).at = "error"
        BY DEF Called
      <4> QED BY <4>1, <4>2
    <3>2. CASE list # <<>>
      <4> DEFINE r == Called("scan", None, MaxInt, Listed \cap healthy)
      <4>1. scan' = [(IF counter' < counter THEN Disturbed({}) ELSE scan) EXCEPT ![c] = r]
        BY <1>0, <1>3, <3>2 DEF Begin
      <4>2. r.at = "scan" /\ r.i = 0 /\ r.best = None
        BY DEF Called
      <4> HIDE DEF r
      <4> QED BY <4>1, <4>2
    <3> QED BY <3>1, <3>2
  <2>3. CASE f = Disturbed({})
    BY <1>2, <2>2, <2>3
  <2>4. CASE f = scan
    <3>1. scan'[c] = r /\ \A d \in Caller \ {c} : scan'[d] = scan[d]
      BY <1>0, <2>2, <2>4
    <3>2. Leading(scan'[c], list, healthy, Counts)
      BY <2>2, <3>1, LeadingTrivial
    <3> QED BY <1>1, <2>1, <2>2, <3>1, <3>2
  <2> QED BY <2>2, <2>3, <2>4
<1>4. ASSUME NEW c \in Caller, Read(c)
      PROVE  \A d \in Caller : Leading(scan'[d], list', healthy', Counts')
  <2> DEFINE s == scan[c]
             b == list[s.i + 1]
             take == b \in healthy /\ Conns(b) < s.acc
             r == IF take THEN [s EXCEPT !.i = @ + 1, !.best = b, !.acc = Conns(b)]
                          ELSE [s EXCEPT !.i = @ + 1]
  <2>1. /\ UNCHANGED <<list, healthy>> /\ s.at = "scan" /\ s.i < Len(list)
        /\ scan' = [scan EXCEPT ![c] = r]
    BY <1>0, <1>4 DEF Read, LoopEnd, ReadLeastConn, ReadRoundRobin, ReadWeighted, Step, Fewer
  <2>2. s \in Call /\ s.i \in Nat /\ (s.best = None => s.acc = MaxInt)
    BY <1>0, <2>1 DEF CallsSound, CallOK, ScanSound, Call
  <2>3. \A j \in 1..(s.i + 1) : list[j] \in Backend
    BY <1>0, <2>1, <2>2, LenProperties
  <2>4. /\ b \in Backend /\ Counts[b] = Conns(b) /\ Conns(b) < MaxInt
        /\ Counts \in [Backend -> Nat]
    BY <2>2, <2>3, ConnsBelowMax DEF Counts
  <2>5. /\ scan'[c] = r /\ \A d \in Caller \ {c} : scan'[d] = scan[d]
    BY <1>0, <2>1
  <2>6. Leading(s, list, healthy, Counts)
    BY <1>0
  <2> HIDE DEF s
  <2>7. /\ r.at = s.at /\ r.i = s.i + 1 /\ r.calm = s.calm
        /\ IF take THEN r.best = b /\ r.acc = Conns(b) ELSE r.best = s.best /\ r.acc = s.acc
    <3>1. CASE take
      <4> HIDE DEF b
      <4> QED BY <2>2, <3>1 DEF Call
    <3>2. CASE ~take
      <4> HIDE DEF b
      <4> QED BY <2>2, <3>2 DEF Call
    <3> QED BY <3>1, <3>2
  <2> HIDE DEF r
  <2>8. Leading(r, list, healthy, Counts)
    BY <2>1, <2>2, <2>3, <2>4, <2>6, <2>7, LeadingAfterRead
  <2> QED BY <1>1, <2>1, <2>5, <2>7, <2>8 DEF s
<1>5. ASSUME NEW c \in Caller, Return(c)
      PROVE  \A d \in Caller : Leading(scan'[d], list', healthy', Counts')
  <2> DEFINE s == scan[c]
             e == [s EXCEPT !.at = "error", !.i = 0, !.acc = 0]
             q == Called("picked", s.best, 0, {})
  <2>1. /\ UNCHANGED <<list, healthy>> /\ s.at = "scan" /\ s \in Call
        /\ scan' = [scan EXCEPT ![c] = IF s.best = None THEN e ELSE q]
    BY <1>0, <1>5 DEF Return, Step
  <2>2. scan'[c] = (IF s.best = None THEN e ELSE q) /\ \A d \in Caller \ {c} : scan'[d] = scan[d]
    BY <1>0, <2>1
  <2>3. e.at = "error" /\ q.at = "picked"
    <3> HIDE DEF s
    <3> QED BY <2>1 DEF Called, Call
  <2> HIDE DEF e, q
  <2>4. scan'[c].at # "scan" /\ scan'[c].at # "using"
    BY <2>2, <2>3
  <2>5. Leading(scan'[c], list, healthy, Counts)
    BY <2>4, LeadingTrivial
  <2> QED BY <1>1, <2>1, <2>2, <2>4, <2>5
<1>6. ASSUME NEW c \in Caller, Dial(c) \/ Hangup(c)
      PROVE  \A d \in Caller : Leading(scan'[d], list', healthy', Counts')
  <2>1. UNCHANGED <<list, healthy>> /\ Idle.at = "idle"
    BY <1>6 DEF Dial, Hangup, Idle, Called
  <2>2. CASE scan' = [scan EXCEPT ![c] = Idle] /\ scan[c].at # "using"
    <3>1. scan'[c] = Idle /\ \A d \in Caller \ {c} : scan'[d] = scan[d]
      BY <1>0, <2>2
    <3>2. Leading(scan'[c], list, healthy, Counts)
      BY <2>1, <3>1, LeadingTrivial
    <3> QED BY <1>1, <2>1, <2>2, <3>1, <3>2
  <2>3. CASE scan' = [Disturbed({}) EXCEPT ![c] = Idle]
    BY <1>2, <2>1, <2>3
  <2>4. CASE scan' = [Disturbed({}) EXCEPT ![c].at = "using"]
    <3> DEFINE t == Disturbed({})[c]
               r == [t EXCEPT !.at = "using"]
    <3>1. scan' = [Disturbed({}) EXCEPT ![c] = r]
      BY <2>4
    <3>2. t \in Call
      BY DisturbedOK
    <3> HIDE DEF t
    <3>3. r.at = "using"
      BY <3>2 DEF Call
    <3> HIDE DEF r
    <3> QED BY <1>2, <3>1, <3>3
  <2> QED BY <1>6, <2>2, <2>3, <2>4 DEF Dial, Hangup
<1>7. ASSUME Scanning = {}, UNCHANGED scan
      PROVE  \A d \in Caller : Leading(scan'[d], list', healthy', Counts')
  <2>1. \A d \in Caller : scan'[d].at # "scan"
    BY <1>7 DEF Scanning
  <2> QED BY <2>1, LeadingTrivial
<1>8. ASSUME NEW b \in Backend, NEW up \in BOOLEAN, SetHealthy(b, up)
      PROVE  \A d \in Caller : Leading(scan'[d], list', healthy', Counts')
  <2> DEFINE dead == IF up THEN {} ELSE {b}
  <2>1. scan' = Disturbed(dead)
    BY <1>8 DEF SetHealthy
  <2> HIDE DEF dead
  <2>2. \A d \in Caller : scan'[d].at # "scan" \/ scan'[d].calm = FALSE
    BY <2>1, DisturbedOK
  <2> QED BY <2>2, LeadingTrivial
<1>9. CASE UNCHANGED lbVars
  <2>1. UNCHANGED <<scan, list, healthy>>
    BY <1>9 DEF lbVars
  <2>2. Counts' = Counts
    BY <2>1, CountsSame
  <2> QED BY <1>0, <2>1, <2>2
<1>10. ASSUME NEW b \in Backend, AddBackend(b) \/ RemoveBackend(b)
       PROVE  Scanning = {} /\ UNCHANGED scan
  BY <1>10 DEF AddBackend, RemoveBackend
<1>11. ASSUME NEW l \in Lists, UpdateBackends(l)
       PROVE  Scanning = {} /\ UNCHANGED scan
  BY <1>11 DEF UpdateBackends
<1> QED BY <1>3, <1>4, <1>5, <1>6, <1>7, <1>8, <1>9, <1>10, <1>11 DEF LBNext

\* A call of LeastConnections returns a backend only at the end of its loop, and then
\* its candidate.
LEMMA OnlyReturnPicks ==
  ASSUME CallsSound, LBNext, NEW c \in Caller, lbKind = "least-conn", scan[c].at = "scan",
         scan'[c].at = "picked"
  PROVE  scan[c].i >= Len(list) /\ scan[c].best # None /\ scan'[c].best = scan[c].best
<1>0. scan \in [Caller -> Call] /\ scan[c] \in Call
  BY DEF CallsSound
<1>1. ASSUME NEW d \in Caller, NEW r, NEW f \in {scan, Disturbed({})},
             scan' = [f EXCEPT ![d] = r], scan[d].at # "scan"
      PROVE  FALSE
  <2>1. f[c].at = "scan" /\ f \in [Caller -> Call]
    <3>1. Disturbed({})[c].at = "scan" /\ Disturbed({}) \in [Caller -> Call]
      BY DisturbedOK
    <3> QED BY <1>0, <1>1, <3>1
  <2> QED BY <1>1, <2>1
<1>2. ASSUME NEW d \in Caller, Begin(d) PROVE FALSE
  BY <1>1, <1>2 DEF Begin, Step
<1>3. ASSUME NEW d \in Caller, Dial(d) \/ Hangup(d) PROVE FALSE
  <2>1. scan[d].at # "scan"
    BY <1>3 DEF Dial, Hangup
  <2>2. CASE scan' = [scan EXCEPT ![d] = Idle] \/ scan' = [Disturbed({}) EXCEPT ![d] = Idle]
    BY <1>1, <2>1, <2>2
  <2>3. CASE scan' = [Disturbed({}) EXCEPT ![d].at = "using"]
    <3>1. scan' = [Disturbed({}) EXCEPT ![d] = [Disturbed({})[d] EXCEPT !.at = "using"]]
      BY <2>3
    <3> QED BY <1>1, <2>1, <3>1
  <2> QED BY <1>3, <2>2, <2>3 DEF Dial, Hangup
<1>4. ASSUME NEW d \in Caller, Read(d) PROVE FALSE
  <2> DEFINE s == scan[d]
             b == list[s.i + 1]
             t == [s EXCEPT !.i = @ + 1, !.best = b, !.acc = Conns(b)]
             u == [s EXCEPT !.i = @ + 1]
  <2>1. s.at = "scan" /\ s \in Call /\ scan' \in {[scan EXCEPT ![d] = t], [scan EXCEPT ![d] = u]}
    BY <1>0, <1>4 DEF Read, ReadRoundRobin, ReadLeastConn, ReadWeighted, Step
  <2>2. t.at = "scan" /\ u.at = "scan"
    <3> HIDE DEF s, b
    <3> QED BY <2>1 DEF Call
  <2> HIDE DEF t, u
  <2> QED BY <1>0, <2>1, <2>2
<1>5. ASSUME NEW b \in Backend, NEW up \in BOOLEAN, SetHealthy(b, up) PROVE FALSE
  <2> DEFINE dead == IF up THEN {} ELSE {b}
  <2>1. scan' = Disturbed(dead)
    BY <1>5 DEF SetHealthy
  <2> HIDE DEF dead
  <2> QED BY <2>1, DisturbedOK
<1>6. ASSUME UNCHANGED scan PROVE FALSE
  BY <1>6
<1>7. PICK d \in Caller : Return(d)
  BY <1>2, <1>3, <1>4, <1>5, <1>6 DEF LBNext, AddBackend, RemoveBackend, UpdateBackends
<1>8. d = c
  BY <1>0, <1>7 DEF Return, Step
<1> DEFINE s == scan[c]
           e == [s EXCEPT !.at = "error", !.i = 0, !.acc = 0]
           q == Called("picked", s.best, 0, {})
<1>9. /\ s.i >= Len(list) /\ scan'[c] = IF s.best = None THEN e ELSE q
  BY <1>0, <1>7, <1>8 DEF Return, Step, LoopEnd
<1>10. e.at = "error" /\ q.best = s.best
  <2> HIDE DEF s
  <2> QED BY <1>0 DEF Called, Call, s
<1> HIDE DEF e, q
<1> QED BY <1>9, <1>10

\* LeastConnections returns a healthy backend with the fewest connections, if nothing
\* changed since the call began, whatever the list and however calls interleave.
THEOREM LeastIsChosen == LBSpec => LeastChosen
<1> DEFINE A == \A c \in Caller :
       lbKind = "least-conn" /\ scan[c].at = "scan" /\ scan[c].calm /\ scan'[c].at = "picked" =>
         \A b \in Listed \cap healthy :
           scan'[c].best \in healthy /\ Conns(scan'[c].best) <= Conns(b)
<1>1. LBInit => LeastSoFar
  <2> SUFFICES ASSUME LBInit, NEW c \in Caller PROVE Leading(scan[c], list, healthy, Counts)
    BY DEF LeastSoFar
  <2>1. scan[c].at = "idle"
    BY DEF LBInit, Idle, Called
  <2> QED BY <2>1, LeadingTrivial
<1>2. CallsSound /\ LeastSoFar /\ [LBNext]_lbVars => [A]_lbVars
  <2> SUFFICES ASSUME CallsSound, LeastSoFar, LBNext, NEW c \in Caller, lbKind = "least-conn",
                      scan[c].at = "scan", scan[c].calm, scan'[c].at = "picked",
                      NEW b \in Listed \cap healthy
               PROVE  scan'[c].best \in healthy /\ Conns(scan'[c].best) <= Conns(b)
    OBVIOUS
  <2>0. /\ list \in Seq(Backend) /\ scan \in [Caller -> Call] /\ scan[c] \in Call
        /\ Leading(scan[c], list, healthy, Counts)
    BY DEF CallsSound, LeastSoFar
  <2>1. scan[c].i \in Nat /\ scan[c].i >= Len(list) /\ scan[c].best # None
        /\ scan'[c].best = scan[c].best
    BY <2>0, OnlyReturnPicks DEF Call
  <2>2. PICK j \in 1..Len(list) : list[j] = b
    BY <2>0 DEF Listed, Range
  <2>3. Len(list) \in Nat /\ j \in 1..scan[c].i /\ b \in Backend
    BY <2>0, <2>1, <2>2, LenProperties
  <2>4. scan[c].best \in Backend \cap healthy /\ Counts[scan[c].best] <= Counts[b]
    BY <2>0, <2>1, <2>2, <2>3 DEF Leading
  <2> QED BY <2>1, <2>3, <2>4 DEF Counts
<1> QED BY <1>1, <1>2, LeastSoFarStep, CallsSoundInv, PTL DEF LBSpec, LeastChosen
=============================================================================
