---------------------------- MODULE RegistryAPI ----------------------------
(***************************************************************************)
(* The registry's HTTP interface (internal/registry/handler.go).  Every    *)
(* request makes at most one call of the registry, under its lock, so a    *)
(* request is one step.  A path is the sequence of its segments after      *)
(* /v1/services, and an ID, which is what is left of a path, likewise.     *)
(***************************************************************************)
EXTENDS Integers, Sequences, FiniteSets

CONSTANTS
  Segment,     \* the segments of paths
  Bodies,      \* bodies of POST: [json, id, name, address, ttl, weight]
  Paths,       \* paths that are asked for
  Fresh,       \* the IDs generateID makes, which may be in use already
  MaxServices  \* registry limit, 0 for none

ASSUME APIAssumption ==
  /\ Paths \subseteq Seq(Segment)
  /\ \A b \in Bodies : b.weight \in Int
  /\ MaxServices \in Nat

VARIABLES
  stored,      \* registry.services: ID -> [name, address, weight]
  reply        \* the last response: its status code and the services it shows

apiVars == <<stored, reply>>

Method == {"GET", "POST", "PUT", "DELETE", "PATCH"}
APIInit == stored = <<>> /\ reply = [code |-> 0, shown |-> {}]

\* A response, and what the registry holds after it.
Response(code, shown, after) == [code |-> code, shown |-> shown, after |-> after]
Refused(code) == Response(code, {}, stored)

\* Mutant of Complete: the address is not asked for.
CompleteUnaddressed(body) == body.name # ""

Complete(body) == body.name # "" /\ body.address # ""

\* Registry.Register with the ID given or generated.
Register(body, id) ==
  IF MaxServices > 0 /\ Cardinality(DOMAIN stored) >= MaxServices /\ id \notin DOMAIN stored
  THEN Refused(503)
  ELSE Response(201, {id},
         [i \in DOMAIN stored \cup {id} |->
            IF i = id THEN [name |-> body.name, address |-> body.address,
                            weight |-> IF body.weight <= 0 THEN 1 ELSE body.weight]
                      ELSE stored[i]])

\* The checks come before the call: JSON, name and address, the TTL.
handleRegister(body, generated) ==
  IF ~body.json \/ ~Complete(body) \/ body.ttl = "malformed" THEN Refused(400)
  ELSE Register(body, IF body.id = <<>> THEN generated ELSE body.id)

\* handleList: a name takes precedence over a tag.
handleList(name) ==
  Response(200, {i \in DOMAIN stored : name = "" \/ stored[i].name = name}, stored)

Unknown(id) == id \notin DOMAIN stored

handleGet(id) == IF Unknown(id) THEN Refused(404) ELSE Response(200, {id}, stored)

handleDeregister(id) ==
  IF Unknown(id) THEN Refused(404)
  ELSE Response(204, {}, [i \in DOMAIN stored \ {id} |-> stored[i]])

handleHeartbeat(id) == IF Unknown(id) THEN Refused(404) ELSE Response(204, {}, stored)

\* Mutant of HeartbeatID: the whole path is taken for the ID.
HeartbeatIDWhole(path) == path

\* TrimSuffix removes /heartbeat only behind something.
HeartbeatID(path) == IF Len(path) > 1 THEN SubSeq(path, 1, Len(path) - 1) ELSE path

\* ServeHTTP.
Serve(method, path, body, generated, name) ==
  CASE path = <<>> /\ method = "POST" -> handleRegister(body, generated)
    [] path = <<>> /\ method = "GET"  -> handleList(name)
    [] path # <<>> /\ path[Len(path)] = "heartbeat" /\ method = "PUT" -> handleHeartbeat(HeartbeatID(path))
    [] path # <<>> /\ path[Len(path)] # "heartbeat" /\ method = "GET" -> handleGet(path)
    [] path # <<>> /\ path[Len(path)] # "heartbeat" /\ method = "DELETE" -> handleDeregister(path)
    [] OTHER -> Refused(405)

ServeHTTP(method, path, body, generated, name) ==
  LET r == Serve(method, path, body, generated, name)
  IN  stored' = r.after /\ reply' = [code |-> r.code, shown |-> r.shown]

\* cleanupExpired removes a service between two requests.
Expire(id) ==
  /\ id \in DOMAIN stored
  /\ stored' = [i \in DOMAIN stored \ {id} |-> stored[i]]
  /\ UNCHANGED reply

NoBody == [json |-> FALSE]

APINext ==
  \/ \E body \in Bodies, generated \in Fresh :
       ServeHTTP("POST", <<>>, body, generated, "")
  \/ \E method \in Method, path \in Paths, name \in {"", "n1"} :
       <<method, path>> # <<"POST", <<>>>> /\ ServeHTTP(method, path, NoBody, <<>>, name)
  \/ \E id \in DOMAIN stored : Expire(id)

APISpec == APIInit /\ [][APINext]_apiVars
-----------------------------------------------------------------------------
(* Properties *)

\* What the watcher builds backends from is usable: whatever was posted, every
\* service in the registry has a name, an address and a positive weight, and the
\* limit is kept.
StoredIsUsable ==
  /\ \A i \in DOMAIN stored : stored[i].name # "" /\ stored[i].address # "" /\ stored[i].weight >= 1
  /\ MaxServices > 0 => Cardinality(DOMAIN stored) <= MaxServices

\* What GET, PUT .../heartbeat and DELETE answer for the ID i.
AnswersFor(i, get, put, del) ==
  IF i \in DOMAIN stored
  THEN /\ get.code = 200 /\ get.shown = {i} /\ get.after = stored
       /\ put.code = 204 /\ put.after = stored
       /\ del.code = 204 /\ DOMAIN del.after = DOMAIN stored \ {i}
       /\ \A j \in DOMAIN del.after : del.after[j] = stored[j]
  ELSE \A r \in {get, put, del} : r.code = 404 /\ r.after = stored

\* A service is reached at its own URL, as handler.go lists the routes: GET shows
\* it and it alone, its heartbeat is accepted, DELETE removes it and nothing
\* else; for an ID that is not registered all three answer 404.  An ID that ends
\* in the segment "heartbeat" is the exception, since its URL is another route's.
AddressedByURL ==
  \A i \in {p \in Paths : p # <<>> /\ p[Len(p)] # "heartbeat"} :
    LET ask(method, path) == Serve(method, path, NoBody, <<>>, "")
    IN  AnswersFor(i, ask("GET", i), ask("PUT", Append(i, "heartbeat")), ask("DELETE", i))

\* Only usable services get into the registry, and each is reached at its own URL.
EndpointsTrue == StoredIsUsable /\ AddressedByURL
=============================================================================
