------------------------------- MODULE Router -------------------------------
(***************************************************************************)
(* The path/host router (internal/router/router.go).  Routes are kept in   *)
(* order of specificity, and a request goes to the first that matches it.  *)
(* A host is the sequence of its parts between colons (empty in a route:   *)
(* any host), so that a name has one part, a name with a port two, and an  *)
(* IPv6 address several with or without a port.  A path and a prefix are   *)
(* sequences of characters, and methods are compared as the code compares  *)
(* them, without case.                                                     *)
(***************************************************************************)
EXTENDS Integers, Sequences, FiniteSetsExt, Functions

CONSTANTS
  Symbol,     \* the characters of paths and the parts of hosts
  Templates,  \* the routes that may be added: [name, host, prefix, methods]
  Requests,   \* the requests that may come: [host, path, method]
  MaxAdds     \* bound: calls of AddRoute

\* A request has a Host, of at least one part.
ASSUME RouterAssumption ==
  /\ \A t \in Templates : t.host \in Seq(Symbol) /\ t.prefix \in Seq(Symbol)
  /\ \A req \in Requests : req.path \in Seq(Symbol) /\ req.host \in Seq(Symbol) /\ req.host # <<>>

VARIABLES
  routes,     \* r.routes, each with its AddRoute call number (history)
  adds        \* calls of AddRoute so far

routerVars == <<routes, adds>>

RouterInit == routes = <<>> /\ adds = 0

\* Mutant of isMoreSpecific: a route of equal specificity goes first.
isMoreSpecificOrEqual(a, b) ==
  \/ a.host # <<>> /\ b.host = <<>>
  \/ (a.host = <<>> <=> b.host = <<>>) /\ Len(a.prefix) >= Len(b.prefix)

isMoreSpecific(a, b) ==
  \/ a.host # <<>> /\ b.host = <<>>
  \/ (a.host = <<>> <=> b.host = <<>>) /\ Len(a.prefix) > Len(b.prefix)

\* The route that the n-th call of AddRoute adds.
NewRoute(t, n) ==
  [name |-> t.name, host |-> t.host, prefix |-> t.prefix, methods |-> t.methods, call |-> n]

\* The slices that append puts together.
InsertedBefore(rs, i, r) == SubSeq(rs, 1, i - 1) \o <<r>> \o SubSeq(rs, i, Len(rs))
Without(rs, i) == SubSeq(rs, 1, i - 1) \o SubSeq(rs, i + 1, Len(rs))

\* Before the first existing route that it is more specific than, or last.
AddRoute(t) ==
  LET route == NewRoute(t, adds + 1)
      less  == {i \in DOMAIN routes : isMoreSpecific(route, routes[i])}
  IN  /\ adds < MaxAdds
      /\ adds' = adds + 1
      /\ routes' = IF less = {} THEN Append(routes, route)
                                ELSE InsertedBefore(routes, Min(less), route)

\* The first route of that name.
RemoveRoute(name) ==
  LET named == {i \in DOMAIN routes : routes[i].name = name}
  IN  /\ named # {}
      /\ routes' = Without(routes, Min(named))
      /\ UNCHANGED adds

\* Mutant of HostOf: the port is compared as well.
HostOfWithPort(req) == req.host

\* The host without its port: what precedes the last colon, if there is one.  Of
\* an IPv6 address without a port this takes the last group.
HostOf(req) == IF Len(req.host) > 1 THEN SubSeq(req.host, 1, Len(req.host) - 1) ELSE req.host

matches(route, req) ==
  /\ route.host # <<>> => HostOf(req) = route.host
  /\ Len(route.prefix) <= Len(req.path) /\ SubSeq(req.path, 1, Len(route.prefix)) = route.prefix
  /\ route.methods # {} => req.method \in route.methods

\* Match, and ServeHTTP, which answers 404 when there is none.
NotFound == [name |-> "404"]
Match(req) ==
  LET hits == {i \in DOMAIN routes : matches(routes[i], req)}
  IN  IF hits = {} THEN NotFound ELSE routes[Min(hits)]

RouterNext == \E t \in Templates : AddRoute(t) \/ RemoveRoute(t.name)

RouterSpec == RouterInit /\ [][RouterNext]_routerVars
-----------------------------------------------------------------------------
(* Properties *)

\* The request is for this host: it names the host alone, if that has no colon, or
\* the host, a colon and one more part.  The last group of an IPv6 address without
\* a port counts as that part (router.go:131), so that no request is for such an
\* address unless it names a port.
IsFor(req, host) ==
  \/ req.host = host /\ Len(host) = 1
  \/ \E port \in Symbol : req.host = Append(host, port)

\* The routes a request satisfies, criterion by criterion.
Candidates(req) ==
  {r \in Range(routes) : /\ r.host = <<>> \/ IsFor(req, r.host)
                         /\ Len(r.prefix) <= Len(req.path)
                         /\ r.prefix = SubSeq(req.path, 1, Len(r.prefix))
                         /\ r.methods = {} \/ req.method \in r.methods}

\* Every request goes to the best route that accepts it, in whatever order routes
\* were added and removed: one for its host before one for any host, then the one
\* with the longest prefix, then the one added first ("First match wins for
\* equal specificity"); it is answered 404 only if no route accepts it.
BestRoute ==
  \A req \in Requests :
    LET best == Match(req) IN
    IF Candidates(req) = {} THEN best = NotFound
    ELSE /\ best \in Candidates(req)
         /\ \A r \in Candidates(req) \ {best} :
              \/ best.host # <<>> /\ r.host = <<>>
              \/ /\ best.host = <<>> <=> r.host = <<>>
                 /\ \/ Len(best.prefix) > Len(r.prefix)
                    \/ Len(best.prefix) = Len(r.prefix) /\ best.call < r.call
=============================================================================
