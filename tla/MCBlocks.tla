------------------------------ MODULE MCBlocks ------------------------------
(***************************************************************************)
(* The components that have no run of their own, side by side for TLC: a   *)
(* behaviour is one of the component focus names, while the others stay in *)
(* an initial state.  Those with theorems about them are extended, so that *)
(* the run checks the definitions the theorems are about.                  *)
(***************************************************************************)
EXTENDS TokenBucket, HTTPProxy, LoadBalancer, Router, Access, RegistryAPI, Lifecycle, TLC

VARIABLES
  focus,
  targets, selections, selects, pools, poolCounter, dealt,
  count, created, rec, scrape, raced, lats

split == <<targets, selections, selects, pools, poolCounter, dealt>>
coll  == <<count, created, rec, scrape, raced, lats>>
-----------------------------------------------------------------------------
(* Sizes.  Blocks.cfg gives the smaller ones: two requests on one bucket     *)
(* with a burst of one, and one unit of time, so that with the limiter on    *)
(* the second is refused unless time has passed.                             *)

\* Lists that shrink, reorder and empty; the counter wraps away from a multiple
\* of their lengths, as 2^64 does of 3.
BackendLists == {<<"b1", "b2", "b3">>, <<"b3", "b2">>, <<>>}
BackendWeight == [b1 |-> 2, b2 |-> 1, b3 |-> 1]

T(n, w) == [name |-> n, weight |-> w]
Sp == INSTANCE Splitter WITH
        TargetLists <- {<<T("v1", 2), T("v2", 1)>>, <<T("v1", 1), T("v1", 1), T("v2", 2)>>,
                        <<T("v3", 3)>>, <<>>, <<T("v1", 1), T("v2", 0)>>},
        PoolWeights <- {0, 1, 2}, CountMod <- 8, MaxSelects <- 2, MaxPools <- 2

R(n, h, p, m) == [name |-> n, host |-> h, prefix |-> p, methods |-> m]
RouteTemplates ==
  {R("any", <<>>, <<"/">>, {}), R("api", <<>>, <<"/", "a">>, {"GET"}), R("h", <<"h">>, <<"/">>, {}),
   R("h2", <<"h">>, <<"/">>, {"GET"}), R("ha", <<"h">>, <<"/", "a">>, {"POST"}),
   R("six", <<"h", "a">>, <<"/">>, {})}
RoutedRequests ==
  [host : {<<"h">>, <<"h", "80">>, <<"g">>, <<"h", "a", "b">>},
   path : {<<"/">>, <<"/", "a">>, <<"/", "a", "b">>}, method : {"GET", "POST"}]

\* Two recorders that may both find the backend unknown; latencies on a boundary,
\* a fraction of a millisecond above it, and above the last one.
Co == INSTANCE Collector WITH
        Recorder <- {"r1", "r2"}, Key <- {"k1"}, Boundaries <- <<500, 1000>>,
        Fraction <- 10, Latencies <- {5004, 12000}, MaxRequests <- 2

\* A good token and tokens with one or two defects; validity that begins and ends
\* within the time that passes.
TokenClaims == [exp : {0, 2}, nbf : {0, 3}, iss : {"me", "you"}, aud : {"", "us"}]
Signed(c) == [parts |-> 3, header |-> TRUE, payload |-> TRUE, signature |-> TRUE,
              alg |-> "HS256", key |-> "secret", claims |-> c]
OtherTokens ==
  UNION {{[Signed(c) EXCEPT !.parts = 2], [Signed(c) EXCEPT !.header = FALSE],
          [Signed(c) EXCEPT !.payload = FALSE], [Signed(c) EXCEPT !.signature = FALSE],
          [Signed(c) EXCEPT !.key = "rsa"], [Signed(c) EXCEPT !.alg = "RS256"],
          [Signed(c) EXCEPT !.alg = "RS256", !.key = "rsa"], [Signed(c) EXCEPT !.alg = "none"]} :
         c \in {x \in TokenClaims : x.exp = 0}}
AccessConfigs ==
  {[issuer |-> i, audience |-> "us", skew |-> k, keys |-> {"secret"}, origins |-> {"*", "o1"},
    credentials |-> i = ""] : i \in {"", "me"}, k \in {0, 1}}
  \cup {[issuer |-> "", audience |-> "", skew |-> 1, keys |-> {"secret", "rsa"}, origins |-> {"o1"},
         credentials |-> FALSE]}
AuthHeaders == {<<>>, <<"token">>, <<"basic", "token">>, <<"bearer", "">>, <<"bearer", "token">>}

\* IDs of one and of two segments, given and generated; two names; a body for
\* each check.
Body == [json |-> TRUE, id |-> <<"a">>, name |-> "n1", address |-> "x", ttl |-> "", weight |-> 0]
PostBodies ==
  {Body, [Body EXCEPT !.id = <<"a", "b">>, !.name = "n2", !.weight = 3],
   [Body EXCEPT !.id = <<"heartbeat">>], [Body EXCEPT !.id = <<>>, !.ttl = "30s"],
   [Body EXCEPT !.json = FALSE], [Body EXCEPT !.name = ""], [Body EXCEPT !.address = ""],
   [Body EXCEPT !.ttl = "malformed"]}
GeneratedIDs == {<<"g1">>, <<"g2">>, <<"g3">>}
AskedPaths == {<<>>, <<"a">>, <<"a", "b">>, <<"g1">>, <<"heartbeat">>, <<"a", "heartbeat">>}

\* Files that load, with and without the optional parts, and one for each check.
Defaults == [x \in Setting |-> 5]
Given(v) == [x \in Setting |-> v]
File == [readable |-> TRUE, listen |-> "l", http |-> TRUE,
         backends |-> <<[addr |-> "a", weight |-> 0], [addr |-> "b", weight |-> 2]>>,
         enabled |-> Optional, value |-> Given(0)]
ConfigFiles ==
  {File, [File EXCEPT !.http = FALSE, !.enabled = {}, !.value = Given(7)],
   [File EXCEPT !.enabled = {"tcp_pool"}, !.value = [Given(0) EXCEPT ![<<"tcp_pool", "max_idle">>] = -1]],
   [File EXCEPT !.readable = FALSE], [File EXCEPT !.listen = ""], [File EXCEPT !.backends = <<>>],
   [File EXCEPT !.backends[1].addr = ""], [File EXCEPT !.backends[2].weight = -1]}
-----------------------------------------------------------------------------
(* One of them at a time *)

Component == {"bucket", "http", "lb", "splitter", "router", "collector", "access", "api", "life"}

\* The components out of focus take one fixed initial state.
BlocksInit ==
  /\ focus \in Component
  /\ BucketInit /\ (focus # "bucket" => rate = CHOOSE r \in Rates : TRUE)
  /\ Init       /\ (focus # "http" => options.limiter /\ options.breakers)
  /\ LBInit     /\ (focus # "lb" => lbKind = "weighted" /\ list = <<>>)
  /\ Sp!Init    /\ (focus # "splitter" => Len(targets) = 1)
  /\ AccessInit /\ (focus # "access" => token = Signed(CHOOSE c \in TokenClaims : TRUE)
                                           /\ config = CHOOSE c \in AccessConfigs : TRUE)
  /\ LifeInit   /\ (focus # "life" => file = File)
  /\ RouterInit /\ Co!Init /\ APIInit

On(c) == focus = c /\ UNCHANGED focus

BlocksNext ==
  \/ On("bucket") /\ BucketNext
     /\ UNCHANGED <<vars, lbVars, split, routerVars, coll, accessVars, apiVars, lifeVars>>
  \/ On("http") /\ Next
     /\ UNCHANGED <<bucketVars, lbVars, split, routerVars, coll, accessVars, apiVars, lifeVars>>
  \/ On("lb") /\ LBNext
     /\ UNCHANGED <<bucketVars, vars, split, routerVars, coll, accessVars, apiVars, lifeVars>>
  \/ On("splitter") /\ Sp!Next
     /\ UNCHANGED <<bucketVars, vars, lbVars, routerVars, coll, accessVars, apiVars, lifeVars>>
  \/ On("router") /\ RouterNext
     /\ UNCHANGED <<bucketVars, vars, lbVars, split, coll, accessVars, apiVars, lifeVars>>
  \/ On("collector") /\ Co!Next
     /\ UNCHANGED <<bucketVars, vars, lbVars, split, routerVars, accessVars, apiVars, lifeVars>>
  \/ On("access") /\ AccessNext
     /\ UNCHANGED <<bucketVars, vars, lbVars, split, routerVars, coll, apiVars, lifeVars>>
  \/ On("api") /\ APINext
     /\ UNCHANGED <<bucketVars, vars, lbVars, split, routerVars, coll, accessVars, lifeVars>>
  \/ On("life") /\ LifeNext
     /\ UNCHANGED <<bucketVars, vars, lbVars, split, routerVars, coll, accessVars, apiVars>>

\* LifeFairness; the test of focus, which its actions imply, is put first to spare
\* TLC the rest.
Fairness == WF_lifeVars(focus = "life" /\ Main) /\ WF_lifeVars(focus = "life" /\ Countdown)

BlocksSpec ==
  /\ BlocksInit
  /\ [][BlocksNext]_<<focus, bucketVars, vars, lbVars, split, routerVars, coll, accessVars, apiVars, lifeVars>>
  /\ Fairness
-----------------------------------------------------------------------------
(* The properties are the components' own, but for three that put several  *)
(* of one component together.                                              *)

\* LoadBalancer: each balancer keeps its promise of who comes next.  Round robin is
\* even, the running weights add up to zero and stay within a cycle, a cycle gives
\* each backend its weight, and least connections takes a least loaded backend.
FairChoice ==
  /\ [](focus = "lb" => EvenTurns /\ WeightConserved /\ WeightBounded /\ CycleExact)
  /\ LeastChosen

\* Splitter: the draw and a cycle of Route follow the weights exactly, and what was
\* selected since the last accepted update is counted once.
SplitByWeight == focus = "splitter" => Sp!DrawnByWeight /\ Sp!DealtExactly /\ Sp!SelectionsCounted

\* Collector: no request is lost, a concurrent scrape shows no part greater than its
\* whole, and the exported histogram is the one of the recorded latencies.
MetricsTrue == focus = "collector" => Co!NothingLost /\ Co!PartsWithinWhole /\ Co!HistogramTrue
=============================================================================
