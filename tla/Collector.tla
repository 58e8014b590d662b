----------------------------- MODULE Collector -----------------------------
(***************************************************************************)
(* The metrics collector and its Prometheus exporter (internal/metrics).   *)
(* Every counter is an atomic of its own: RecordRequest adds to five of    *)
(* them one after the other while a scrape loads them one after the other. *)
(* A counter is named by its family, its backend and an index: for         *)
(* requests 0 is the total, 1 success and 2 failure; for latency it is the *)
(* bucket.                                                                 *)
(***************************************************************************)
EXTENDS Integers, Sequences, FiniteSets, SequencesExt, Functions

CONSTANTS
  Recorder,     \* goroutines that record requests
  Key,          \* backend addresses
  Boundaries,   \* latencyBucketMs, in increasing order
  Fraction,     \* units of a latency per millisecond (10^6 in the code)
  Latencies,    \* latencies that occur, in those units
  MaxRequests   \* bound: requests recorded

VARIABLES
  count,        \* the value of every counter
  created,      \* BackendMetrics objects made for each backend, 0 if it has none
  rec,          \* each recorder's call: the steps left and the object it holds
  scrape,       \* the scraper's call: the loads left and the values loaded
  raced,        \* a Reset overlapped another call
  lats          \* requests recorded per latency (history)

vars == <<count, created, rec, scrape, raced, lats>>

All == "all"
Buckets == 1..(Len(Boundaries) + 1)
RequestCounts(k) == {<<"requests", k, i>> : i \in 0..2}
Series == UNION {RequestCounts(k) : k \in Key \cup {All}} \cup {<<"latency", All, i>> : i \in Buckets}

Result(ok) == IF ok THEN 1 ELSE 2

\* Duration.Milliseconds drops the fraction.
Milliseconds(d) == d \div Fraction

\* Mutant of Bucket: a latency equal to a boundary goes one bucket up.
BucketStrict(d) ==
  LET fits == {i \in DOMAIN Boundaries : Milliseconds(d) < Boundaries[i]}
  IN  IF fits = {} THEN Len(Boundaries) + 1 ELSE Min(fits)

\* RecordLatency: the first boundary that holds its milliseconds, or the overflow
\* bucket.
Bucket(d) ==
  LET fits == {i \in DOMAIN Boundaries : Milliseconds(d) <= Boundaries[i]}
  IN  IF fits = {} THEN Len(Boundaries) + 1 ELSE Min(fits)

\* The order in which RecordRequest touches the collector.
RecordSteps(k, ok, d) ==
  << <<"requests", All, 0>>, <<"requests", All, Result(ok)>>, <<"lookup", k, 0>>,
     <<"requests", k, 0>>, <<"requests", k, Result(ok)>>, <<"latency", All, Bucket(d)>> >>

Init ==
  /\ count = [s \in Series |-> 0]
  /\ created = [k \in Key |-> 0]
  /\ rec = [r \in Recorder |-> [todo |-> <<>>, ptr |-> 0]]
  /\ scrape = [todo |-> <<>>, got |-> <<>>]
  /\ raced = FALSE
  /\ lats = [l \in Latencies |-> 0]

RecordRequest(r, k, ok, d) ==
  /\ rec[r].todo = <<>>
  /\ SumFunction(lats) < MaxRequests
  /\ lats' = [lats EXCEPT ![d] = @ + 1]
  /\ rec' = [rec EXCEPT ![r].todo = RecordSteps(k, ok, d)]
  /\ UNCHANGED <<count, created, scrape>>

Pending(r, family) == rec[r].todo # <<>> /\ Head(rec[r].todo)[1] = family

\* One atomic Add.  What is added to an object that is no longer in the map is
\* added to nothing a scrape will see.
Add(r) ==
  /\ rec[r].todo # <<>>
  /\ LET s == Head(rec[r].todo) IN
       /\ s \in Series
       /\ count' = IF s[2] \in Key /\ rec[r].ptr # created[s[2]]
                   THEN count ELSE [count EXCEPT ![s] = @ + 1]
  /\ rec' = [rec EXCEPT ![r] = [todo |-> Tail(@.todo), ptr |-> IF Len(@.todo) = 1 THEN 0 ELSE @.ptr]]
  /\ UNCHANGED <<created, scrape, lats>>

\* getOrCreateBackendMetrics under the read lock.
Lookup(r) ==
  /\ Pending(r, "lookup")
  /\ LET k == Head(rec[r].todo)[2] IN
       rec' = [rec EXCEPT ![r] =
                 IF created[k] > 0 THEN [todo |-> Tail(@.todo), ptr |-> created[k]]
                 ELSE [todo |-> <<<<"create", k, 0>>>> \o Tail(@.todo), ptr |-> 0]]
  /\ UNCHANGED <<count, created, scrape, lats>>

\* Mutant of Missing: no second look under the write lock.
MissingUnchecked(k) == TRUE

Missing(k) == created[k] = 0

\* ... and under the write lock, which a scrape of the backends excludes.
Create(r) ==
  /\ Pending(r, "create")
  /\ \A i \in DOMAIN scrape.todo : scrape.todo[i][2] = All
  /\ LET k == Head(rec[r].todo)[2] IN
       /\ created' = [created EXCEPT ![k] = IF Missing(k) THEN @ + 1 ELSE @]
       /\ count' = IF Missing(k) THEN [s \in RequestCounts(k) |-> 0] @@ count ELSE count
       /\ rec' = [rec EXCEPT ![r] = [todo |-> Tail(@.todo), ptr |-> created'[k]]]
  /\ UNCHANGED <<scrape, lats>>

Global == [i \in 1..3 |-> <<"requests", All, i - 1>>]
Histogram == [i \in Buckets |-> <<"latency", All, i>>]
ByBackend(ks) == FlattenSeq([i \in DOMAIN ks |-> [j \in 1..3 |-> <<"requests", ks[i], j - 1>>]])

\* Mutant of LoadOrder: the totals are loaded before their parts.
LoadOrderTotalsFirst(ks) == Global \o ByBackend(ks) \o Histogram

\* Snapshot: the backends, the histogram, then the totals.
LoadOrder(ks) == ByBackend(ks) \o Histogram \o Global

Snapshot ==
  /\ scrape.todo = <<>>
  /\ scrape' = [todo |-> LoadOrder(SetToSeq({k \in Key : created[k] > 0})), got |-> <<>>]
  /\ UNCHANGED <<count, created, rec, lats>>

Load ==
  /\ scrape.todo # <<>>
  /\ LET s == Head(scrape.todo) IN
       scrape' = [todo |-> Tail(scrape.todo), got |-> scrape.got @@ (s :> count[s])]
  /\ UNCHANGED <<count, created, rec, lats>>

Quiet == \A r \in Recorder : rec[r].todo = <<>>

\* Reset ("Useful for testing") clears everything when it is alone.  Nothing keeps
\* it from overlapping another call, whose counts it then clears in part, the
\* buckets by plain stores: the model ends there and says nothing of the rest.
Reset ==
  /\ raced' = (~Quiet \/ scrape.todo # <<>>)
  /\ count' = [s \in Series |-> 0]
  /\ created' = [k \in Key |-> 0]
  /\ rec' = [r \in Recorder |-> [todo |-> <<>>, ptr |-> 0]]
  /\ scrape' = [todo |-> <<>>, got |-> <<>>]
  /\ lats' = [l \in Latencies |-> 0]

Call ==
  \/ \E r \in Recorder, k \in Key, ok \in BOOLEAN, d \in Latencies : RecordRequest(r, k, ok, d)
  \/ \E r \in Recorder : Add(r) \/ Lookup(r) \/ Create(r)
  \/ Snapshot
  \/ Load

Next ==
  \/ ~raced /\ Call /\ UNCHANGED raced
  \/ ~raced /\ Reset

Spec == Init /\ [][Next]_vars
-----------------------------------------------------------------------------
(* The exporter *)

\* formatMs: whole seconds from 1000 ms on.
Label(ms) == IF ms >= 1000 THEN [n |-> ms \div 1000, unit |-> "s"] ELSE [n |-> ms, unit |-> "ms"]

\* writeHistogram: the boundary a label stands for, in milliseconds.
Le(label) == IF label.unit = "s" THEN label.n * 1000 ELSE label.n

\* The buckets as exported: in order of le, overflow last, each with the sum of
\* the counts up to it.
Exported(hist) ==
  LET order == SetToSortSeq(DOMAIN Boundaries,
                            LAMBDA i, j : Le(Label(Boundaries[i])) < Le(Label(Boundaries[j])))
              \o <<Len(Boundaries) + 1>>
  IN  [i \in DOMAIN order |->
         [le    |-> IF i = Len(order) THEN -1 ELSE Le(Label(Boundaries[order[i]])),
          value |-> SumFunctionOnSet(hist, {order[j] : j \in 1..i})]]
-----------------------------------------------------------------------------
(* Properties *)

\* Once no call is in progress nothing is missing: the total, the results, the
\* backends and the histogram agree, also when several requests were the first
\* of their backend at once.
NothingLost ==
  Quiet =>
    /\ \A k \in Key \cup {All} :
         count[<<"requests", k, 0>>] = count[<<"requests", k, 1>>] + count[<<"requests", k, 2>>]
    /\ count[<<"requests", All, 0>>] = SumFunction([k \in Key |-> count[<<"requests", k, 0>>]])
    /\ count[<<"requests", All, 0>>] = SumFunction([i \in Buckets |-> count[<<"latency", All, i>>]])

\* A scrape taken while requests are being recorded never shows parts that exceed
\* their whole: the exported successes and failures cover those of all backends,
\* and the histogram's count.
PartsWithinWhole ==
  scrape.todo = <<>> /\ scrape.got # <<>> =>
    LET got(s)  == IF s \in DOMAIN scrape.got THEN scrape.got[s] ELSE 0
        done(k) == got(<<"requests", k, 1>>) + got(<<"requests", k, 2>>)
    IN  /\ SumFunction([k \in Key |-> done(k)]) <= done(All)
        /\ SumFunction([i \in Buckets |-> got(<<"latency", All, i>>)]) <= done(All)

\* The exported histogram is right to the millisecond: the bucket labelled with a
\* boundary counts every recorded latency up to it and none that is a millisecond
\* or more above it, through labels, parsing and sorting, and the last one counts
\* them all.  What lies less than a millisecond above a boundary is counted under
\* it, although its label says less than or equal.
HistogramTrue ==
  Quiet =>
    LET out == Exported([i \in Buckets |-> count[<<"latency", All, i>>]])
    IN  /\ [i \in DOMAIN Boundaries |-> out[i].le] = Boundaries
        /\ \A i \in DOMAIN out :
             out[i].value = SumFunctionOnSet(lats, {l \in Latencies : i = Len(out) \/ l < (Boundaries[i] + 1) * Fraction})
=============================================================================
