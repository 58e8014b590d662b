------------------------------ MODULE Splitter ------------------------------
(***************************************************************************)
(* Traffic splitting (internal/splitter/splitter.go): Splitter draws a     *)
(* target at random by weight, SimpleSplitter deals pools out in turn.     *)
(* Every call holds its lock throughout, so it is one step; rand.Intn may  *)
(* return any value of its range.                                          *)
(***************************************************************************)
EXTENDS Integers, Sequences, SequencesExt, Functions

CONSTANTS
  TargetLists, \* what NewSplitter and UpdateTargets are called with
  PoolWeights, \* weights of the pools that AddPool adds
  CountMod,    \* 2^64 in the code: the pool counter wraps
  MaxSelects,  \* bound: calls of Select between two updates
  MaxPools     \* bound: pools

VARIABLES
  targets,     \* Splitter.targets
  selections,  \* Splitter.selections
  selects,     \* calls of Select since the last update (history)
  pools,       \* the weights of SimpleSplitter.pools
  poolCounter, \* SimpleSplitter.counter
  dealt        \* calls of Route per pool in this cycle (history)

vars == <<targets, selections, selects, pools, poolCounter, dealt>>

\* totalWeight of a sequence of weights.
TotalOf(ws) == SumFunction(ws)
Weights(ts) == [i \in DOMAIN ts |-> ts[i].weight]

\* What NewSplitter and UpdateTargets accept.
Valid(ts) == ts # <<>> /\ \A i \in DOMAIN ts : ts[i].weight > 0

Names(ts) == {ts[i].name : i \in DOMAIN ts}

Init ==
  /\ targets \in {ts \in TargetLists : Valid(ts)}
  /\ selections = [n \in Names(targets) |-> 0]
  /\ selects = 0
  /\ pools = <<>>
  /\ poolCounter = 0
  /\ dealt = <<>>

\* Mutant of Covers: the comparison is off by one.
CoversOne(ws, i, r) == r <= TotalOf(SubSeq(ws, 1, i))

\* Position r falls within the first i weights.
Covers(ws, i, r) == r < TotalOf(SubSeq(ws, 1, i))

\* The walk both splitters make: the first place whose cumulative weight exceeds
\* r, or the last one.
Walk(ws, r) ==
  LET hits == {i \in DOMAIN ws : Covers(ws, i, r)}
  IN  IF hits = {} THEN Len(ws) ELSE Min(hits)

\* A single target is taken without a draw.
Select ==
  /\ selects < MaxSelects
  /\ \E r \in 0..(TotalOf(Weights(targets)) - 1) :
       LET t == targets[IF Len(targets) = 1 THEN 1 ELSE Walk(Weights(targets), r)]
       IN  selections' = [selections EXCEPT ![t.name] = @ + 1]
  /\ selects' = selects + 1
  /\ UNCHANGED <<targets, pools, poolCounter, dealt>>

\* Mutant of Rejected: the counters are gone before the targets are checked.
RejectedLate(ts) == selections' = [n \in DOMAIN selections |-> 0] /\ UNCHANGED <<targets, selects>>

Rejected(ts) == UNCHANGED <<targets, selections, selects>>

\* A list that is not valid changes nothing.
UpdateTargets(ts) ==
  /\ IF Valid(ts) THEN /\ targets' = ts
                       /\ selections' = [n \in Names(ts) |-> 0]
                       /\ selects' = 0
                  ELSE Rejected(ts)
  /\ UNCHANGED <<pools, poolCounter, dealt>>

AddPool(w) ==
  /\ Len(pools) < MaxPools
  /\ pools' = Append(pools, w)
  /\ dealt' = [i \in 1..(Len(pools) + 1) |-> 0]
  /\ UNCHANGED <<targets, selections, selects, poolCounter>>

\* Route with a pool to return; without one it returns nil and counts nothing.
Route ==
  /\ TotalOf(pools) # 0
  /\ poolCounter' = (poolCounter + 1) % CountMod
  /\ LET p    == Walk(pools, poolCounter' % TotalOf(pools))
         base == IF poolCounter' = 0 \/ TotalOf(dealt) = TotalOf(pools)
                 THEN [i \in DOMAIN pools |-> 0] ELSE dealt
     IN  dealt' = [base EXCEPT ![p] = @ + 1]
  /\ UNCHANGED <<targets, selections, selects, pools>>

Next ==
  \/ Select
  \/ \E ts \in TargetLists : UpdateTargets(ts)
  \/ \E w \in PoolWeights : AddPool(w)
  \/ Route

Spec == Init /\ [][Next]_vars
-----------------------------------------------------------------------------
(* Properties *)

\* Every selection since the last accepted update is counted once, under a name
\* of the list in use: a rejected update loses none (UpdateTargets, Stats).
SelectionsCounted ==
  /\ Valid(targets) /\ DOMAIN selections = Names(targets)
  /\ SumFunction(selections) = selects

\* Each target is drawn for exactly as many values of the random number as its
\* weight.
DrawnByWeight ==
  \A i \in DOMAIN targets :
    Cardinality({r \in 0..(TotalOf(Weights(targets)) - 1) :
                   Walk(Weights(targets), r) = i})
      = targets[i].weight

\* Any run of as many Route calls as the weights add up to gives each pool
\* exactly its weight, a pool of weight zero nothing, wherever the run begins
\* (counting from the last AddPool or wrap of the counter).
DealtExactly ==
  pools # <<>> /\ TotalOf(dealt) = TotalOf(pools) => dealt = pools
=============================================================================
