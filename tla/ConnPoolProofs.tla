--------------------------- MODULE ConnPoolProofs ---------------------------
(***************************************************************************)
(* The safety of the connection pool for every number of users and         *)
(* connections, every pool configuration, and any number of dials.         *)
(***************************************************************************)
EXTENDS ConnPool, FiniteSetTheorems, SequenceTheorems, TLAPS

\* A user refers to a connection exactly between obtaining and releasing it.
HandleByPC ==
  \A u \in User : handle[u] = NoConn <=> pc[u] \in {"out", "get", "dialing"}

\* Two users never refer to the same connection.
OneHolder ==
  \A u, v \in User : handle[u] = handle[v] /\ handle[u] # NoConn => u = v

\* The counter between the end of Dial and the update in Close.
ActiveExact ==
  activeConns = Cardinality({u \in User : pc[u] \in {"held", "closing"}})

\* What a user knows of the connection it refers to.  Close's local copy of
\* halfClosed stays right because CloseWrite does nothing once returned is set.
HolderView ==
  \A u \in User : handle[u] # NoConn =>
    LET c == handle[u] IN
    /\ sock[c] = IF halfClosed[c] THEN "fin" ELSE "open"
    /\ returned[c] <=> pc[u] \in {"reuse", "closing", "putting"}
    /\ pc[u] = "reuse" => ~halfClosed[c]
    /\ pc[u] \in {"closing", "putting"} => (snapshot[u] <=> halfClosed[c])

\* A late CloseWrite finds nothing to do: a socket that is closed, and one that
\* was never opened, cannot be half-closed by it.
LateWriters ==
  /\ \A c \in Conn : sock[c] = "closed" => returned[c]
  /\ \A c \in Conn : sock[c] = "none" => ~halfClosed[c] /\ ~returned[c]
  /\ \A u \in User : writer[u] # NoConn => sock[writer[u]] # "none"

\* With Close waiting for the copy goroutine, FIN comes before Close.
FinFirst ==
  halfCloseFirst =>
    /\ NeverPooled
    /\ \A u \in User :
         /\ pc[u] # "reuse"
         /\ writer[u] # NoConn => pc[u] = "held" /\ handle[u] = writer[u]
         /\ pc[u] = "held" /\ writer[u] = NoConn => halfClosed[handle[u]]
         /\ pc[u] \in {"closing", "putting"} => snapshot[u]

IndInv ==
  /\ PoolTypeOK
  /\ HandleByPC
  /\ OneHolder
  /\ HolderView
  /\ LateWriters
  /\ PoolClean
  /\ FinFirst
  /\ ActiveExact

-----------------------------------------------------------------------------
\* The users that ActiveExact counts are a finite set.
LEMMA ActiveFinite ==
  ASSUME NEW S \in SUBSET User
  PROVE  IsFiniteSet(S) /\ Cardinality(S) \in Nat
BY PoolAssumption, FS_Subset, FS_CardinalityType

\* A fresh backend satisfies the invariant.
LEMMA InitInd == PoolInit => IndInv
<1> SUFFICES ASSUME PoolInit PROVE IndInv
  OBVIOUS
<1> USE PoolAssumption DEF PoolInit
<1>1. PoolTypeOK
  BY DEF PoolTypeOK, PC, Metric
<1>2. ActiveExact
  <2>1. {u \in User : pc[u] \in {"held", "closing"}} = {}
    OBVIOUS
  <2> QED
    BY <2>1, FS_EmptySet DEF ActiveExact
<1>3. PoolClean /\ NeverPooled
  BY DEF PoolClean, NeverPooled, Metric
<1> QED
  BY <1>1, <1>2, <1>3 DEF IndInv, HandleByPC, OneHolder, HolderView,
     LateWriters, FinFirst

\* The users counted by ActiveExact.
Active == {u \in User : pc[u] \in {"held", "closing"}}

\* Steps outside Checkout and CloseRelease leave the counted users alone.
LEMMA SameActive ==
  ASSUME IndInv, Active' = Active, UNCHANGED activeConns
  PROVE  ActiveExact'
BY DEF IndInv, ActiveExact, Active

\* Counting keeps the metrics' type.
LEMMA CountType ==
  ASSUME NEW f \in Metric, metrics \in [Metric -> Nat], Count(f)
  PROVE  metrics' \in [Metric -> Nat]
BY DEF Count

\* Counting one metric leaves the others alone.
LEMMA CountOther ==
  ASSUME NEW f \in Metric, NEW g \in Metric, f # g,
         metrics \in [Metric -> Nat], Count(f)
  PROVE  metrics'[g] = metrics[g]
BY DEF Count

\* Counting a miss and the dial that follows it.
LEMMA CountTwoType ==
  ASSUME NEW f \in Metric, NEW g \in Metric, metrics \in [Metric -> Nat],
         metrics' = [metrics EXCEPT ![f] = @ + 1, ![g] = @ + 1]
  PROVE  metrics' \in [Metric -> Nat]
OBVIOUS

\* Receiving from the channel takes its head and shifts the rest.
LEMMA ReceiveFacts ==
  ASSUME idle \in Seq(Conn), idle # << >>, Received
  PROVE  /\ idle' \in Seq(Conn)
         /\ Len(idle) \in Nat \ {0} /\ Len(idle') = Len(idle) - 1
         /\ Head(idle) = idle[1] /\ Head(idle) \in Conn
         /\ \A i \in 1..Len(idle') : idle'[i] = idle[i + 1]
BY HeadTailProperties, EmptySeq DEF Received

\* A user past get and dial has a connection.
LEMMA Holds ==
  ASSUME IndInv, NEW u \in User, pc[u] \notin {"out", "get", "dialing"}
  PROVE  handle[u] \in Conn /\ handle[u] # NoConn
BY DEF IndInv, PoolTypeOK, HandleByPC

\* Dial calls get, or dials at once.
LEMMA DialInd ==
  ASSUME IndInv, NEW u \in User, Dial(u), UNCHANGED halfCloseFirst
  PROVE  IndInv'
<1> USE PoolAssumption DEF IndInv, Dial, Goto, conns, users
<1>1. PoolTypeOK'
  <2>1. metrics' \in [Metric -> Nat]
    BY CountType DEF PoolTypeOK, Metric
  <2> QED
    BY <2>1 DEF PoolTypeOK, PC
<1>2. HandleByPC'
  BY DEF PoolTypeOK, HandleByPC
<1>3. OneHolder'
  BY DEF PoolTypeOK, HandleByPC, OneHolder
<1>4. HolderView'
  BY DEF PoolTypeOK, HandleByPC, HolderView
<1>5. LateWriters'
  BY DEF PoolTypeOK, HolderView, LateWriters
<1>6. PoolClean'
  BY DEF PoolClean
<1>7. FinFirst'
  <2>1. metrics'["hits"] = metrics["hits"]
    BY CountOther DEF PoolTypeOK, Metric
  <2> QED
    BY <2>1 DEF PoolTypeOK, HandleByPC, FinFirst, NeverPooled
<1>8. ActiveExact'
  BY SameActive DEF PoolTypeOK, Active
<1> QED
  BY <1>1, <1>2, <1>3, <1>4, <1>5, <1>6, <1>7, <1>8

\* Discarding an idle connection.
LEMMA GetDropInd ==
  ASSUME IndInv, NEW u \in User, GetDrop(u), UNCHANGED halfCloseFirst
  PROVE  IndInv'
<1> USE PoolAssumption DEF IndInv, GetDrop, conns, users
<1>0. idle' \in Seq(Conn) /\ Len(idle) \in Nat \ {0} /\ Len(idle') = Len(idle) - 1
      /\ Head(idle) = idle[1] /\ Head(idle) \in Conn
      /\ \A i \in 1..Len(idle') : idle'[i] = idle[i + 1]
  BY ReceiveFacts DEF PoolTypeOK
<1>a. /\ sock[Head(idle)] = "open" /\ returned[Head(idle)]
      /\ ~halfClosed[Head(idle)] /\ \A v \in User : handle[v] # Head(idle)
  BY <1>0 DEF PoolClean
<1>b. ASSUME NEW i \in 1..Len(idle')
      PROVE  /\ i + 1 \in 1..Len(idle) /\ idle'[i] = idle[i + 1]
             /\ idle'[i] # Head(idle) /\ idle'[i] \in Conn
  <2>1. i + 1 \in 1..Len(idle) /\ 1 \in 1..Len(idle) /\ i + 1 # 1
    BY <1>0
  <2>2. idle'[i] = idle[i + 1]
    BY <1>0
  <2>4. idle[i + 1] \in Conn
    BY <2>1, ElementOfSeq DEF PoolTypeOK
  <2>3. idle[i + 1] # idle[1]
    BY <2>1 DEF PoolClean
  <2> QED
    BY <1>0, <2>1, <2>2, <2>3, <2>4
<1>1. PoolTypeOK'
  <2>1. metrics' \in [Metric -> Nat]
    BY CountType DEF PoolTypeOK, Metric
  <2>2. sock' \in [Conn -> {"none", "open", "fin", "closed"}]
    BY <1>0 DEF PoolTypeOK
  <2>3. idle' \in Seq(Conn) /\ Len(idle') <= MaxIdle
    BY <1>0 DEF PoolTypeOK
  <2> QED
    BY <2>1, <2>2, <2>3 DEF PoolTypeOK
<1>2. HandleByPC'
  BY DEF PoolTypeOK, HandleByPC
<1>3. OneHolder'
  BY DEF PoolTypeOK, HandleByPC, OneHolder
<1>4. HolderView'
  BY <1>0, <1>a DEF PoolTypeOK, HolderView
<1>5. LateWriters'
  BY <1>0, <1>a DEF PoolTypeOK, LateWriters
<1>6. PoolClean'
  <2>1. ASSUME NEW i \in 1..Len(idle')
        PROVE  /\ sock'[idle'[i]] = "open" /\ returned'[idle'[i]]
               /\ ~halfClosed'[idle'[i]] /\ \A v \in User : handle'[v] # idle'[i]
    <3>1. /\ i + 1 \in 1..Len(idle) /\ idle'[i] = idle[i + 1]
          /\ idle'[i] # Head(idle) /\ idle'[i] \in Conn
      BY <1>b
    <3>2. /\ sock[idle[i + 1]] = "open" /\ returned[idle[i + 1]]
          /\ ~halfClosed[idle[i + 1]] /\ \A v \in User : handle[v] # idle[i + 1]
      BY <3>1 DEF PoolClean
    <3> QED
      BY <1>0, <3>1, <3>2 DEF PoolTypeOK
  <2>2. ASSUME NEW i \in 1..Len(idle'), NEW j \in 1..Len(idle'), idle'[i] = idle'[j]
        PROVE  i = j
    <3>1. /\ i + 1 \in 1..Len(idle) /\ idle'[i] = idle[i + 1]
          /\ j + 1 \in 1..Len(idle) /\ idle'[j] = idle[j + 1]
      BY <1>b
    <3>2. i + 1 = j + 1
      BY <2>2, <3>1 DEF PoolClean
    <3> QED
      BY <1>0, <3>2
  <2> QED
    BY <2>1, <2>2 DEF PoolClean
<1>7. FinFirst'
  BY <1>0, EmptySeq DEF PoolTypeOK, FinFirst, NeverPooled
<1>8. ActiveExact'
  BY SameActive DEF PoolTypeOK, Active
<1> QED
  BY <1>1, <1>2, <1>3, <1>4, <1>5, <1>6, <1>7, <1>8

\* Taking an idle connection.
LEMMA GetHitInd ==
  ASSUME IndInv, NEW u \in User, GetHit(u), UNCHANGED halfCloseFirst
  PROVE  IndInv'
<1> USE PoolAssumption DEF IndInv, GetHit, Goto, conns, users
<1>0. idle' \in Seq(Conn) /\ Len(idle) \in Nat \ {0} /\ Len(idle') = Len(idle) - 1
      /\ Head(idle) = idle[1] /\ Head(idle) \in Conn
      /\ \A i \in 1..Len(idle') : idle'[i] = idle[i + 1]
  BY ReceiveFacts DEF PoolTypeOK
<1>a. /\ sock[Head(idle)] = "open" /\ returned[Head(idle)]
      /\ ~halfClosed[Head(idle)] /\ \A v \in User : handle[v] # Head(idle)
  BY <1>0 DEF PoolClean
<1>b. ASSUME NEW i \in 1..Len(idle')
      PROVE  /\ i + 1 \in 1..Len(idle) /\ idle'[i] = idle[i + 1]
             /\ idle'[i] # Head(idle) /\ idle'[i] \in Conn
  <2>1. i + 1 \in 1..Len(idle) /\ 1 \in 1..Len(idle) /\ i + 1 # 1
    BY <1>0
  <2>2. idle'[i] = idle[i + 1]
    BY <1>0
  <2>4. idle[i + 1] \in Conn
    BY <2>1, ElementOfSeq DEF PoolTypeOK
  <2>3. idle[i + 1] # idle[1]
    BY <2>1 DEF PoolClean
  <2> QED
    BY <1>0, <2>1, <2>2, <2>3, <2>4
<1>1. PoolTypeOK'
  <2>1. metrics' \in [Metric -> Nat]
    BY CountType DEF PoolTypeOK, Metric
  <2>2. pc' \in [User -> PC] /\ handle' \in [User -> Conn \cup {NoConn}]
    BY <1>0 DEF PoolTypeOK, PC
  <2>3. idle' \in Seq(Conn) /\ Len(idle') <= MaxIdle
    BY <1>0 DEF PoolTypeOK
  <2> QED
    BY <2>1, <2>2, <2>3 DEF PoolTypeOK
<1>2. HandleByPC'
  BY <1>0 DEF PoolTypeOK, HandleByPC
<1>3. OneHolder'
  BY <1>0, <1>a DEF PoolTypeOK, OneHolder
<1>4. HolderView'
  BY <1>0, <1>a DEF PoolTypeOK, HandleByPC, HolderView
<1>5. LateWriters'
  BY DEF PoolTypeOK, LateWriters
<1>6. PoolClean'
  <2>1. ASSUME NEW i \in 1..Len(idle')
        PROVE  /\ sock'[idle'[i]] = "open" /\ returned'[idle'[i]]
               /\ ~halfClosed'[idle'[i]] /\ \A v \in User : handle'[v] # idle'[i]
    <3>1. /\ i + 1 \in 1..Len(idle) /\ idle'[i] = idle[i + 1]
          /\ idle'[i] # Head(idle) /\ idle'[i] \in Conn
      BY <1>b
    <3>2. /\ sock[idle[i + 1]] = "open" /\ returned[idle[i + 1]]
          /\ ~halfClosed[idle[i + 1]] /\ \A v \in User : handle[v] # idle[i + 1]
      BY <3>1 DEF PoolClean
    <3> QED
      BY <1>0, <3>1, <3>2 DEF PoolTypeOK
  <2>2. ASSUME NEW i \in 1..Len(idle'), NEW j \in 1..Len(idle'), idle'[i] = idle'[j]
        PROVE  i = j
    <3>1. /\ i + 1 \in 1..Len(idle) /\ idle'[i] = idle[i + 1]
          /\ j + 1 \in 1..Len(idle) /\ idle'[j] = idle[j + 1]
      BY <1>b
    <3>2. i + 1 = j + 1
      BY <2>2, <3>1 DEF PoolClean
    <3> QED
      BY <1>0, <3>2
  <2> QED
    BY <2>1, <2>2 DEF PoolClean
<1>7. FinFirst'
  BY DEF FinFirst, NeverPooled
<1>8. ActiveExact'
  BY SameActive DEF PoolTypeOK, Active
<1> QED
  BY <1>1, <1>2, <1>3, <1>4, <1>5, <1>6, <1>7, <1>8

\* Finding the pool empty.
LEMMA GetMissInd ==
  ASSUME IndInv, NEW u \in User, GetMiss(u), UNCHANGED halfCloseFirst
  PROVE  IndInv'
<1> USE PoolAssumption DEF IndInv, GetMiss, Goto, conns, users
<1>1. PoolTypeOK'
  <2>1. metrics' \in [Metric -> Nat]
    BY CountTwoType DEF PoolTypeOK, Metric
  <2> QED
    BY <2>1 DEF PoolTypeOK, PC
<1>2. HandleByPC'
  BY DEF PoolTypeOK, HandleByPC
<1>3. OneHolder'
  BY DEF PoolTypeOK, HandleByPC, OneHolder
<1>4. HolderView'
  BY DEF PoolTypeOK, HandleByPC, HolderView
<1>5. LateWriters'
  BY DEF PoolTypeOK, HolderView, LateWriters
<1>6. PoolClean'
  BY DEF PoolClean
<1>7. FinFirst'
  BY DEF PoolTypeOK, FinFirst, NeverPooled, Metric
<1>8. ActiveExact'
  BY SameActive DEF PoolTypeOK, Active
<1> QED
  BY <1>1, <1>2, <1>3, <1>4, <1>5, <1>6, <1>7, <1>8

\* Marking the connection as checked out again.
LEMMA ReuseInd ==
  ASSUME IndInv, NEW u \in User, Reuse(u), UNCHANGED halfCloseFirst
  PROVE  IndInv'
<1>0. handle[u] \in Conn /\ handle[u] # NoConn
  BY Holds DEF Reuse
<1> USE PoolAssumption DEF IndInv, Reuse, Goto, conns, users
<1>1. PoolTypeOK'
  BY <1>0 DEF PoolTypeOK, PC
<1>2. HandleByPC'
  BY DEF PoolTypeOK, HandleByPC
<1>3. OneHolder'
  BY DEF PoolTypeOK, HandleByPC, OneHolder
<1>4. HolderView'
  BY DEF PoolTypeOK, HandleByPC, OneHolder, HolderView
<1>5. LateWriters'
  BY DEF PoolTypeOK, HolderView, LateWriters
<1>6. PoolClean'
  BY DEF PoolClean
<1>7. FinFirst'
  BY DEF PoolTypeOK, FinFirst, NeverPooled
<1>8. ActiveExact'
  BY SameActive DEF PoolTypeOK, Active
<1> QED
  BY <1>1, <1>2, <1>3, <1>4, <1>5, <1>6, <1>7, <1>8

\* A failed dial.
LEMMA DialFailInd ==
  ASSUME IndInv, NEW u \in User, DialFail(u), UNCHANGED halfCloseFirst
  PROVE  IndInv'
<1> USE PoolAssumption DEF IndInv, DialFail, Goto, conns, users
<1>1. PoolTypeOK'
  <2>1. metrics' \in [Metric -> Nat]
    BY CountType DEF PoolTypeOK, Metric
  <2> QED
    BY <2>1 DEF PoolTypeOK, PC
<1>2. HandleByPC'
  BY DEF PoolTypeOK, HandleByPC
<1>3. OneHolder'
  BY DEF PoolTypeOK, HandleByPC, OneHolder
<1>4. HolderView'
  BY DEF PoolTypeOK, HandleByPC, HolderView
<1>5. LateWriters'
  BY DEF PoolTypeOK, HolderView, LateWriters
<1>6. PoolClean'
  BY DEF PoolClean
<1>7. FinFirst'
  <2>1. metrics'["hits"] = metrics["hits"]
    BY CountOther DEF PoolTypeOK, Metric
  <2> QED
    BY <2>1 DEF PoolTypeOK, HandleByPC, FinFirst, NeverPooled
<1>8. ActiveExact'
  BY SameActive DEF PoolTypeOK, Active
<1> QED
  BY <1>1, <1>2, <1>3, <1>4, <1>5, <1>6, <1>7, <1>8

\* A successful dial.
LEMMA DialOKInd ==
  ASSUME IndInv, NEW u \in User, NEW k \in Conn, DialOK(u, k), UNCHANGED halfCloseFirst
  PROVE  IndInv'
<1> USE PoolAssumption DEF IndInv, DialOK, Goto, conns, users
<1>1. PoolTypeOK'
  BY DEF PoolTypeOK, PC
<1>2. HandleByPC'
  BY DEF PoolTypeOK, HandleByPC
<1>3. OneHolder'
  <2>1. \A v \in User : handle[v] # NoConn => sock[handle[v]] # "none"
    BY DEF HolderView
  <2>2. \A v \in User : handle[v] # k
    BY <2>1
  <2> QED
    BY <2>2 DEF PoolTypeOK, OneHolder
<1>4. HolderView'
  BY DEF PoolTypeOK, HandleByPC, HolderView, LateWriters
<1>5. LateWriters'
  BY DEF PoolTypeOK, HolderView, LateWriters
<1>6. PoolClean'
  <2>1. ASSUME NEW i \in 1..Len(idle)
        PROVE  idle[i] \in Conn /\ idle[i] # k
    <3>1. idle[i] \in Conn
      BY ElementOfSeq DEF PoolTypeOK
    <3> QED BY <3>1 DEF PoolClean
  <2>2. \A v \in User : handle'[v] = IF v = u THEN k ELSE handle[v]
    BY DEF PoolTypeOK
  <2>3. \A x \in Conn : x # k => sock'[x] = sock[x]
    BY DEF PoolTypeOK
  <2>4. idle' = idle /\ returned' = returned /\ halfClosed' = halfClosed /\ PoolClean
    OBVIOUS
  <2>5. ASSUME NEW i \in 1..Len(idle)
        PROVE  /\ sock'[idle[i]] = "open" /\ returned[idle[i]] /\ ~halfClosed[idle[i]]
               /\ \A v \in User : handle'[v] # idle[i]
    BY ONLY <2>1, <2>2, <2>3, <2>4 DEF PoolClean
  <2> QED
    BY ONLY <2>4, <2>5 DEF PoolClean
<1>7. FinFirst'
  BY DEF PoolTypeOK, FinFirst, NeverPooled
<1>8. ActiveExact'
  BY SameActive DEF PoolTypeOK, Active
<1> QED
  BY <1>1, <1>2, <1>3, <1>4, <1>5, <1>6, <1>7, <1>8

\* The checkout is counted.
LEMMA CheckoutInd ==
  ASSUME IndInv, NEW u \in User, Checkout(u), UNCHANGED halfCloseFirst
  PROVE  IndInv'
<1>0. handle[u] \in Conn /\ handle[u] # NoConn
  BY Holds DEF Checkout
<1> USE PoolAssumption DEF IndInv, Checkout, Goto, conns, users
<1>1. PoolTypeOK'
  <2>1. writer' \in [User -> Conn \cup {NoConn}]
    BY <1>0 DEF PoolTypeOK
  <2>2. pc' \in [User -> PC] /\ activeConns' \in Int
    BY DEF PoolTypeOK, PC
  <2> QED
    BY <2>1, <2>2 DEF PoolTypeOK
<1>2. HandleByPC'
  BY DEF PoolTypeOK, HandleByPC
<1>3. OneHolder'
  BY DEF PoolTypeOK, HandleByPC, OneHolder
<1>4. HolderView'
  BY DEF PoolTypeOK, HandleByPC, HolderView
<1>5. LateWriters'
  <2>1. sock[handle[u]] # "none"
    BY <1>0 DEF HolderView
  <2> QED
    BY <1>0, <2>1 DEF PoolTypeOK, LateWriters
<1>6. PoolClean'
  BY DEF PoolClean
<1>7. FinFirst'
  <2> SUFFICES ASSUME halfCloseFirst PROVE FinFirst'
    BY DEF FinFirst
  <2>1. writer' = [writer EXCEPT ![u] = handle[u]]
    OBVIOUS
  <2> QED
    BY <1>0, <2>1 DEF PoolTypeOK, FinFirst, NeverPooled
<1>8. ActiveExact'
  <2>1. Active' = Active \cup {u} /\ u \notin Active
    BY DEF PoolTypeOK, Active
  <2>2. Cardinality(Active') = Cardinality(Active) + 1
    BY <2>1, ActiveFinite, FS_AddElement DEF Active
  <2> QED
    BY <2>2 DEF ActiveExact, Active
<1> QED
  BY <1>1, <1>2, <1>3, <1>4, <1>5, <1>6, <1>7, <1>8

\* What happens to a connection outside the pool leaves the pool clean.
LEMMA OutsidePool ==
  ASSUME PoolTypeOK, PoolClean, NEW c,
         \A i \in 1..Len(idle) : idle[i] # c,
         \A d \in Conn : d # c =>
           sock'[d] = sock[d] /\ returned'[d] = returned[d] /\ halfClosed'[d] = halfClosed[d],
         \A v \in User : handle'[v] = handle[v] \/ handle'[v] = NoConn,
         idle' = idle
  PROVE  PoolClean'
<1>1. \A i \in 1..Len(idle) : idle[i] \in Conn /\ idle[i] # NoConn
  <2>1. idle \in Seq(Conn)
    BY DEF PoolTypeOK
  <2> QED
    BY ONLY <2>1, ElementOfSeq, PoolAssumption
<1>2. ASSUME NEW i \in 1..Len(idle)
      PROVE  /\ sock'[idle[i]] = "open"
             /\ returned'[idle[i]]
             /\ ~halfClosed'[idle[i]]
             /\ \A v \in User : handle'[v] # idle[i]
  BY <1>1, <1>2 DEF PoolClean
<1> QED
  BY <1>2 DEF PoolClean

\* The critical section of Close.
LEMMA CloseInd ==
  ASSUME IndInv, NEW u \in User, Close(u), UNCHANGED halfCloseFirst
  PROVE  IndInv'
<1>0. /\ handle[u] \in Conn /\ handle[u] # NoConn
      /\ ~returned[handle[u]]
      /\ sock[handle[u]] \in {"open", "fin"}
  <2>1. handle[u] \in Conn /\ handle[u] # NoConn /\ pc[u] = "held"
    BY Holds DEF Close
  <2> QED BY <2>1 DEF IndInv, HolderView
<1> USE PoolAssumption DEF IndInv, Close, Goto, conns, users
<1>a. /\ pc' = [pc EXCEPT ![u] = "closing"]
      /\ returned' = [returned EXCEPT ![handle[u]] = TRUE]
      /\ snapshot' = [snapshot EXCEPT ![u] = halfClosed[handle[u]]]
      /\ UNCHANGED handle
  BY <1>0
<1>1. PoolTypeOK'
  BY <1>0, <1>a DEF PoolTypeOK, PC
<1>2. HandleByPC'
  BY <1>a DEF PoolTypeOK, HandleByPC
<1>3. OneHolder'
  BY <1>a DEF OneHolder
<1>4. HolderView'
  BY <1>0, <1>a DEF PoolTypeOK, OneHolder, HolderView
<1>5. LateWriters'
  BY <1>0, <1>a DEF PoolTypeOK, LateWriters
<1>6. PoolClean'
  <2>1. \A i \in 1..Len(idle) : idle[i] # handle[u]
    BY DEF PoolClean
  <2>2. \A d \in Conn : d # handle[u] => returned'[d] = returned[d]
    BY <1>a DEF PoolTypeOK
  <2>3. UNCHANGED <<sock, halfClosed, idle, handle>>
    BY <1>a
  <2>4. PoolTypeOK /\ PoolClean
    OBVIOUS
  <2> QED
    BY ONLY <2>1, <2>2, <2>3, <2>4, OutsidePool
<1>7. FinFirst'
  BY <1>0, <1>a DEF PoolTypeOK, FinFirst, NeverPooled
<1>8. ActiveExact'
  BY <1>a, SameActive DEF PoolTypeOK, Active
<1> QED
  BY <1>1, <1>2, <1>3, <1>4, <1>5, <1>6, <1>7, <1>8

\* The counter update of Close.
LEMMA CloseReleaseInd ==
  ASSUME IndInv, NEW u \in User, CloseRelease(u), UNCHANGED halfCloseFirst
  PROVE  IndInv'
<1>0. handle[u] \in Conn /\ handle[u] # NoConn
  BY Holds DEF CloseRelease
<1> USE PoolAssumption DEF IndInv, CloseRelease, Release, Goto, conns, users
<1>1. PoolTypeOK'
  BY DEF PoolTypeOK, PC
<1>2. HandleByPC'
  BY DEF PoolTypeOK, HandleByPC
<1>3. OneHolder'
  BY DEF PoolTypeOK, HandleByPC, OneHolder
<1>4. HolderView'
  BY DEF PoolTypeOK, HandleByPC, HolderView
<1>5. LateWriters'
  BY DEF PoolTypeOK, HolderView, LateWriters
<1>6. PoolClean'
  BY DEF PoolClean
<1>7. FinFirst'
  BY DEF PoolTypeOK, FinFirst, NeverPooled
<1>8. ActiveExact'
  <2>1. Active' = Active \ {u} /\ u \in Active
    BY DEF PoolTypeOK, Active
  <2>2. Cardinality(Active') = Cardinality(Active) - 1
    <3>1. Active \in SUBSET User
      BY DEF Active
    <3> QED
      BY ONLY <2>1, <3>1, ActiveFinite, FS_RemoveElement
  <2> QED
    BY <2>2 DEF ActiveExact, Active
<1> QED
  BY <1>1, <1>2, <1>3, <1>4, <1>5, <1>6, <1>7, <1>8

\* The end of Close: the connection is pooled or closed.
LEMMA CloseFinishInd ==
  ASSUME IndInv, NEW u \in User, CloseFinish(u), UNCHANGED halfCloseFirst
  PROVE  IndInv'
<1>0. handle[u] \in Conn /\ handle[u] # NoConn
  BY Holds DEF CloseFinish
<1> USE PoolAssumption DEF IndInv, CloseFinish, Goto, conns, users
<1>1. PoolTypeOK'
  <2>1. CASE CloseReturn(u)
    <3>1. metrics' \in [Metric -> Nat]
      BY <2>1, CountType DEF PoolTypeOK, Metric, CloseReturn
    <3>2. idle' \in Seq(Conn) /\ Len(idle') <= MaxIdle
      BY <1>0, <2>1, AppendProperties, LenProperties DEF PoolTypeOK, CloseReturn, PoolHasRoom
    <3> QED
      BY <2>1, <3>1, <3>2 DEF PoolTypeOK, PC, CloseReturn
  <2>2. CASE CloseDrop(u)
    <3>1. metrics' \in [Metric -> Nat]
      BY <2>2, CountType DEF PoolTypeOK, Metric, CloseDrop
    <3> QED
      BY <1>0, <2>2, <3>1 DEF PoolTypeOK, PC, CloseDrop
  <2>3. CASE CloseSocket(u)
    BY <1>0, <2>3 DEF PoolTypeOK, PC, CloseSocket
  <2> QED
    BY <2>1, <2>2, <2>3
<1>2. HandleByPC'
  BY DEF PoolTypeOK, HandleByPC
<1>3. OneHolder'
  BY DEF PoolTypeOK, HandleByPC, OneHolder
<1>4. HolderView'
  BY <1>0 DEF PoolTypeOK, OneHolder, HolderView, CloseReturn, CloseDrop, CloseSocket
<1>5. LateWriters'
  <2>1. CASE CloseReturn(u)
    BY <2>1 DEF LateWriters, CloseReturn
  <2>2. CASE CloseDrop(u) \/ CloseSocket(u)
    <3>1. returned[handle[u]] /\ sock' = [sock EXCEPT ![handle[u]] = "closed"]
      BY <1>0, <2>2 DEF HolderView, CloseDrop, CloseSocket
    <3>2. UNCHANGED <<returned, halfClosed, writer>>
      BY <2>2 DEF CloseDrop, CloseSocket
    <3> QED
      BY <1>0, <3>1, <3>2 DEF PoolTypeOK, LateWriters
  <2> QED
    BY <2>1, <2>2
<1>6. PoolClean'
  <2>1. CASE CloseReturn(u)
    <3>1. /\ Len(idle) \in Nat /\ Len(idle') = Len(idle) + 1
          /\ \A i \in 1..Len(idle) : idle'[i] = idle[i]
          /\ idle'[Len(idle) + 1] = handle[u]
      <4>1. idle \in Seq(Conn) /\ handle[u] \in Conn /\ idle' = Append(idle, handle[u])
        BY <1>0, <2>1 DEF PoolTypeOK, CloseReturn
      <4> QED BY ONLY <4>1, AppendProperties, LenProperties
    <3>2. /\ sock[handle[u]] = "open" /\ returned[handle[u]]
          /\ ~halfClosed[handle[u]]
          /\ \A v \in User : v # u => handle[v] # handle[u]
      BY <1>0, <2>1 DEF PoolTypeOK, OneHolder, HolderView, CloseReturn, Poolable
    <3>3. ASSUME NEW i \in 1..Len(idle')
          PROVE  \/ i \in 1..Len(idle) /\ idle'[i] = idle[i] /\ idle[i] # handle[u]
                 \/ i = Len(idle) + 1 /\ idle'[i] = handle[u]
      <4>1. CASE i \in 1..Len(idle)
        <5>1. idle[i] # handle[u]
          BY <4>1 DEF PoolClean
        <5> QED BY ONLY <3>1, <4>1, <5>1
      <4>2. CASE i \notin 1..Len(idle)
        <5>1. i = Len(idle) + 1
          BY ONLY <3>1, <4>2, i \in 1..Len(idle')
        <5> QED BY ONLY <3>1, <5>1
      <4> QED BY ONLY <4>1, <4>2
    <3>4. ASSUME NEW i \in 1..Len(idle')
          PROVE  /\ sock'[idle'[i]] = "open" /\ returned'[idle'[i]]
                 /\ ~halfClosed'[idle'[i]]
                 /\ \A v \in User : handle'[v] # idle'[i]
      <4>1. sock' = sock /\ returned' = returned /\ halfClosed' = halfClosed
        BY <2>1 DEF CloseReturn
      <4>2. /\ sock[idle'[i]] = "open" /\ returned[idle'[i]] /\ ~halfClosed[idle'[i]]
            /\ \A v \in User : v # u => handle[v] # idle'[i]
        <5>1. CASE i \in 1..Len(idle) /\ idle'[i] = idle[i]
          <6>1. PoolClean
            OBVIOUS
          <6> QED BY ONLY <5>1, <6>1 DEF PoolClean
        <5>2. CASE idle'[i] = handle[u]
          BY ONLY <3>2, <5>2
        <5> QED BY ONLY <3>3, <5>1, <5>2
      <4>3. \A v \in User : handle'[v] = IF v = u THEN NoConn ELSE handle[v]
        BY DEF PoolTypeOK
      <4>4. idle'[i] # NoConn
        <5>1. CASE i \in 1..Len(idle) /\ idle'[i] = idle[i]
          <6>1. idle[i] \in Conn
            BY <5>1, ElementOfSeq DEF PoolTypeOK
          <6> QED BY ONLY <5>1, <6>1, PoolAssumption
        <5>2. CASE idle'[i] = handle[u]
          BY <1>0, <5>2
        <5> QED BY ONLY <3>3, <5>1, <5>2
      <4> QED
        BY ONLY <4>1, <4>2, <4>3, <4>4
    <3>5. ASSUME NEW i \in 1..Len(idle'), NEW j \in 1..Len(idle'), idle'[i] = idle'[j]
          PROVE  i = j
      BY <3>3, <3>5 DEF PoolClean
    <3> QED
      BY <3>4, <3>5 DEF PoolClean
  <2>2. CASE CloseDrop(u) \/ CloseSocket(u)
    <3>1. idle' = idle /\ sock' = [sock EXCEPT ![handle[u]] = "closed"]
      BY <2>2 DEF CloseDrop, CloseSocket
    <3>2. \A i \in 1..Len(idle) : idle[i] # handle[u]
      BY DEF PoolClean
    <3>3. /\ \A d \in Conn : d # handle[u] => sock'[d] = sock[d]
          /\ returned' = returned /\ halfClosed' = halfClosed
      BY <2>2, <3>1 DEF PoolTypeOK, CloseDrop, CloseSocket
    <3>4. \A v \in User : handle'[v] = handle[v] \/ handle'[v] = NoConn
      BY DEF PoolTypeOK
    <3>5. PoolTypeOK /\ PoolClean
      OBVIOUS
    <3> QED
      BY ONLY <3>1, <3>2, <3>3, <3>4, <3>5, OutsidePool
  <2> QED
    BY <2>1, <2>2
<1>7. FinFirst'
  <2> SUFFICES ASSUME halfCloseFirst PROVE FinFirst'
    BY DEF FinFirst
  <2>1. CloseSocket(u)
    BY DEF FinFirst, CloseReturn, CloseDrop, Poolable
  <2> QED
    BY <1>0, <2>1 DEF PoolTypeOK, FinFirst, NeverPooled, CloseSocket
<1>8. ActiveExact'
  BY SameActive DEF PoolTypeOK, Active, CloseReturn, CloseDrop, CloseSocket
<1> QED
  BY <1>1, <1>2, <1>3, <1>4, <1>5, <1>6, <1>7, <1>8

\* CloseWrite, in time or late.
LEMMA CloseWriteInd ==
  ASSUME IndInv, NEW u \in User, CloseWrite(u), UNCHANGED halfCloseFirst
  PROVE  IndInv'
<1> USE PoolAssumption DEF IndInv, CloseWrite, CheckedOut, conns, users
<1> DEFINE c == writer[u]
<1>0. c \in Conn /\ sock[c] # "none"
  BY DEF PoolTypeOK, LateWriters
<1>a. CASE returned[c]
  <2>1. UNCHANGED <<halfClosed, sock>>
    BY <1>a
  <2>2. PoolTypeOK'
    BY <2>1 DEF PoolTypeOK
  <2>3. HandleByPC' /\ OneHolder'
    BY <2>1 DEF HandleByPC, OneHolder
  <2>4. HolderView'
    BY <2>1 DEF PoolTypeOK, HolderView
  <2>5. LateWriters'
    BY <2>1 DEF PoolTypeOK, LateWriters
  <2>6. PoolClean'
    BY <2>1 DEF PoolClean
  <2>7. FinFirst'
    <3> SUFFICES ASSUME halfCloseFirst PROVE FALSE
      BY DEF FinFirst
    <3>1. pc[u] = "held" /\ handle[u] = c /\ c # NoConn
      BY DEF FinFirst
    <3> QED
      BY <1>a, <3>1 DEF HolderView
  <2>8. ActiveExact'
    BY SameActive DEF Active
  <2> QED
    BY <2>2, <2>3, <2>4, <2>5, <2>6, <2>7, <2>8
<1>b. SUFFICES ASSUME ~returned[c] PROVE IndInv'
  BY <1>a
<1>c. /\ halfClosed' = [halfClosed EXCEPT ![c] = TRUE]
      /\ sock' = [sock EXCEPT ![c] = "fin"]
  BY <1>b
<1>1. PoolTypeOK'
  BY <1>0, <1>b, <1>c DEF PoolTypeOK
<1>2. HandleByPC'
  BY <1>0, <1>b, <1>c DEF HandleByPC
<1>3. OneHolder'
  BY <1>0, <1>b, <1>c DEF OneHolder
<1>4. HolderView'
  BY <1>0, <1>b, <1>c DEF PoolTypeOK, HolderView
<1>5. LateWriters'
  BY <1>0, <1>b, <1>c DEF PoolTypeOK, LateWriters
<1>6. PoolClean'
  <2>1. \A i \in 1..Len(idle) : idle[i] # c
    BY <1>b DEF PoolClean
  <2>2. \A d \in Conn : d # c => sock'[d] = sock[d] /\ halfClosed'[d] = halfClosed[d]
    BY <1>c DEF PoolTypeOK
  <2>3. PoolTypeOK /\ PoolClean /\ UNCHANGED <<returned, handle, idle>>
    OBVIOUS
  <2> QED
    BY ONLY <2>1, <2>2, <2>3, OutsidePool
<1>7. FinFirst'
  BY <1>0, <1>b, <1>c DEF PoolTypeOK, FinFirst, NeverPooled
<1>8. ActiveExact'
  BY SameActive DEF Active
<1> QED
  BY <1>1, <1>2, <1>3, <1>4, <1>5, <1>6, <1>7, <1>8

\* The passage of time.
LEMMA TickInd == IndInv /\ PoolTick /\ UNCHANGED halfCloseFirst => IndInv'
<1> SUFFICES ASSUME IndInv, PoolTick, UNCHANGED halfCloseFirst PROVE IndInv'
  OBVIOUS
<1> USE PoolAssumption DEF IndInv, PoolTick, Older, users
<1>1. PoolTypeOK'
  <2>1. connAge' \in [Conn -> 0..(MaxLifetime + 1)]
    BY DEF PoolTypeOK
  <2>2. useAge' \in [Conn -> 0..(IdleTimeout + 1)]
    BY DEF PoolTypeOK
  <2> QED
    BY <2>1, <2>2 DEF PoolTypeOK
<1>2. ActiveExact'
  BY SameActive DEF Active
<1>3. HandleByPC' /\ OneHolder'
  BY DEF HandleByPC, OneHolder
<1>4. HolderView'
  BY DEF HolderView
<1>5. LateWriters'
  BY DEF LateWriters
<1>6. PoolClean'
  BY DEF PoolClean
<1>7. FinFirst'
  BY DEF FinFirst, NeverPooled
<1> QED
  BY <1>1, <1>2, <1>3, <1>4, <1>5, <1>6, <1>7

\* Every step preserves the invariant.
LEMMA NextInd == IndInv /\ [PoolNext]_poolVars => IndInv'
<1> SUFFICES ASSUME IndInv, [PoolNext]_poolVars PROVE IndInv'
  OBVIOUS
<1>1. CASE UNCHANGED poolVars
  <2> USE <1>1 DEF IndInv, poolVars, conns, users
  <2>1. PoolTypeOK'
    BY DEF PoolTypeOK
  <2>2. HandleByPC' /\ OneHolder' /\ HolderView'
    BY DEF HandleByPC, OneHolder, HolderView
  <2>3. LateWriters' /\ PoolClean'
    BY DEF LateWriters, PoolClean
  <2>4. FinFirst' /\ ActiveExact'
    BY DEF FinFirst, NeverPooled, ActiveExact
  <2> QED
    BY <2>1, <2>2, <2>3, <2>4
<1>2. CASE PoolTick /\ UNCHANGED halfCloseFirst
  BY <1>2, TickInd
<1>3. ASSUME NEW u \in User, NEW k \in Conn, DialOK(u, k), UNCHANGED halfCloseFirst
      PROVE  IndInv'
  BY <1>3, DialOKInd
<1>4. ASSUME NEW u \in User,
             \/ Dial(u) \/ GetDrop(u) \/ GetHit(u) \/ GetMiss(u) \/ Reuse(u)
             \/ DialFail(u) \/ Checkout(u)
             \/ Close(u) \/ CloseRelease(u) \/ CloseFinish(u) \/ CloseWrite(u),
             UNCHANGED halfCloseFirst
      PROVE  IndInv'
  BY <1>4, DialInd, GetDropInd, GetHitInd, GetMissInd, ReuseInd, DialFailInd,
     CheckoutInd, CloseInd, CloseReleaseInd, CloseFinishInd, CloseWriteInd
<1> QED
  BY <1>1, <1>2, <1>3, <1>4 DEF PoolNext

\* The invariant holds throughout.
LEMMA Invariance == PoolSpec => []IndInv
BY InitInd, NextInd, PTL DEF PoolSpec
-----------------------------------------------------------------------------
\* The idle channel never holds more than MaxIdle connections, and every field
\* of backend.go keeps its type.
THEOREM TypeCorrect == PoolSpec => []PoolTypeOK
BY Invariance, PTL DEF IndInv

\* Close and CloseWrite may interleave in any way, in time or late: a pooled
\* connection has never sent FIN and is in nobody's hands.
THEOREM PoolIsClean == PoolSpec => []PoolClean
BY Invariance, PTL DEF IndInv

\* connPool.get never gives one connection to two goroutines.
THEOREM ExclusiveUse == PoolSpec => []OneHolder
BY Invariance, PTL DEF IndInv

\* activeConns counts every user that has a connection and none that has not asked
\* for one or has released it, whatever path Dial and Close take.
THEOREM ActiveCountTracks == PoolSpec => []ActiveTracksUse
<1>1. ASSUME ActiveExact PROVE ActiveTracksUse
  <2>1. \A S : UsersAt(S) \in SUBSET User
    BY DEF UsersAt
  <2>2. \A S : IsFiniteSet(UsersAt(S))
    BY <2>1, ActiveFinite
  <2>3. /\ UsersAt({"held"}) \subseteq UsersAt({"held", "closing"})
        /\ UsersAt({"held", "closing"}) \subseteq UsersAt(PC \ {"out", "putting"})
    BY DEF UsersAt, PC
  <2>4. /\ Cardinality(UsersAt({"held"})) <= Cardinality(UsersAt({"held", "closing"}))
        /\ Cardinality(UsersAt({"held", "closing"})) <= Cardinality(UsersAt(PC \ {"out", "putting"}))
    BY <2>2, <2>3, FS_Subset
  <2>5. activeConns = Cardinality(UsersAt({"held", "closing"}))
    BY <1>1 DEF ActiveExact, UsersAt
  <2> QED BY <2>4, <2>5 DEF ActiveTracksUse
<1> QED BY <1>1, Invariance, PTL DEF IndInv

\* On the L4 path, where Close waits for CloseWrite, nothing is ever pooled.
THEOREM L4NeverPools == PoolSpec => []L4NeverPooled
<1>1. IndInv => L4NeverPooled
  BY DEF IndInv, FinFirst, L4NeverPooled
<1> QED
  BY <1>1, Invariance, PTL
-----------------------------------------------------------------------------
\* Every step keeps track of the open sockets: the pool and the users' handles
\* exchange them and lose none.
LEMMA NoSocketLeakInd == IndInv /\ NoSocketLeak /\ [PoolNext]_poolVars => NoSocketLeak'
<1> SUFFICES ASSUME IndInv, NoSocketLeak, [PoolNext]_poolVars,
                    NEW c \in Conn, sock'[c] \in {"open", "fin"}
             PROVE  \/ \E i \in 1..Len(idle') : idle'[i] = c
                    \/ \E u \in User : handle'[u] = c
  BY DEF NoSocketLeak
<1>0. /\ idle \in Seq(Conn) /\ handle \in [User -> Conn \cup {NoConn}]
      /\ sock \in [Conn -> {"none", "open", "fin", "closed"}]
      /\ writer \in [User -> Conn \cup {NoConn}]
      /\ HandleByPC /\ HolderView /\ LateWriters
  BY DEF IndInv, PoolTypeOK
<1> USE <1>0, PoolAssumption DEF Goto, conns, users
<1>1. CASE UNCHANGED <<sock, idle, handle>>
  BY <1>1 DEF NoSocketLeak
<1>2. CASE UNCHANGED poolVars \/ PoolTick
  BY <1>1, <1>2 DEF poolVars, PoolTick
<1>3. ASSUME NEW u \in User,
             Dial(u) \/ GetMiss(u) \/ Reuse(u) \/ DialFail(u) \/ Checkout(u) \/ CloseRelease(u)
      PROVE  UNCHANGED <<sock, idle, handle>>
  BY <1>3 DEF Dial, GetMiss, Reuse, DialFail, Checkout, CloseRelease
<1>4. ASSUME idle # << >>, Received,
             \/ UNCHANGED sock
             \/ sock' = [sock EXCEPT ![Head(idle)] = "closed"],
             NEW i \in 1..Len(idle), idle[i] = c, c # Head(idle)
      PROVE  \E j \in 1..Len(idle') : idle'[j] = c
  <2>1. /\ Len(idle) \in Nat \ {0} /\ Len(idle') = Len(idle) - 1
        /\ Head(idle) = idle[1] /\ \A j \in 1..Len(idle') : idle'[j] = idle[j + 1]
    BY <1>4, ReceiveFacts
  <2>2. i # 1
    BY <1>4, <2>1
  <2>3. i - 1 \in 1..Len(idle') /\ (i - 1) + 1 = i
    BY <2>1, <2>2
  <2>4. idle'[i - 1] = c
    BY <1>4, <2>1, <2>3
  <2> QED BY <2>3, <2>4
<1>5. ASSUME NEW u \in User, GetDrop(u)
      PROVE  \/ \E i \in 1..Len(idle') : idle'[i] = c
             \/ \E v \in User : handle'[v] = c
  <2>1. c # Head(idle) /\ sock[c] \in {"open", "fin"}
    BY <1>5 DEF GetDrop
  <2>2. CASE \E i \in 1..Len(idle) : idle[i] = c
    BY <1>4, <1>5, <2>1, <2>2 DEF GetDrop
  <2>3. CASE \E v \in User : handle[v] = c
    BY <1>5, <2>3 DEF GetDrop
  <2> QED BY <2>1, <2>2, <2>3 DEF NoSocketLeak
<1>6. ASSUME NEW u \in User, GetHit(u)
      PROVE  \/ \E i \in 1..Len(idle') : idle'[i] = c
             \/ \E v \in User : handle'[v] = c
  <2>1. CASE c = Head(idle)
    BY <1>6, <2>1 DEF GetHit
  <2>2. CASE c # Head(idle) /\ \E i \in 1..Len(idle) : idle[i] = c
    BY <1>4, <1>6, <2>2 DEF GetHit
  <2>3. CASE \E v \in User : handle[v] = c
    <3>1. handle[u] = NoConn
      BY <1>6 DEF GetHit, HandleByPC
    <3>2. PICK v \in User : handle[v] = c
      BY <2>3
    <3>3. v # u
      BY <3>1, <3>2
    <3> QED BY <1>6, <3>2, <3>3 DEF GetHit
  <2> QED BY <1>6, <2>1, <2>2, <2>3 DEF GetHit, NoSocketLeak
<1>7. ASSUME NEW u \in User, NEW k \in Conn, DialOK(u, k)
      PROVE  \/ \E i \in 1..Len(idle') : idle'[i] = c
             \/ \E v \in User : handle'[v] = c
  <2>1. CASE c = k
    BY <1>7, <2>1 DEF DialOK
  <2>2. CASE c # k
    <3>1. handle[u] = NoConn
      BY <1>7 DEF DialOK, HandleByPC
    <3>2. sock[c] \in {"open", "fin"} /\ UNCHANGED idle
      BY <1>7, <2>2 DEF DialOK
    <3>3. ASSUME NEW v \in User, handle[v] = c PROVE handle'[v] = c
      <4>1. v # u
        BY <3>1, <3>3
      <4> QED BY <1>7, <3>3, <4>1 DEF DialOK
    <3> QED BY <3>2, <3>3 DEF NoSocketLeak
  <2> QED BY <2>1, <2>2
\* By HolderView a user that holds its connection finds returned unset: Close
\* always goes on to put.
<1>8. ASSUME NEW u \in User, Close(u)
      PROVE  UNCHANGED <<sock, idle, handle>>
  BY <1>8 DEF Close, HandleByPC, HolderView
<1>9. ASSUME NEW u \in User, CloseFinish(u)
      PROVE  \/ \E i \in 1..Len(idle') : idle'[i] = c
             \/ \E v \in User : handle'[v] = c
  <2>1. CASE CloseReturn(u)
    <3>1. /\ idle' = Append(idle, handle[u]) /\ handle[u] \in Conn /\ UNCHANGED sock
          /\ handle' = [handle EXCEPT ![u] = NoConn]
      BY <1>9, <2>1 DEF CloseFinish, CloseReturn, HandleByPC
    <3>2. /\ Len(idle') = Len(idle) + 1 /\ idle'[Len(idle) + 1] = handle[u]
          /\ Len(idle) \in Nat /\ \A i \in 1..Len(idle) : idle'[i] = idle[i]
      <4>1. idle \in Seq(Conn)
        OBVIOUS
      <4> QED BY ONLY <3>1, <4>1, LenProperties
    <3>3. CASE c = handle[u]
      <4>1. Len(idle) + 1 \in 1..Len(idle')
        BY ONLY <3>2
      <4> QED BY ONLY <3>2, <3>3, <4>1
    <3>4. CASE c # handle[u] /\ \E i \in 1..Len(idle) : idle[i] = c
      BY ONLY <3>2, <3>4
    <3>5. CASE c # handle[u] /\ \E v \in User : handle[v] = c
      BY <3>1, <3>5
    <3> QED BY <3>1, <3>3, <3>4, <3>5 DEF NoSocketLeak
  <2>2. CASE CloseDrop(u) \/ CloseSocket(u)
    <3>1. /\ UNCHANGED idle /\ sock' = [sock EXCEPT ![handle[u]] = "closed"]
          /\ handle' = [handle EXCEPT ![u] = NoConn]
      BY <1>9, <2>2 DEF CloseFinish, CloseDrop, CloseSocket
    <3>2. c # handle[u] /\ sock[c] \in {"open", "fin"}
      BY <3>1
    <3> QED BY <3>1, <3>2 DEF NoSocketLeak
  <2> QED BY <1>9, <2>1, <2>2 DEF CloseFinish
\* CloseWrite opens no socket: the one it half-closes is checked out, hence open.
<1>10. ASSUME NEW u \in User, CloseWrite(u)
       PROVE  sock[c] \in {"open", "fin"} /\ UNCHANGED <<idle, handle>>
  <2>1. UNCHANGED <<idle, handle>>
    BY <1>10 DEF CloseWrite
  <2>2. sock[c] # "none" /\ sock[c] # "closed"
    BY <1>10 DEF CloseWrite, CheckedOut, LateWriters
  <2> QED BY <2>1, <2>2
<1>11. ASSUME NEW u \in User, CloseWrite(u)
       PROVE  \/ \E i \in 1..Len(idle') : idle'[i] = c
              \/ \E v \in User : handle'[v] = c
  BY <1>10, <1>11 DEF NoSocketLeak
<1> QED
  BY <1>1, <1>2, <1>3, <1>5, <1>6, <1>7, <1>8, <1>9, <1>11 DEF PoolNext

\* No path through Dial, get, put, Close and CloseWrite leaks a socket, for any
\* number of users and connections.
THEOREM NoLeak == PoolSpec => []NoSocketLeak
<1>1. PoolInit => NoSocketLeak
  BY DEF PoolInit, NoSocketLeak
<1>2. IndInv /\ NoSocketLeak /\ [PoolNext]_poolVars => NoSocketLeak'
  BY NoSocketLeakInd
<1> QED BY <1>1, <1>2, Invariance, PTL DEF PoolSpec
-----------------------------------------------------------------------------
\* The connections that DroppedExact counts.
Dropped == {c \in Conn : sock[c] = "closed" /\ ~halfClosed[c]}

\* A discarded connection that had not sent FIN is one more of them.
LEMMA DropOne ==
  ASSUME PoolTypeOK, NEW c \in Conn, sock[c] = "open", ~halfClosed[c],
         sock' = [sock EXCEPT ![c] = "closed"], UNCHANGED halfClosed
  PROVE  Cardinality(Dropped') = Cardinality(Dropped) + 1
<1>1. Dropped' = Dropped \cup {c} /\ c \notin Dropped
  BY DEF Dropped, PoolTypeOK
<1>2. IsFiniteSet(Dropped)
  BY PoolAssumption, FS_Subset DEF Dropped
<1> HIDE DEF Dropped
<1> QED BY ONLY <1>1, <1>2, FS_AddElement

\* Every step counts what it adds to them: put and get do, closing a connection
\* that sent FIN does not, and a late CloseWrite takes none away.
LEMMA DroppedExactInd == IndInv /\ DroppedExact /\ [PoolNext]_poolVars => DroppedExact'
<1> SUFFICES ASSUME IndInv, DroppedExact, [PoolNext]_poolVars, PoolEnabled
             PROVE  metrics'["dropped"] = Cardinality(Dropped')
  BY DEF DroppedExact, Dropped
<1>t. /\ idle \in Seq(Conn) /\ handle \in [User -> Conn \cup {NoConn}]
      /\ sock \in [Conn -> {"none", "open", "fin", "closed"}]
      /\ halfClosed \in [Conn -> BOOLEAN] /\ metrics \in [Metric -> Nat]
      /\ writer \in [User -> Conn \cup {NoConn}]
      /\ HandleByPC /\ HolderView /\ LateWriters /\ PoolClean /\ PoolTypeOK
  BY DEF IndInv, PoolTypeOK
<1> USE <1>t, PoolAssumption DEF Goto, conns, users
<1>0. /\ metrics["dropped"] = Cardinality(Dropped)
      /\ {"dropped", "returned", "hits", "failures", "misses", "totalConns"} \subseteq Metric
  BY DEF DroppedExact, Dropped, Metric
<1>1. CASE Dropped' = Dropped /\ metrics'["dropped"] = metrics["dropped"]
  BY <1>0, <1>1
<1>2. CASE UNCHANGED poolVars \/ PoolTick
  <2>1. UNCHANGED <<sock, halfClosed, metrics>>
    BY <1>2 DEF poolVars, PoolTick
  <2> QED BY <1>1, <2>1 DEF Dropped
<1>3. ASSUME NEW u \in User,
             \/ Dial(u) \/ GetHit(u) \/ GetMiss(u) \/ Reuse(u) \/ DialFail(u)
             \/ Checkout(u) \/ Close(u) \/ CloseRelease(u)
      PROVE  metrics'["dropped"] = Cardinality(Dropped')
  <2>1. UNCHANGED <<sock, halfClosed>>
    BY <1>3 DEF Dial, GetHit, GetMiss, Reuse, DialFail, Checkout, Close, CloseRelease
  <2>2. metrics'["dropped"] = metrics["dropped"]
    <3>1. CASE GetHit(u)
      BY <1>0, <3>1, CountOther DEF GetHit
    <3>2. CASE Dial(u)
      BY <1>0, <3>2, CountOther DEF Dial
    <3>3. CASE GetMiss(u)
      BY <1>0, <3>3 DEF GetMiss
    <3>4. CASE DialFail(u)
      BY <1>0, <3>4, CountOther DEF DialFail
    <3>5. CASE Reuse(u) \/ Checkout(u) \/ Close(u) \/ CloseRelease(u)
      BY <3>5 DEF Reuse, Checkout, Close, CloseRelease
    <3> QED BY <1>3, <3>1, <3>2, <3>3, <3>4, <3>5
  <2> QED BY <1>1, <2>1, <2>2 DEF Dropped
<1>4. ASSUME NEW u \in User, GetDrop(u)
      PROVE  metrics'["dropped"] = Cardinality(Dropped')
  <2>1. /\ Head(idle) \in Conn /\ sock[Head(idle)] = "open" /\ ~halfClosed[Head(idle)]
    BY <1>4, ReceiveFacts DEF GetDrop, PoolClean
  <2>2. Cardinality(Dropped') = Cardinality(Dropped) + 1
    BY <1>4, <2>1, DropOne DEF GetDrop
  <2>3. metrics'["dropped"] = metrics["dropped"] + 1
    BY <1>0, <1>4 DEF GetDrop, Count
  <2> QED BY <1>0, <2>2, <2>3
<1>5. ASSUME NEW u \in User, NEW k \in Conn, DialOK(u, k)
      PROVE  metrics'["dropped"] = Cardinality(Dropped')
  <2>1. Dropped' = Dropped /\ metrics'["dropped"] = metrics["dropped"]
    BY <1>5 DEF DialOK, Dropped
  <2> QED BY <1>1, <2>1
<1>6. ASSUME NEW u \in User, CloseFinish(u)
      PROVE  metrics'["dropped"] = Cardinality(Dropped')
  <2>1. /\ handle[u] \in Conn /\ UNCHANGED halfClosed
        /\ sock[handle[u]] = IF halfClosed[handle[u]] THEN "fin" ELSE "open"
        /\ snapshot[u] <=> halfClosed[handle[u]]
    BY <1>6 DEF CloseFinish, HandleByPC, HolderView
  <2>2. CASE CloseReturn(u)
    <3>1. UNCHANGED <<sock, halfClosed>>
      BY <2>1, <2>2 DEF CloseReturn
    <3>2. metrics'["dropped"] = metrics["dropped"]
      BY <1>0, <2>2, CountOther DEF CloseReturn
    <3> QED BY <1>1, <3>1, <3>2 DEF Dropped
  <2>3. CASE CloseDrop(u)
    <3>1. ~halfClosed[handle[u]] /\ sock[handle[u]] = "open"
      BY <2>1, <2>3 DEF CloseDrop, Poolable
    <3>2. Cardinality(Dropped') = Cardinality(Dropped) + 1
      BY <2>1, <2>3, <3>1, DropOne DEF CloseDrop
    <3>3. metrics'["dropped"] = metrics["dropped"] + 1
      BY <1>0, <2>3 DEF CloseDrop, Count
    <3> QED BY <1>0, <3>2, <3>3
  <2>4. CASE CloseSocket(u)
    <3>1. halfClosed[handle[u]] /\ sock' = [sock EXCEPT ![handle[u]] = "closed"]
      BY <2>1, <2>4 DEF CloseSocket, Poolable
    <3>2. Dropped' = Dropped
      BY <2>1, <3>1 DEF Dropped
    <3> QED BY <1>1, <2>4, <3>2 DEF CloseSocket
  <2> QED BY <1>6, <2>2, <2>3, <2>4 DEF CloseFinish
<1>7. ASSUME NEW u \in User, CloseWrite(u)
      PROVE  metrics'["dropped"] = Cardinality(Dropped')
  <2>1. Dropped' = Dropped
    BY <1>7, ZenonT(40) DEF CloseWrite, CheckedOut, LateWriters, Dropped
  <2> QED BY <1>1, <1>7, <2>1 DEF CloseWrite
<1> QED BY <1>2, <1>3, <1>4, <1>5, <1>6, <1>7 DEF PoolNext

\* The dropped metric is exact, whatever put, Close and CloseWrite interleave.
THEOREM DropsCountedOnce == PoolSpec => []DroppedExact
<1>1. PoolInit => DroppedExact
  <2> SUFFICES ASSUME PoolInit PROVE DroppedExact
    OBVIOUS
  <2>1. {c \in Conn : sock[c] = "closed" /\ ~halfClosed[c]} = {}
    BY DEF PoolInit
  <2>2. metrics["dropped"] = 0
    BY DEF PoolInit, Metric
  <2> QED BY <2>1, <2>2, FS_EmptySet DEF DroppedExact
<1>2. IndInv /\ DroppedExact /\ [PoolNext]_poolVars => DroppedExact'
  BY DroppedExactInd
<1> QED BY <1>1, <1>2, Invariance, PTL DEF PoolSpec
=============================================================================
