--------------------------- MODULE RegistryProofs ---------------------------
(***************************************************************************)
(* Proofs about Registry for any sets of services and subscribers, any     *)
(* limit and any buffer: the limit is kept, no event is sent on a closed   *)
(* channel, and a subscriber that missed no event can follow the registry. *)
(*                                                                         *)
(* EventsComplete is not inductive: between a change and its notification  *)
(* subscribers lag behind.  The invariant says that they lag only by the   *)
(* pending events (Lag), which in turn tell the truth (PendingTrue).       *)
(*                                                                         *)
(* Then about Discovery, the composition of the registry with its watcher  *)
(* and the reloads.  Every step of the composition is a step of the        *)
(* registry or leaves it alone, so the registry's theorems hold of it.     *)
(* The watcher keeps the load balancer up to date even when events are     *)
(* dropped: an event is dropped only when the channel already holds one,   *)
(* and the list is read after that one is received.  And the two updates   *)
(* of the watcher or of a reload leave one list with both the load         *)
(* balancer and the checker unless another update comes between them.      *)
(***************************************************************************)
EXTENDS Discovery, FiniteSetTheorems, SequenceTheorems, TLAPS

\* A pending event carries the service's present address.
PendingTrue == \A e \in pending : e.addr = services[e.id]

\* r.mu is kept exactly as long as events are pending.
LockHeld == holder = "free" <=> pending = {}

\* A channel in the map is open and its goroutine in the loop.
Places ==
  \A s \in Sub :
    /\ s \in subscribers => closes[s] = 0 /\ subPC[s] = "in"
    /\ subPC[s] = "out" => closes[s] = 0 /\ channel[s] = << >>

\* What a subscriber's channel does not tell is pending.
Lag ==
  \A s \in subscribers \ missed, i \in ID :
    Learns(s, i, services[i]) \/ \E e \in pending : e.id = i

\* The types of the table and of the rest.
TableOK ==
  /\ services \in [ID -> Addr \cup {None}]
  /\ ttl \in [ID -> 0..MaxTTL]
  /\ age \in [ID -> 0..(MaxTTL + 1)]
  /\ holder \in {"free", "caller", "cleaner"}
  /\ pending \in SUBSET Event

SubsOK ==
  /\ subscribers \in SUBSET Sub
  /\ channel \in [Sub -> Seq(Event)]
  /\ \A s \in Sub : Len(channel[s]) <= Buffer
  /\ closes \in [Sub -> Nat]
  /\ subPC \in [Sub -> {"out", "in", "closing", "gone"}]

LifeOK ==
  /\ cleaner \in BOOLEAN /\ cancelled \in BOOLEAN
  /\ stop \in {"idle", "waiting", "stopped"}

HistoryOK ==
  /\ mirror \in [Sub -> [ID -> Addr \cup {None}]]
  /\ missed \in SUBSET Sub

IndInv == TypeOK /\ Capacity /\ PendingTrue /\ LockHeld /\ Places /\ Lag
-----------------------------------------------------------------------------
(* Learns                                                                  *)

\* Learns depends on the channel and the mirror of its subscriber only.
LEMMA LearnsSame ==
  ASSUME NEW s \in Sub, NEW i \in ID, services'[i] = services[i],
         channel'[s] = channel[s], mirror'[s] = mirror[s], Learns(s, i, services[i])
  PROVE  Learns(s, i, services[i])'
BY DEF Learns

\* An event about i at the end of the channel decides what is learnt of i.
LEMMA LearnsLast ==
  ASSUME NEW s \in Sub, NEW e \in Event, channel[s] \in Seq(Event),
         channel'[s] = Append(channel[s], e)
  PROVE  Learns(s, e.id, e.addr)'
<1>1. /\ Len(channel'[s]) = Len(channel[s]) + 1
      /\ channel'[s][Len(channel[s]) + 1] = e
      /\ Len(channel[s]) \in Nat
  BY AppendProperties, LenProperties
<1> QED BY <1>1 DEF Learns

\* An event about another service leaves what is learnt of i.
LEMMA LearnsOther ==
  ASSUME NEW s \in Sub, NEW i \in ID, services'[i] = services[i], NEW e \in Event, e.id # i,
         channel[s] \in Seq(Event), channel'[s] = Append(channel[s], e),
         mirror'[s] = mirror[s], Learns(s, i, services[i])
  PROVE  Learns(s, i, services[i])'
<1> DEFINE n == Len(channel[s])
<1>1. /\ Len(channel'[s]) = n + 1
      /\ channel'[s][n + 1] = e
      /\ n \in Nat
      /\ \A k \in 1..n : channel'[s][k] = channel[s][k]
  BY AppendProperties, LenProperties
<1>2. {k \in 1..Len(channel'[s]) : channel'[s][k].id = i}
        = {k \in 1..n : channel[s][k].id = i}
  BY <1>1
<1> QED BY <1>1, <1>2 DEF Learns

\* Receiving the head moves it from the channel to the mirror.
LEMMA LearnsReceive ==
  ASSUME NEW s \in Sub, NEW i \in ID, services'[i] = services[i], channel[s] \in Seq(Event),
         channel[s] # << >>, channel'[s] = Tail(channel[s]),
         mirror[s] \in [ID -> Addr \cup {None}],
         mirror'[s] = [mirror[s] EXCEPT ![Head(channel[s]).id] = Head(channel[s]).addr],
         Learns(s, i, services[i])
  PROVE  Learns(s, i, services[i])'
<1> DEFINE c == channel[s]
           n == Len(channel[s])
           old == {k \in 1..n : c[k].id = i}
           new == {k \in 1..Len(channel'[s]) : channel'[s][k].id = i}
<1>1. /\ n \in Nat /\ n >= 1
      /\ Len(channel'[s]) = n - 1
      /\ \A k \in 1..(n - 1) : channel'[s][k] = c[k + 1]
      /\ Head(c) = c[1]
  BY HeadTailProperties, LenProperties, EmptySeq
<1>2. \A k \in new : k + 1 \in old
  BY <1>1
<1>3. \A k \in old : k = 1 \/ k - 1 \in new
  BY <1>1
<1>4. c[1] \in Event
  BY <1>1, ElementOfSeq
<1>5. c[1].id \in ID /\ mirror'[s] = [mirror[s] EXCEPT ![c[1].id] = c[1].addr]
  BY <1>1, <1>4 DEF Event
<1>6. CASE old = {}
  <2>0. mirror[s][i] = services[i]
    BY <1>6 DEF Learns
  <2>1. new = {} /\ c[1].id # i /\ mirror[s][i] = services[i]
    BY <1>1, <1>2, <1>6, <2>0
  <2>2. mirror'[s][i] = services[i]
    BY <2>1, <1>5
  <2> QED BY <2>1, <2>2 DEF Learns
<1>7. CASE old # {}
  <2>1. PICK k \in old : c[k].addr = services[i] /\ \A m \in old : m <= k
    BY <1>7 DEF Learns
  <2>2. CASE k = 1
    <3>1. new = {}
      BY <1>2, <2>1, <2>2, <1>1
    <3>2. mirror'[s][i] = services[i]
      BY <1>5, <2>1, <2>2
    <3> QED BY <3>1, <3>2 DEF Learns
  <2>3. CASE k # 1
    <3>1. k - 1 \in new /\ channel'[s][k - 1].addr = services[i]
      BY <1>1, <1>3, <2>1, <2>3
    <3>2. ASSUME NEW m \in new PROVE m <= k - 1
      <4>1. m + 1 \in old /\ m + 1 <= k
        BY <1>2, <2>1
      <4>2. m \in Int /\ k \in Int
        BY <1>1, <2>1
      <4> QED BY ONLY <4>1, <4>2
    <3> QED BY <3>1, <3>2 DEF Learns
  <2> QED BY <2>2, <2>3
<1> QED BY <1>6, <1>7
-----------------------------------------------------------------------------
(* Capacity                                                                *)

\* Registered is finite.
LEMMA RegisteredFinite ==
  IsFiniteSet(Registered) /\ Cardinality(Registered) \in Nat
BY RegistryAssumption, FS_Subset, FS_CardinalityType DEF Registered

\* Removing services keeps the limit.
LEMMA CapacityShrinks ==
  ASSUME Capacity, Registered' \subseteq Registered
  PROVE  Capacity'
<1>1. /\ Cardinality(Registered') <= Cardinality(Registered)
      /\ Cardinality(Registered') \in Nat
  BY RegisteredFinite, FS_Subset, FS_CardinalityType
<1> QED BY <1>1, RegisteredFinite, RegistryAssumption DEF Capacity

\* Registering keeps it.
LEMMA CapacityRegister ==
  ASSUME TypeOK, Capacity, NEW i \in ID, NEW a \in Addr, HasRoom(i),
         services' = [services EXCEPT ![i] = a]
  PROVE  Capacity'
<1>1. Registered' = Registered \cup {i}
  BY RegistryAssumption DEF TypeOK, Registered
<1>2. CASE services[i] # None
  BY <1>1, <1>2, CapacityShrinks DEF Registered
<1>3. CASE services[i] = None
  <2>1. Cardinality(Registered') = Cardinality(Registered) + 1
    BY <1>1, <1>3, RegisteredFinite, FS_AddElement DEF Registered
  <2> QED BY <2>1, <1>3, RegisteredFinite, RegistryAssumption DEF Capacity, HasRoom
<1> QED BY <1>2, <1>3
-----------------------------------------------------------------------------
(* The inductive invariant                                                 *)

\* The parts of TypeOK.
LEMMA TypeParts ==
  /\ TypeOK <=> TableOK /\ SubsOK /\ LifeOK /\ HistoryOK
  /\ TypeOK' <=> TableOK' /\ SubsOK' /\ LifeOK' /\ HistoryOK'
BY DEF TypeOK, TableOK, SubsOK, LifeOK, HistoryOK

\* Parts whose variables do not change.
LEMMA PartsSame ==
  /\ TableOK /\ UNCHANGED table => TableOK'
  /\ SubsOK /\ UNCHANGED subs => SubsOK'
  /\ LifeOK /\ UNCHANGED lifetime => LifeOK'
  /\ HistoryOK /\ UNCHANGED history => HistoryOK'
<1>1. TableOK /\ UNCHANGED table => TableOK'
  BY DEF TableOK, table
<1>2. SubsOK /\ UNCHANGED subs => SubsOK'
  BY DEF SubsOK, subs
<1>3. LifeOK /\ UNCHANGED lifetime => LifeOK'
  BY DEF LifeOK, lifetime
<1>4. HistoryOK /\ UNCHANGED history => HistoryOK'
  BY DEF HistoryOK, history
<1> QED BY <1>1, <1>2, <1>3, <1>4

\* Events are determined by their two fields.
LEMMA EventFields ==
  /\ \A i \in ID, a \in Addr \cup {None} :
       LET e == [id |-> i, addr |-> a] IN e \in Event /\ e.id = i /\ e.addr = a
  /\ \A e, f \in Event : e.id = f.id /\ e.addr = f.addr => e = f
  /\ \A e \in Event : e.id \in ID /\ e.addr \in Addr \cup {None}
BY DEF Event

\* Places does not look at the table.
LEMMA PlacesSame ==
  ASSUME Places, UNCHANGED <<subscribers, closes, subPC, channel>>
  PROVE  Places'
BY DEF Places

\* The empty registry satisfies it.
LEMMA InitInd == Init => IndInv
<1> SUFFICES ASSUME Init PROVE IndInv
  OBVIOUS
<1>1. Registered = {}
  BY DEF Init, Registered
<1>2. Capacity
  BY <1>1, FS_EmptySet, RegistryAssumption DEF Capacity
<1>3. TypeOK
  <2>1. TableOK
    BY RegistryAssumption DEF Init, TableOK
  <2>2. SubsOK
    BY RegistryAssumption, EmptySeq DEF Init, SubsOK
  <2>3. LifeOK /\ HistoryOK
    BY DEF Init, LifeOK, HistoryOK
  <2> QED BY <2>1, <2>2, <2>3, TypeParts
<1> QED BY <1>2, <1>3 DEF Init, IndInv, PendingTrue, LockHeld, Places, Lag

\* Every step that leaves the table's changes, the channels and the subscribers
\* alone keeps Lag.
LEMMA LagSame ==
  ASSUME Lag, UNCHANGED <<services, pending, channel, mirror>>,
         subscribers' \ missed' \subseteq subscribers \ missed,
         subscribers \subseteq Sub
  PROVE  Lag'
BY LearnsSame DEF Lag

\* A registration.
LEMMA RegisterInd ==
  ASSUME IndInv, NEW i \in ID, NEW a \in Addr, NEW t \in TTL, Register(i, a, t)
  PROVE  IndInv'
<1> USE DEF Register, subs, lifetime, history
<1>1. TypeOK'
  <2>1. TableOK'
    BY TypeParts, EventFields, RegistryAssumption DEF IndInv, TableOK
  <2> QED BY <2>1, TypeParts, PartsSame DEF IndInv
<1>2. Capacity'
  BY CapacityRegister DEF IndInv
<1>3. PendingTrue' /\ LockHeld' /\ Places'
  <2>1. PendingTrue'
    BY TypeParts, EventFields DEF IndInv, TableOK, PendingTrue
  <2>2. LockHeld'
    BY DEF LockHeld
  <2> QED BY <2>1, <2>2, PlacesSame DEF IndInv
<1>4. Lag'
  <2> SUFFICES ASSUME NEW s \in subscribers' \ missed', NEW j \in ID
               PROVE  Learns(s, j, services[j])' \/ \E e \in pending' : e.id = j
    BY DEF Lag
  <2>1. CASE j = i
    BY <2>1
  <2>2. CASE j # i
    <3>1. Learns(s, j, services[j])
      BY DEF IndInv, Lag, LockHeld
    <3>2. services'[j] = services[j] /\ s \in Sub
      BY <2>2 DEF IndInv, TypeOK
    <3> QED BY <3>1, <3>2 DEF Learns
  <2> QED BY <2>1, <2>2
<1> QED BY <1>1, <1>2, <1>3, <1>4 DEF IndInv

\* A deregistration.
LEMMA DeregisterInd ==
  ASSUME IndInv, NEW i \in ID, Deregister(i)
  PROVE  IndInv'
<1> USE DEF Deregister, subs, lifetime, history
<1>1. TypeOK'
  <2>1. TableOK'
    BY TypeParts, EventFields, RegistryAssumption DEF IndInv, TableOK
  <2> QED BY <2>1, TypeParts, PartsSame DEF IndInv
<1>2. Capacity'
  <2>1. Registered' \subseteq Registered
    BY DEF IndInv, TypeOK, Registered
  <2> QED BY <2>1, CapacityShrinks DEF IndInv
<1>3. PendingTrue' /\ LockHeld' /\ Places'
  <2>1. PendingTrue'
    BY TypeParts, EventFields DEF IndInv, TableOK, PendingTrue
  <2>2. LockHeld'
    BY DEF LockHeld
  <2> QED BY <2>1, <2>2, PlacesSame DEF IndInv
<1>4. Lag'
  <2> SUFFICES ASSUME NEW s \in subscribers' \ missed', NEW j \in ID
               PROVE  Learns(s, j, services[j])' \/ \E e \in pending' : e.id = j
    BY DEF Lag
  <2>1. CASE j = i
    BY <2>1
  <2>2. CASE j # i
    <3>1. Learns(s, j, services[j])
      BY DEF IndInv, Lag, LockHeld
    <3>2. services'[j] = services[j] /\ s \in Sub
      BY <2>2 DEF IndInv, TypeOK
    <3> QED BY <3>1, <3>2 DEF Learns
  <2> QED BY <2>1, <2>2
<1> QED BY <1>1, <1>2, <1>3, <1>4 DEF IndInv

\* A cleanup: every removed service has its pending event.
LEMMA CleanupInd ==
  ASSUME IndInv, CleanupExpired
  PROVE  IndInv'
<1> USE DEF CleanupExpired, subs, lifetime, history
<1>0. Expired \subseteq ID /\ pending' = {[id |-> i, addr |-> None] : i \in Expired}
  BY DEF Expired, Registered, Removals
<1>1. TypeOK'
  <2>1. TableOK'
    BY <1>0, TypeParts, EventFields, RegistryAssumption DEF IndInv, TableOK
  <2> QED BY <2>1, TypeParts, PartsSame DEF IndInv
<1>2. Capacity'
  <2>1. Registered' \subseteq Registered
    BY DEF IndInv, TypeOK, Registered
  <2> QED BY <2>1, CapacityShrinks DEF IndInv
<1>3. PendingTrue' /\ LockHeld' /\ Places'
  <2>1. PendingTrue'
    BY <1>0, TypeParts, EventFields DEF IndInv, TableOK, PendingTrue
  <2>2. LockHeld'
    BY <1>0 DEF LockHeld
  <2> QED BY <2>1, <2>2, PlacesSame DEF IndInv
<1>4. Lag'
  <2> SUFFICES ASSUME NEW s \in subscribers' \ missed', NEW j \in ID
               PROVE  Learns(s, j, services[j])' \/ \E e \in pending' : e.id = j
    BY DEF Lag
  <2>1. CASE j \in Expired
    <3>1. [id |-> j, addr |-> None] \in pending'
      BY <1>0, <2>1
    <3> QED BY <3>1
  <2>2. CASE j \notin Expired
    <3>1. Learns(s, j, services[j])
      BY DEF IndInv, Lag, LockHeld
    <3>2. services'[j] = services[j] /\ s \in Sub
      BY <2>2 DEF IndInv, TypeOK
    <3> QED BY <3>1, <3>2 DEF Learns
  <2> QED BY <2>1, <2>2
<1> QED BY <1>1, <1>2, <1>3, <1>4 DEF IndInv

\* One notification: it pays the debt of its service and leaves the others.
LEMMA NotifyInd ==
  ASSUME IndInv, NEW e \in pending, Notify(e)
  PROVE  IndInv'
<1> DEFINE takers == {s \in subscribers : HasSpace(s)}
<1>0. /\ e \in Event /\ e.addr = services[e.id]
      /\ channel' = [s \in Sub |-> IF s \in takers THEN Append(channel[s], e) ELSE channel[s]]
      /\ missed' = missed \cup (subscribers \ takers)
      /\ TableOK /\ SubsOK /\ LifeOK /\ HistoryOK
  BY TypeParts DEF IndInv, TableOK, PendingTrue, Notify
<1>1. TypeOK'
  <2>1. TableOK' /\ LifeOK' /\ HistoryOK'
    BY <1>0 DEF Notify, TableOK, SubsOK, LifeOK, HistoryOK, lifetime
  <2>2. ASSUME NEW s \in Sub PROVE channel'[s] \in Seq(Event) /\ Len(channel'[s]) <= Buffer
    <3>1. CASE s \in takers
      BY <1>0, <3>1, AppendProperties, LenProperties, RegistryAssumption DEF SubsOK, HasSpace
    <3>2. CASE s \notin takers
      BY <1>0, <3>2 DEF SubsOK
    <3> QED BY <3>1, <3>2
  <2>3. SubsOK'
    BY <1>0, <2>2 DEF Notify, SubsOK
  <2> QED BY <2>1, <2>3, TypeParts
<1>2. Capacity'
  BY CapacityShrinks DEF IndInv, Notify, Registered
<1>3. PendingTrue'
  BY DEF IndInv, PendingTrue, Notify
<1>4. LockHeld'
  BY DEF IndInv, LockHeld, Notify
<1>5. Places'
  BY <1>0 DEF IndInv, Places, Notify
<1>6. Lag'
  <2> SUFFICES ASSUME NEW s \in subscribers' \ missed', NEW i \in ID
               PROVE  Learns(s, i, services[i])' \/ \E f \in pending' : f.id = i
    BY DEF Lag
  <2>1. s \in takers /\ s \in subscribers \ missed /\ s \in Sub
    BY <1>0 DEF Notify, SubsOK
  <2>2. channel'[s] = Append(channel[s], e) /\ channel[s] \in Seq(Event)
    BY <1>0, <2>1 DEF SubsOK
  <2>3. services' = services /\ mirror' = mirror /\ pending' = pending \ {e}
    BY DEF Notify
  <2>4. CASE i = e.id
    <3>1. Learns(s, e.id, e.addr)'
      BY <1>0, <2>1, <2>2, LearnsLast
    <3> QED BY <3>1, <2>3, <2>4, <1>0, ZenonT(40) DEF Learns
  <2>5. CASE i # e.id /\ Learns(s, i, services[i])
    BY <1>0, <2>1, <2>2, <2>3, <2>5, LearnsOther
  <2>6. CASE i # e.id /\ \E f \in pending : f.id = i
    BY <2>3, <2>6
  <2> QED BY <2>1, <2>4, <2>5, <2>6 DEF IndInv, Lag
<1> QED BY <1>1, <1>2, <1>3, <1>4, <1>5, <1>6 DEF IndInv

\* A heartbeat or the clock.
LEMMA AgeInd ==
  ASSUME IndInv, age' \in [ID -> 0..(MaxTTL + 1)],
         UNCHANGED <<services, ttl, holder, pending, subs, lifetime, history>>
  PROVE  IndInv'
<1> USE DEF subs, lifetime, history
<1>1. TypeOK'
  <2>1. TableOK'
    BY TypeParts DEF IndInv, TableOK
  <2> QED BY <2>1, TypeParts, PartsSame DEF IndInv
<1>2. Capacity'
  BY CapacityShrinks DEF IndInv, Registered
<1>3. PendingTrue' /\ LockHeld' /\ Places'
  BY PlacesSame DEF IndInv, PendingTrue, LockHeld
<1>4. Lag'
  BY LagSame DEF IndInv, TypeOK
<1> QED BY <1>1, <1>2, <1>3, <1>4 DEF IndInv

\* Steps that leave the table alone.
LEMMA TableSame ==
  ASSUME IndInv, UNCHANGED table
  PROVE  TableOK' /\ Capacity' /\ PendingTrue' /\ LockHeld'
<1>1. TableOK'
  BY TypeParts, PartsSame DEF IndInv
<1>2. Capacity'
  BY CapacityShrinks DEF IndInv, Registered, table
<1>3. PendingTrue' /\ LockHeld'
  BY DEF IndInv, PendingTrue, LockHeld, table
<1> QED BY <1>1, <1>2, <1>3

\* A new subscriber starts from the table.
LEMMA SubscribeInd ==
  ASSUME IndInv, NEW s \in Sub, Subscribe(s)
  PROVE  IndInv'
<1>0. TableOK /\ SubsOK /\ LifeOK /\ HistoryOK
  BY TypeParts DEF IndInv
<1>1. TableOK' /\ Capacity' /\ PendingTrue' /\ LockHeld'
  BY TableSame DEF Subscribe
<1>2. SubsOK' /\ LifeOK' /\ HistoryOK'
  BY <1>0 DEF Subscribe, TableOK, SubsOK, LifeOK, HistoryOK, lifetime
<1>3. Places'
  BY <1>0 DEF IndInv, Places, SubsOK, Subscribe
<1>4. Lag'
  <2> SUFFICES ASSUME NEW r \in subscribers' \ missed', NEW i \in ID
               PROVE  Learns(r, i, services[i])' \/ \E e \in pending' : e.id = i
    BY DEF Lag
  <2>1. services' = services /\ pending' = pending /\ channel' = channel
    BY DEF Subscribe, table
  <2>2. CASE r = s
    <3>1. channel'[s] = << >> /\ mirror'[s] = services
      BY <1>0, <2>1 DEF IndInv, Places, HistoryOK, Subscribe
    <3>2. Len(channel'[s]) = 0
      BY <3>1
    <3> QED BY <2>1, <2>2, <3>1, <3>2 DEF Learns
  <2>3. CASE r # s
    <3>1. r \in subscribers \ missed /\ r \in Sub /\ mirror'[r] = mirror[r]
      BY <1>0, <2>3 DEF Subscribe, SubsOK, HistoryOK
    <3> QED BY <2>1, <3>1, LearnsSame DEF IndInv, Lag
  <2> QED BY <2>2, <2>3
<1> QED BY <1>1, <1>2, <1>3, <1>4, TypeParts DEF IndInv

\* A receive.
LEMMA ReceiveInd ==
  ASSUME IndInv, NEW s \in Sub, Receive(s)
  PROVE  IndInv'
<1> DEFINE e == Head(channel[s])
<1>0. TableOK /\ SubsOK /\ LifeOK /\ HistoryOK
  BY TypeParts DEF IndInv
<1>1. TableOK' /\ Capacity' /\ PendingTrue' /\ LockHeld'
  BY TableSame DEF Receive
<1>2. /\ channel[s] \in Seq(Event) /\ channel[s] # << >>
      /\ channel'[s] = Tail(channel[s])
      /\ channel' = [channel EXCEPT ![s] = Tail(channel[s])]
      /\ mirror' = [mirror EXCEPT ![s] = [mirror[s] EXCEPT ![e.id] = e.addr]]
  BY <1>0 DEF Receive, SubsOK
<1>3. e \in Event /\ e.id \in ID /\ e.addr \in Addr \cup {None}
  BY <1>2, HeadTailProperties, EventFields
<1>4. Tail(channel[s]) \in Seq(Event) /\ Len(Tail(channel[s])) <= Buffer
  BY <1>0, <1>2, HeadTailProperties, LenProperties, RegistryAssumption DEF SubsOK
<1>5. SubsOK'
  BY <1>0, <1>2, <1>4 DEF SubsOK, Receive
<1>6. LifeOK' /\ HistoryOK'
  BY <1>0, <1>2, <1>3 DEF LifeOK, HistoryOK, Receive, lifetime
<1>7. Places'
  BY <1>0, <1>2 DEF IndInv, Places, SubsOK, Receive
<1>8. Lag'
  <2> SUFFICES ASSUME NEW r \in subscribers' \ missed', NEW i \in ID
               PROVE  Learns(r, i, services[i])' \/ \E f \in pending' : f.id = i
    BY DEF Lag
  <2>1. services' = services /\ pending' = pending /\ r \in subscribers \ missed /\ r \in Sub
    BY <1>0 DEF Receive, table, SubsOK
  <2>2. CASE r = s
    <3>1. mirror[s] \in [ID -> Addr \cup {None}]
          /\ mirror'[s] = [mirror[s] EXCEPT ![e.id] = e.addr]
      BY <1>0, <1>2 DEF HistoryOK
    <3> QED BY <2>1, <2>2, <1>2, <3>1, LearnsReceive DEF IndInv, Lag
  <2>3. CASE r # s
    <3>1. channel'[r] = channel[r] /\ mirror'[r] = mirror[r]
      BY <1>0, <1>2, <2>1, <2>3 DEF SubsOK, HistoryOK
    <3> QED BY <2>1, <3>1, LearnsSame DEF IndInv, Lag
  <2> QED BY <2>2, <2>3
<1> QED BY <1>1, <1>5, <1>6, <1>7, <1>8, TypeParts DEF IndInv

\* The steps of Unsubscribe and Stop, which only take subscribers away.
LEMMA LeaveInd ==
  ASSUME IndInv,
         \/ \E s \in Sub : UnsubscribeDelete(s) \/ UnsubscribeClose(s)
         \/ StopCancel \/ CleanerExit \/ StopClose
  PROVE  IndInv'
<1>0. TableOK /\ SubsOK /\ LifeOK /\ HistoryOK
  BY TypeParts DEF IndInv
<1>1. /\ UNCHANGED <<table, channel, history>>
      /\ subscribers' \subseteq subscribers
  BY DEF UnsubscribeDelete, UnsubscribeClose, StopCancel, CleanerExit, StopClose, subs
<1>2. TableOK' /\ Capacity' /\ PendingTrue' /\ LockHeld'
  BY <1>1, TableSame
<1>3. HistoryOK' /\ Lag'
  BY <1>0, <1>1, PartsSame, LagSame DEF IndInv, SubsOK, table, history
<1>4. SubsOK' /\ LifeOK' /\ Places'
  <2>1. CASE \E s \in Sub : UnsubscribeDelete(s)
    BY <1>0, <2>1 DEF UnsubscribeDelete, IndInv, SubsOK, LifeOK, Places, lifetime
  <2>2. CASE \E s \in Sub : UnsubscribeClose(s)
    <3> PICK s \in Sub : UnsubscribeClose(s)
      BY <2>2
    <3>1. SubsOK' /\ LifeOK'
      BY <1>0 DEF UnsubscribeClose, SubsOK, LifeOK, lifetime
    <3>2. Places'
      BY <1>0 DEF UnsubscribeClose, IndInv, SubsOK, Places
    <3> QED BY <3>1, <3>2
  <2>3. CASE StopCancel \/ CleanerExit
    BY <1>0, <2>3 DEF StopCancel, CleanerExit, IndInv, SubsOK, LifeOK, Places, subs
  <2>4. CASE StopClose
    <3>1. SubsOK' /\ LifeOK'
      BY <1>0, <2>4 DEF StopClose, SubsOK, LifeOK
    <3>2. Places'
      BY <1>0, <2>4 DEF StopClose, IndInv, SubsOK, Places
    <3> QED BY <3>1, <3>2
  <2> QED BY <2>1, <2>2, <2>3, <2>4
<1> QED BY <1>2, <1>3, <1>4, TypeParts DEF IndInv

\* Every step keeps the invariant.
LEMMA NextInd == IndInv /\ [Next]_vars => IndInv'
<1> SUFFICES ASSUME IndInv, [Next]_vars PROVE IndInv'
  OBVIOUS
<1>1. CASE \E i \in ID, a \in Addr, t \in TTL : Register(i, a, t)
  BY <1>1, RegisterInd
<1>2. CASE \E i \in ID : Deregister(i)
  BY <1>2, DeregisterInd
<1>3. CASE \E i \in ID : Heartbeat(i)
  <2> PICK i \in ID : Heartbeat(i)
    BY <1>3
  <2>1. age' \in [ID -> 0..(MaxTTL + 1)]
    BY RegistryAssumption, TypeParts DEF IndInv, TableOK, Heartbeat
  <2> QED BY <2>1, AgeInd DEF Heartbeat
<1>4. CASE CleanupExpired
  BY <1>4, CleanupInd
<1>5. CASE \E e \in pending : Notify(e)
  BY <1>5, NotifyInd
<1>6. CASE \E s \in Sub : Subscribe(s) \/ Receive(s)
  BY <1>6, SubscribeInd, ReceiveInd
<1>7. CASE \/ \E s \in Sub : UnsubscribeDelete(s) \/ UnsubscribeClose(s)
           \/ StopCancel \/ CleanerExit \/ StopClose
  BY <1>7, LeaveInd
<1>8. CASE Tick
  <2>1. age' \in [ID -> 0..(MaxTTL + 1)]
    BY <1>8, RegistryAssumption, TypeParts DEF IndInv, TableOK, Tick
  <2> QED BY <1>8, <2>1, AgeInd DEF Tick
<1>9. CASE UNCHANGED vars
  <2>1. UNCHANGED <<table, subs, lifetime, history>>
    BY <1>9 DEF vars
  <2>2. age' \in [ID -> 0..(MaxTTL + 1)]
    BY <2>1, TypeParts DEF IndInv, TableOK, table
  <2> QED BY <2>1, <2>2, AgeInd DEF table
<1> QED BY <1>1, <1>2, <1>3, <1>4, <1>5, <1>6, <1>7, <1>8, <1>9 DEF Next
-----------------------------------------------------------------------------
(* Theorems                                                                *)

\* The invariant holds throughout.
THEOREM Invariance == Spec => []IndInv
BY InitInd, NextInd, PTL DEF Spec

\* Register never lets the registry grow past MaxServices.
THEOREM LimitKept == Spec => []Capacity
<1>1. IndInv => Capacity
  BY DEF IndInv
<1> QED BY <1>1, Invariance, PTL

\* notify never sends on a closed channel, whatever Unsubscribe and Stop do.
THEOREM NoSendOnClosed == Spec => []SendsOnOpen
<1>1. IndInv => SendsOnOpen
  BY DEF IndInv, TypeOK, Places, SendsOnOpen
<1> QED BY <1>1, Invariance, PTL

\* A subscriber that no event was dropped for can follow the registry from its
\* channel alone, for any buffer size and any number of subscribers.
THEOREM EventsAreComplete == Spec => []EventsComplete
<1>1. IndInv => EventsComplete
  BY DEF IndInv, LockHeld, Lag, EventsComplete
<1> QED BY <1>1, Invariance, PTL

\* Every variable of the registry keeps its type: no buffer outgrows its size, and
\* no channel is closed more than twice.
THEOREM TypeCorrect == Spec => []TypeOK
<1>1. IndInv => TypeOK
  BY DEF IndInv
<1> QED BY <1>1, Invariance, PTL
-----------------------------------------------------------------------------
(* Discovery                                                               *)

\* Unless a change is still on its way, the list on its way to the load
\* balancer, or else the one it uses, has the registered services.
UpToDate ==
  pending = {} /\ channel[W] = << >> /\ ~behind =>
    /\ watch = "lb" => built.services = services
    /\ watch \in {"recv", "checker"} => lb.services = services

\* Unless there was a race, at most one of the watcher and the reloads is between
\* its two updates; it is about to give the checker the load balancer's list, and
\* when there is none the two already share it.
Paired ==
  ~raced =>
    /\ watch = "checker" =>
         built = lb /\ \A r \in Reload : reload[r] # "checker"
    /\ \A r \in Reload : reload[r] = "checker" =>
         loaded[r] = lb /\ \A q \in Reload : reload[q] = "checker" => q = r
    /\ ~Between => lb = checker

ReloadTypes == DOMAIN reload = Reload /\ DOMAIN loaded = Reload

\* The watcher is one of the subscribers.
LEMMA WatcherSubscribes == W \in Sub
BY DiscoveryAssumption DEF W

\* A step of the composition is a step of the registry or leaves it alone.
LEMMA StepImplements == [DNext]_allVars => [Next]_vars
<1> SUFFICES ASSUME [DNext]_allVars PROVE [Next]_vars
  OBVIOUS
<1>1. CASE RegistryStep
  BY <1>1 DEF RegistryStep, Next
<1>2. CASE NotifyWatcher
  BY <1>2 DEF NotifyWatcher, Next
<1>3. CASE WatchSubscribe \/ WatchReceive \/ WatchLeave \/ WatchUnsubscribed
  BY <1>3, WatcherSubscribes
     DEF WatchSubscribe, WatchReceive, WatchLeave, WatchUnsubscribed, Next
<1>4. CASE WatchBuild \/ WatchUpdateLB \/ WatchUpdateChecker
  BY <1>4 DEF WatchBuild, WatchUpdateLB, WatchUpdateChecker
<1>5. CASE \E c \in Cfg : EditFile(c)
  BY <1>5 DEF EditFile
<1>6. CASE \E r \in Reload : \/ ReloadLoad(r) \/ ReloadSwap(r)
                             \/ ReloadUpdateLB(r) \/ ReloadUpdateChecker(r)
  BY <1>6 DEF ReloadLoad, ReloadSwap, ReloadUpdateLB, ReloadUpdateChecker
<1>7. CASE UNCHANGED allVars
  BY <1>7 DEF allVars
<1> QED BY <1>1, <1>2, <1>3, <1>4, <1>5, <1>6, <1>7 DEF DNext

\* The watcher and the reloads only use the registry as its callers may: the
\* composition implements the registry's specification.
THEOREM ImplementsRegistry == DSpec => Spec
<1>1. DInit => Init
  BY DEF DInit
<1> QED BY <1>1, StepImplements, PTL DEF DSpec, Spec

\* So it keeps the registry's invariant.
LEMMA RegistryInvariant == DSpec => []IndInv
BY ImplementsRegistry, Invariance, PTL

\* Every step keeps UpToDate.
LEMMA UpToDateInd ==
  ASSUME IndInv, UpToDate, [DNext]_allVars
  PROVE  UpToDate'
<1>0. W \in Sub /\ channel \in [Sub -> Seq(Event)] /\ LockHeld
  BY WatcherSubscribes DEF IndInv, TypeOK
<1>1. CASE RegistryStep
  <2>1. CASE \/ \E i \in ID, a \in Addr, t \in TTL : Register(i, a, t)
             \/ \E i \in ID : Deregister(i)
    <3>1. pending' # {}
      BY <2>1 DEF Register, Deregister
    <3> QED BY <3>1 DEF UpToDate
  <2>2. CASE CleanupExpired
    <3>1. pending' # {}
      BY <2>2 DEF CleanupExpired, Removals
    <3> QED BY <3>1 DEF UpToDate
  <2>3. CASE \/ \E i \in ID : Heartbeat(i)
             \/ StopCancel \/ CleanerExit \/ StopClose \/ Tick
    <3>1. UNCHANGED <<services, pending, channel>>
      BY <2>3 DEF Heartbeat, StopCancel, CleanerExit, StopClose, Tick, table, subs
    <3> QED BY <1>1, <3>1 DEF RegistryStep, discovery, UpToDate
  <2> QED BY <1>1, <2>1, <2>2, <2>3 DEF RegistryStep
<1>2. CASE NotifyWatcher
  <2>1. CASE W \notin subscribers
    BY <1>2, <2>1 DEF NotifyWatcher, UpToDate
  <2>2. CASE W \in subscribers
    <3> PICK e \in pending : Notify(e)
      BY <1>2 DEF NotifyWatcher
    <3>1. e \in Event /\ channel[W] \in Seq(Event)
      BY <1>0 DEF IndInv, TypeOK
    <3>2. CASE HasSpace(W)
      <4>1. channel'[W] = Append(channel[W], e)
        BY <1>0, <2>2, <3>2 DEF Notify
      <4>2. channel'[W] # << >>
        BY <3>1, <4>1, AppendProperties
      <4> QED BY <4>2 DEF UpToDate
    <3>3. CASE ~HasSpace(W)
      <4>1. channel'[W] = channel[W]
        BY <1>0, <3>3 DEF Notify
      <4>2. channel[W] # << >>
        BY <3>1, <3>3, RegistryAssumption, EmptySeq, LenProperties DEF HasSpace
      <4> QED BY <4>1, <4>2 DEF UpToDate
    <3> QED BY <3>2, <3>3
  <2> QED BY <2>1, <2>2
<1>3. CASE WatchSubscribe \/ WatchLeave \/ WatchUnsubscribed
  BY <1>3 DEF WatchSubscribe, WatchLeave, WatchUnsubscribed, Subscribe,
              UnsubscribeDelete, UnsubscribeClose, discovery, table, UpToDate
<1>4. CASE WatchReceive
  BY <1>4 DEF WatchReceive, UpToDate
<1>5. CASE WatchBuild
  <2>1. built'.services = services
    BY <1>5 DEF WatchBuild, Combine
  <2>2. watch' = "lb" /\ services' = services
    BY <1>5 DEF WatchBuild, vars, table
  <2> QED BY <2>1, <2>2 DEF UpToDate
<1>6. CASE WatchUpdateLB \/ WatchUpdateChecker
  BY <1>6 DEF WatchUpdateLB, WatchUpdateChecker, vars, table, subs, UpToDate
<1>7. CASE \/ \E c \in Cfg : EditFile(c)
           \/ \E r \in Reload : ReloadLoad(r) \/ ReloadSwap(r) \/ ReloadUpdateChecker(r)
  BY <1>7 DEF EditFile, ReloadLoad, ReloadSwap, ReloadUpdateChecker, vars, table, subs,
              UpToDate
<1>8. CASE \E r \in Reload : ReloadUpdateLB(r)
  BY <1>8 DEF ReloadUpdateLB, UpToDate
<1>9. CASE UNCHANGED allVars
  BY <1>9 DEF allVars, vars, table, subs, discovery, UpToDate
<1> QED BY <1>1, <1>2, <1>3, <1>4, <1>5, <1>6, <1>7, <1>8, <1>9 DEF DNext

\* The load balancer at rest uses exactly the registered services, for any number
\* of services and reloads and any buffer, dropped events included, unless a
\* change escaped the watcher or a reload came last.
THEOREM WatcherKeepsUp == DSpec => []ServicesInUse
<1>1. DInit => UpToDate
  BY DEF DInit, Init, UpToDate, NoServices
<1>2. IndInv /\ UpToDate /\ [DNext]_allVars => UpToDate'
  BY UpToDateInd
<1>3. UpToDate => ServicesInUse
  BY DEF UpToDate, ServicesInUse, Quiescent
<1> QED BY <1>1, <1>2, <1>3, RegistryInvariant, PTL DEF DSpec
-----------------------------------------------------------------------------
\* Every step keeps Paired.
LEMMA PairedInd ==
  ASSUME ReloadTypes, Paired, [DNext]_allVars
  PROVE  ReloadTypes' /\ Paired'
<1> DEFINE updates == <<lb, checker, watch, built, reload, loaded, raced>>
<1>1. CASE UNCHANGED updates
  BY <1>1 DEF ReloadTypes, Paired, Between
<1>2. CASE \/ RegistryStep \/ NotifyWatcher
           \/ WatchSubscribe \/ WatchLeave \/ WatchUnsubscribed
           \/ \E c \in Cfg : EditFile(c)
           \/ UNCHANGED allVars
  <2>1. UNCHANGED updates
    BY <1>2 DEF RegistryStep, NotifyWatcher, WatchSubscribe, WatchLeave, WatchUnsubscribed,
                EditFile, allVars, discovery, reloads
  <2> QED BY <1>1, <2>1
<1>3. CASE WatchReceive \/ WatchBuild
  BY <1>3 DEF WatchReceive, WatchBuild, reloads, ReloadTypes, Paired, Between
<1>4. CASE WatchUpdateLB
  BY <1>4 DEF WatchUpdateLB, reloads, ReloadTypes, Paired, Between
<1>5. CASE WatchUpdateChecker
  BY <1>5 DEF WatchUpdateChecker, reloads, ReloadTypes, Paired, Between
<1>6. ASSUME NEW r \in Reload, ReloadLoad(r)
      PROVE  ReloadTypes' /\ Paired'
  BY <1>6 DEF ReloadLoad, ReloadTypes, Paired, Between
<1>7. ASSUME NEW r \in Reload, ReloadSwap(r)
      PROVE  ReloadTypes' /\ Paired'
  <2>1. PICK pc \in {"lb", "idle"} : reload' = [reload EXCEPT ![r] = pc]
    BY <1>7 DEF ReloadSwap
  <2>2. PICK l : loaded' = [loaded EXCEPT ![r] = l]
    BY <1>7 DEF ReloadSwap
  <2> QED BY <1>7, <2>1, <2>2 DEF ReloadSwap, ReloadTypes, Paired, Between
<1>8. ASSUME NEW r \in Reload, ReloadUpdateLB(r)
      PROVE  ReloadTypes' /\ Paired'
  BY <1>8 DEF ReloadUpdateLB, ReloadTypes, Paired, Between
<1>9. ASSUME NEW r \in Reload, ReloadUpdateChecker(r)
      PROVE  ReloadTypes' /\ Paired'
  BY <1>9 DEF ReloadUpdateChecker, ReloadTypes, Paired, Between
<1> QED BY <1>2, <1>3, <1>4, <1>5, <1>6, <1>7, <1>8, <1>9 DEF DNext

\* At rest the load balancer and the checker have the same list, for any number of
\* reloads, unless two updates raced.
THEOREM PairsStayTogether == DSpec => []UpdatesPaired
<1>1. DInit => ReloadTypes /\ Paired
  BY DEF DInit, ReloadTypes, Paired, Between
<1>2. ReloadTypes /\ Paired /\ [DNext]_allVars => (ReloadTypes /\ Paired)'
  BY PairedInd
<1>3. Paired => UpdatesPaired
  BY DEF Paired, UpdatesPaired, Quiescent, Between
<1> QED BY <1>1, <1>2, <1>3, PTL DEF DSpec
-----------------------------------------------------------------------------
\* The types of the watcher's and the reloads' variables.
ListTypes ==
  /\ lb \in List /\ checker \in List /\ built \in List
  /\ watch \in {"recv", "list", "lb", "checker"}
  /\ file \in Cfg /\ config \in Cfg
  /\ timer \in BOOLEAN /\ behind \in BOOLEAN /\ raced \in BOOLEAN
  /\ reload \in [Reload -> {"idle", "loaded", "lb", "checker"}]
  /\ loaded \in [Reload -> List]

\* What is forgotten is a list of the start-up configuration.
LEMMA ForgottenIsList == Forgotten \in List /\ NoServices \in Services
BY DiscoveryAssumption DEF Forgotten, List, NoServices, Services

\* Every step keeps them: a list is built from what its builder has read, and is
\* handed on unchanged.
LEMMA ListTypesInd ==
  ASSUME TypeOK, ListTypes, [DNext]_allVars
  PROVE  ListTypes'
<1> USE ForgottenIsList, DiscoveryAssumption
<1>0. services \in Services /\ Fresh \subseteq Build
  BY DEF TypeOK, Services, Fresh
<1>1. CASE UNCHANGED discovery
  BY <1>1 DEF discovery, ListTypes
<1>2. CASE \/ RegistryStep \/ WatchSubscribe \/ WatchLeave \/ WatchUnsubscribed
           \/ UNCHANGED allVars
  BY <1>1, <1>2 DEF RegistryStep, WatchSubscribe, WatchLeave, WatchUnsubscribed, allVars
<1>3. CASE NotifyWatcher \/ WatchReceive
  BY <1>3 DEF NotifyWatcher, WatchReceive, reloads, ListTypes
<1>4. CASE WatchBuild
  <2>1. built' \in List
    BY <1>0, <1>4 DEF WatchBuild, Combine, List
  <2> QED BY <1>4, <2>1 DEF WatchBuild, reloads, ListTypes
<1>5. CASE WatchUpdateLB \/ WatchUpdateChecker
  BY <1>5 DEF WatchUpdateLB, WatchUpdateChecker, Between, reloads, ListTypes
<1>6. ASSUME NEW c \in Cfg, EditFile(c) PROVE ListTypes'
  BY <1>6 DEF EditFile, ListTypes
<1>7. ASSUME NEW r \in Reload, ReloadLoad(r) PROVE ListTypes'
  <2>1. loaded' \in [Reload -> List]
    BY <1>7 DEF ReloadLoad, ListTypes, List
  <2> QED BY <1>7, <2>1 DEF ReloadLoad, ListTypes
<1>8. ASSUME NEW r \in Reload, ReloadSwap(r) PROVE ListTypes'
  <2>1. loaded[r] \in List /\ loaded[r].cfg \in Cfg
    BY DEF ListTypes, List
  <2> QED BY <1>8, <2>1 DEF ReloadSwap, ListTypes
<1>9. ASSUME NEW r \in Reload, ReloadUpdateLB(r) PROVE ListTypes'
  <2>1. loaded[r].cfg \in Cfg
    BY DEF ListTypes, List
  <2>2. lb' \in List
    BY <1>0, <1>9, <2>1 DEF ReloadUpdateLB, List
  <2>3. raced' \in BOOLEAN
    BY <1>9 DEF ReloadUpdateLB, Between, ListTypes
  <2> QED BY <1>9, <2>2, <2>3 DEF ReloadUpdateLB, ListTypes
<1>10. ASSUME NEW r \in Reload, ReloadUpdateChecker(r) PROVE ListTypes'
  BY <1>10 DEF ReloadUpdateChecker, ListTypes
<1> QED BY <1>2, <1>3, <1>4, <1>5, <1>6, <1>7, <1>8, <1>9, <1>10 DEF DNext

\* The registry's variables and the lists keep their types, for any number of
\* services, configurations, reloads and subscribers.
THEOREM DiscoveryTypes == DSpec => []DTypeOK
<1>1. DInit => ListTypes
  <2> SUFFICES ASSUME DInit PROVE ListTypes
    OBVIOUS
  <2>1. lb \in List
    BY ForgottenIsList, DiscoveryAssumption DEF DInit, List
  <2> QED BY <2>1, ForgottenIsList, DiscoveryAssumption DEF DInit, ListTypes
<1>2. IndInv => TypeOK
  BY DEF IndInv
<1>3. TypeOK /\ ListTypes /\ [DNext]_allVars => ListTypes'
  BY ListTypesInd
<1>4. TypeOK /\ ListTypes => DTypeOK
  BY DEF ListTypes, DTypeOK
<1> QED BY <1>1, <1>2, <1>3, <1>4, RegistryInvariant, PTL DEF DSpec
=============================================================================
