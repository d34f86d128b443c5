---------------------------- MODULE ServerProofs ----------------------------
(***************************************************************************)
(* What Server promises for any number of controllers, actors and inputs,  *)
(* however their threads interleave.                                       *)
(***************************************************************************)
EXTENDS Server, TLAPS, FiniteSetTheorems

-----------------------------------------------------------------------------
(* Sequences and their members.                                            *)

LEMMA MembersAppend ==
    ASSUME NEW S, NEW q \in Seq(S), NEW x
    PROVE  /\ Members(Append(q, x)) = Members(q) \cup {x}
           /\ Len(Append(q, x)) = Len(q) + 1 /\ Len(q) \in Nat
<1>1. /\ Len(q) \in Nat /\ Len(Append(q, x)) = Len(q) + 1
      /\ Append(q, x)[Len(q) + 1] = x
      /\ \A i \in 1 .. Len(q) : Append(q, x)[i] = q[i]
  OBVIOUS
<1>2. Members(Append(q, x)) \subseteq Members(q) \cup {x}
  BY <1>1 DEF Members
<1>3. Members(q) \cup {x} \subseteq Members(Append(q, x))
  BY <1>1 DEF Members
<1> QED BY <1>1, <1>2, <1>3

\* What the proofs use of the objects.
LEMMA Objects1 ==
    /\ Len(Order) \in Nat /\ Len(Added) \in Nat /\ Len(Order) = Len(Added) + 2
    /\ Order[Len(Added) + 1] = Default /\ Order[Len(Added) + 2] = Temporary
    /\ Members(Order) = Controllers
    /\ Len(Actors) \in Nat
<1>1. Added \in Seq(Members(Added)) /\ Actors \in Seq(Members(Actors))
  BY ServerAssumption DEF ServerAssumption
<1>2. Len(Added) \in Nat /\ Len(Actors) \in Nat
  BY <1>1
<1>3. /\ Len(Order) = Len(Added) + 2
      /\ \A i \in 1 .. Len(Added) : Order[i] = Added[i]
      /\ Order[Len(Added) + 1] = Default /\ Order[Len(Added) + 2] = Temporary
  BY <1>1, <1>2 DEF Order
<1>4. Members(Order) \subseteq Controllers
  BY <1>2, <1>3 DEF Members, Controllers
<1>5. Controllers \subseteq Members(Order)
  BY <1>2, <1>3 DEF Members, Controllers
<1> QED BY <1>2, <1>3, <1>4, <1>5

\* The members of a sequence of distinct things are as many as it is long.
LEMMA MembersCounted ==
    ASSUME NEW s, Distinct(s), Len(s) \in Nat
    PROVE  IsFiniteSet(Members(s)) /\ Cardinality(Members(s)) = Len(s)
<1> DEFINE f == [i \in 1 .. Len(s) |-> s[i]]
<1>1. f \in Bijection(1 .. Len(s), Members(s))
  BY DEF Bijection, Injection, IsInjective, Surjection, Members, Distinct
<1>2. ExistsBijection(1 .. Len(s), Members(s))
  BY <1>1 DEF ExistsBijection
<1>3. IsFiniteSet(1 .. Len(s)) /\ Cardinality(1 .. Len(s)) = Len(s)
  BY FS_Interval
<1> QED BY <1>2, <1>3, FS_Bijection

LEMMA ObjectsFinite ==
    /\ IsFiniteSet(Controllers)
    /\ IsFiniteSet(Members(Actors)) /\ Cardinality(Members(Actors)) = Len(Actors)
  BY Objects1, MembersCounted, ServerAssumption DEF ServerAssumption

-----------------------------------------------------------------------------
(* How many messages of a kind the server has to handle.                   *)

Places(q, what) == {i \in 1 .. Len(q) : q[i] = what}
Waiting(q, what) == Cardinality(Places(q, what))

LEMMA PlacesFinite ==
    ASSUME NEW S, NEW q \in Seq(S), NEW what
    PROVE  IsFiniteSet(Places(q, what)) /\ Waiting(q, what) \in Nat
<1>1. IsFiniteSet(1 .. Len(q))
  BY FS_Interval
<1>2. Places(q, what) \in SUBSET (1 .. Len(q))
  BY DEF Places
<1> QED BY <1>1, <1>2, FS_Subset, FS_CardinalityType DEF Waiting

LEMMA WaitingAppend ==
    ASSUME NEW S, NEW q \in Seq(S), NEW x, NEW what
    PROVE  Waiting(Append(q, x), what) = Waiting(q, what) + (IF x = what THEN 1 ELSE 0)
<1>1. /\ Len(q) \in Nat /\ Len(Append(q, x)) = Len(q) + 1
      /\ Append(q, x)[Len(q) + 1] = x
      /\ \A i \in 1 .. Len(q) : Append(q, x)[i] = q[i]
  OBVIOUS
<1>2. IsFiniteSet(Places(q, what)) /\ Waiting(q, what) \in Nat
  BY PlacesFinite
<1>3. CASE x = what
  <2>1. Places(Append(q, x), what) = Places(q, what) \cup {Len(q) + 1}
    BY <1>1, <1>3 DEF Places
  <2>2. Len(q) + 1 \notin Places(q, what)
    BY <1>1 DEF Places
  <2> QED BY <1>2, <1>3, <2>1, <2>2, FS_AddElement DEF Waiting
<1>4. CASE x # what
  <2>1. Places(Append(q, x), what) = Places(q, what)
    BY <1>1, <1>4 DEF Places
  <2> QED BY <1>2, <1>4, <2>1 DEF Waiting
<1> QED BY <1>3, <1>4

LEMMA WaitingTail ==
    ASSUME NEW S, NEW q \in Seq(S), q # << >>, NEW what
    PROVE  Waiting(q, what) = Waiting(Tail(q), what) + (IF Head(q) = what THEN 1 ELSE 0)
<1>1. /\ Len(q) \in Nat /\ Len(q) >= 1 /\ Len(Tail(q)) = Len(q) - 1
      /\ Head(q) = q[1] /\ Tail(q) \in Seq(S)
      /\ \A i \in 1 .. Len(q) - 1 : Tail(q)[i] = q[i + 1]
  OBVIOUS
<1> DEFINE T == Places(Tail(q), what)
           R == {i \in 2 .. Len(q) : q[i] = what}
           f == [i \in T |-> i + 1]
<1>2. IsFiniteSet(T) /\ Waiting(Tail(q), what) \in Nat /\ Cardinality(T) \in Nat
  BY <1>1, PlacesFinite DEF Waiting
<1>3. f \in Bijection(T, R)
  <2>1. \A i \in T : i \in Nat /\ i + 1 \in R
    BY <1>1 DEF Places
  <2>2. \A i, j \in T : f[i] = f[j] => i = j
    BY <2>1
  <2>3. \A k \in R : k - 1 \in T /\ f[k - 1] = k
    BY <1>1 DEF Places
  <2>4. f \in Injection(T, R)
    BY <2>1, <2>2 DEF Injection, IsInjective
  <2>5. f \in Surjection(T, R)
    BY <2>1, <2>3 DEF Surjection
  <2> QED BY <2>4, <2>5 DEF Bijection
<1>4. IsFiniteSet(R) /\ Cardinality(R) = Waiting(Tail(q), what)
  <2>1. ExistsBijection(T, R)
    BY <1>3 DEF ExistsBijection
  <2> QED BY <1>2, <2>1, FS_Bijection DEF Waiting
<1>5. CASE Head(q) = what
  <2>1. Places(q, what) = R \cup {1} /\ 1 \notin R
    BY <1>1, <1>5 DEF Places
  <2> QED BY <1>2, <1>4, <1>5, <2>1, FS_AddElement DEF Waiting
<1>6. CASE Head(q) # what
  <2>1. Places(q, what) = R
    BY <1>1, <1>6 DEF Places
  <2> QED BY <1>2, <1>4, <1>6, <2>1 DEF Waiting
<1> QED BY <1>5, <1>6

-----------------------------------------------------------------------------
(* The invariant.                                                          *)

Tellers(what) == IF what = "controllers" THEN Controllers ELSE Members(Actors)

\* Each counter is what has not been told, or told and not been handled.
Counted ==
    crashed # "service" => \A what \in {"controllers", "clients"} :
        missing[what] = Cardinality(Tellers(what) \ told) + Waiting(queue, what)

\* The manager goes through the controllers in order: start, then register.
Registering ==
    /\ adding >= 0 => Manager \in told
    /\ registered = {Order[i] : i \in 1 .. adding}
    /\ started \cap Controllers \subseteq {Order[i] : i \in 1 .. adding + 1}

\* How many actors the server's thread has gone through.
Gone == IF ~Called("controllers") THEN 0
        ELSE IF handling.at \in {"start", "add"} THEN handling.n - 1
        ELSE Len(Actors)

\* The server's thread goes through the actors in order: start, then add.
StartsActors ==
    /\ handling.at = "start" => handling.n \in 1 .. Len(Actors) + 1
    /\ handling.at = "add" => handling.n \in 1 .. Len(Actors)
    /\ handling.at \in {"start", "add"} => Called("controllers")
    /\ clients = {Actors[i] : i \in 1 .. Gone}
    /\ ~Called("controllers") => started \cap Members(Actors) = {}

\* What has been told when the user is called back.
CallsBack ==
    /\ Called("controllers") => Controllers \subseteq told
    /\ started \cap Inputs # {} => Called("clients")
    /\ Actors # << >> =>
        /\ events \in {<< >>, << "controllers" >>, << "controllers", "clients" >>}
        /\ Called("clients") => /\ Members(Actors) \subseteq told
                                /\ handling.at \in {"idle", "after"}

ServerInv == /\ TypeOK /\ Counted /\ Registering /\ StartsActors /\ CallsBack
             /\ DefaultRegistered

\* A counter at zero: all have been told.
LEMMA NoneMissing ==
    ASSUME NEW what \in {"controllers", "clients"}, NEW heard, NEW S, NEW q \in Seq(S),
           Cardinality(Tellers(what) \ heard) + Waiting(q, what) = 0
    PROVE  Tellers(what) \subseteq heard
<1>1. IsFiniteSet(Tellers(what))
  BY ObjectsFinite DEF Tellers
<1>2. IsFiniteSet(Tellers(what) \ heard)
  <2>1. Tellers(what) \ heard \in SUBSET Tellers(what)
    OBVIOUS
  <2> QED BY <1>1, <2>1, FS_Subset
<1>3. Cardinality(Tellers(what) \ heard) \in Nat /\ Waiting(q, what) \in Nat
  BY <1>2, FS_CardinalityType, PlacesFinite
<1>4. Cardinality(Tellers(what) \ heard) = 0
  BY <1>3
<1> QED BY <1>2, <1>4, FS_EmptySet

\* All controllers have been told: all but the last one are registered.
LEMMA AllRegistered ==
    ASSUME TypeOK, Registering, Controllers \subseteq told
    PROVE  /\ Members(SubSeq(Order, 1, Len(Order) - 1)) \subseteq registered
           /\ Default \in registered
<1>1. Order[Len(Order)] \in Controllers /\ Len(Order) \in Nat /\ Len(Order) >= 2
  BY Objects1 DEF Members
<1>2. Order[Len(Order)] \in started
  BY <1>1 DEF TypeOK
<1>3. adding \in -1 .. Len(Order)
  BY DEF TypeOK
<1>4. PICK i \in 1 .. adding + 1 : Order[i] = Order[Len(Order)]
  BY <1>1, <1>2 DEF Registering
<1>5. i >= Len(Order)
  <2>1. CASE i \in 1 .. Len(Order)
    BY <1>1, <1>4, <2>1, ServerAssumption DEF ServerAssumption, Distinct
  <2>2. CASE i \notin 1 .. Len(Order)
    BY <1>1, <1>3, <2>2
  <2> QED BY <2>1, <2>2
<1>6. adding >= Len(Order) - 1
  BY <1>1, <1>3, <1>5
<1>7. \A j \in 1 .. Len(Order) - 1 : Order[j] \in registered
  BY <1>1, <1>3, <1>6 DEF Registering
<1>8. Members(SubSeq(Order, 1, Len(Order) - 1)) \subseteq {Order[j] : j \in 1 .. Len(Order) - 1}
  <2>1. Order \in Seq(Controllers)
    BY ServerAssumption DEF ServerAssumption, Order, Controllers, Members
  <2>2. /\ Len(SubSeq(Order, 1, Len(Order) - 1)) = Len(Order) - 1
        /\ \A j \in 1 .. Len(Order) - 1 : SubSeq(Order, 1, Len(Order) - 1)[j] = Order[j]
    BY <1>1, <2>1
  <2> QED BY <2>2 DEF Members
<1>9. Default = Order[Len(Order) - 1] /\ Len(Order) - 1 \in 1 .. Len(Order) - 1
  BY <1>1, Objects1
<1> QED BY <1>7, <1>8, <1>9

-----------------------------------------------------------------------------
(* Every step keeps it.                                                    *)

\* Who may start, and who is told.
LEMMA Disjoint ==
    /\ Controllers \subseteq Objects /\ Members(Actors) \subseteq Objects
    /\ Inputs \subseteq Objects /\ Manager \in Objects /\ Server \in Objects
    /\ Controllers \cap Members(Actors) = {}
    /\ Inputs \cap (Controllers \cup Members(Actors)) = {}
    /\ {Manager, Server} \cap (Controllers \cup Members(Actors) \cup Inputs) = {}
  BY ServerAssumption DEF ServerAssumption, Objects

\* Steps that tell nothing, and leave the server's thread and the controllers
\* alone.
LEMMA ElsewhereKeeps ==
    ASSUME ServerInv, TypeOK',
           UNCHANGED <<told, adding, registered, queue, handling, missing, clients,
                       events, crashed>>,
           \A o \in started' \ started : o \in {Manager, Server}
    PROVE  ServerInv'
<1>1. UNCHANGED Gone /\ \A e : Called(e)' = Called(e)
  BY DEF Gone, Called
<1>2. /\ started' \cap Controllers \subseteq started
      /\ started' \cap Members(Actors) \subseteq started
      /\ started' \cap Inputs \subseteq started
  BY Disjoint
<1>3. Counted' /\ Registering'
  BY <1>2 DEF ServerInv, Counted, Registering
<1>4. StartsActors' /\ CallsBack'
  BY <1>1, <1>2 DEF ServerInv, StartsActors, CallsBack
<1> QED BY <1>3, <1>4 DEF ServerInv, DefaultRegistered

LEMMA MainKeeps ==
    ASSUME ServerInv, ConstructManager \/ SetFunction \/ \E o \in Objects : CreateService(o)
    PROVE  ServerInv'
<1>1. TypeOK'
  BY Disjoint DEF ServerInv, TypeOK, ConstructManager, SetFunction, CreateService
<1>2. \A o \in started' \ started : o \in {Manager, Server}
  BY DEF ConstructManager, SetFunction, CreateService
<1> QED BY <1>1, <1>2, ElsewhereKeeps DEF ConstructManager, SetFunction, CreateService

LEMMA ReportKeeps ==
    ASSUME ServerInv, NEW what \in {"controllers", "clients"}, NEW o \in Tellers(what),
           Report(o, what)
    PROVE  ServerInv'
<1>1. /\ o \in up \ told /\ told' = told \cup {o} /\ crashed = "no"
      /\ UNCHANGED <<main, started, up, function, adding, registered, handling,
                     missing, clients, events>>
      /\ \/ queue' = Append(queue, what) /\ crashed' = crashed
         \/ crashed' = "service" /\ queue' = queue
  BY DEF Report, Goes
<1>2. TypeOK'
  <2>1. queue \in Seq({"controllers", "clients"})
    BY DEF ServerInv, TypeOK
  <2>2. queue' \in Seq({"controllers", "clients"})
    BY <1>1, <2>1
  <2> QED BY <1>1, <2>2 DEF ServerInv, TypeOK
<1>3. Counted'
  <2> SUFFICES ASSUME crashed' # "service", NEW w \in {"controllers", "clients"}
               PROVE  missing[w] = Cardinality(Tellers(w) \ told') + Waiting(queue', w)
    BY <1>1 DEF Counted, Tellers
  <2>1. /\ queue' = Append(queue, what) /\ queue \in Seq({"controllers", "clients"})
        /\ missing[w] = Cardinality(Tellers(w) \ told) + Waiting(queue, w)
    BY <1>1 DEF ServerInv, Counted, TypeOK
  <2>2. IsFiniteSet(Tellers(w) \ told)
    <3>1. IsFiniteSet(Tellers(w)) /\ Tellers(w) \ told \in SUBSET Tellers(w)
      BY ObjectsFinite DEF Tellers
    <3> QED BY <3>1, FS_Subset
  <2>3. Cardinality(Tellers(w) \ told) \in Nat /\ Waiting(queue, w) \in Nat
    BY <2>1, <2>2, FS_CardinalityType, PlacesFinite
  <2>4. CASE w = what
    <3>1. Tellers(w) \ told' = (Tellers(w) \ told) \ {o} /\ o \in Tellers(w) \ told
      BY <1>1, <2>4
    <3>2. Cardinality(Tellers(w) \ told') = Cardinality(Tellers(w) \ told) - 1
      BY <2>2, <3>1, FS_RemoveElement
    <3>3. Waiting(queue', w) = Waiting(queue, w) + 1
      BY <2>1, <2>4, WaitingAppend
    <3> QED BY <2>1, <2>3, <3>2, <3>3
  <2>5. CASE w # what
    <3>1. o \notin Tellers(w)
      BY <2>5, Disjoint DEF Tellers
    <3>2. Tellers(w) \ told' = Tellers(w) \ told
      BY <1>1, <3>1
    <3>3. Waiting(queue', w) = Waiting(queue, w)
      BY <2>1, <2>3, <2>5, WaitingAppend
    <3> QED BY <2>1, <3>2, <3>3
  <2> QED BY <2>4, <2>5
<1>4. Registering'
  BY <1>1 DEF ServerInv, Registering
<1>5. StartsActors' /\ CallsBack' /\ DefaultRegistered'
  BY <1>1 DEF ServerInv, StartsActors, CallsBack, DefaultRegistered, Called, Gone
<1> QED BY <1>2, <1>3, <1>4, <1>5 DEF ServerInv

LEMMA ManagerKeeps ==
    ASSUME ServerInv, ManagerTold \/ StartController \/ RegisterController
    PROVE  ServerInv'
<1>1. /\ UNCHANGED <<main, up, function, queue, handling, missing, clients, events,
                     crashed>>
      /\ \A e : Called(e)' = Called(e)
      /\ Gone' = Gone
  BY DEF ManagerTold, StartController, RegisterController, Called, Gone
<1> USE Objects1, Disjoint
<1>2. CASE ManagerTold
  <2>1. /\ told' = told \cup {Manager} /\ Manager \in up \ told
        /\ adding' \in {0, adding} /\ UNCHANGED <<started, registered>>
    BY <1>2 DEF ManagerTold
  <2>2. adding = -1
    BY <2>1 DEF ServerInv, TypeOK, Registering
  <2>3. TypeOK'
    BY <1>1, <2>1, <2>2 DEF ServerInv, TypeOK
  <2>4. Counted'
    <3>1. \A w \in {"controllers", "clients"} : Tellers(w) \ told' = Tellers(w) \ told
      BY <2>1 DEF Tellers
    <3> QED BY <1>1, <3>1 DEF ServerInv, Counted, Tellers
  <2>5. Registering'
    BY <2>1, <2>2 DEF ServerInv, Registering
  <2> QED BY <1>1, <2>1, <2>3, <2>4, <2>5
         DEF ServerInv, StartsActors, CallsBack, DefaultRegistered
<1>3. CASE StartController
  <2>1. PICK o : /\ o = Order[adding + 1] /\ started' = started \cup {o}
                 /\ adding \in 0 .. Len(Order) - 1
                 /\ UNCHANGED <<told, adding, registered>>
    BY <1>3 DEF StartController
  <2>2. o \in Controllers
    BY <2>1 DEF Members
  <2>3. TypeOK'
    BY <1>1, <2>1, <2>2 DEF ServerInv, TypeOK
  <2>4. Counted' /\ Registering'
    BY <1>1, <2>1 DEF ServerInv, Counted, Registering
  <2>5. StartsActors' /\ CallsBack'
    BY <1>1, <2>1, <2>2 DEF ServerInv, StartsActors, CallsBack
  <2> QED BY <1>1, <2>3, <2>4, <2>5 DEF ServerInv, DefaultRegistered
<1>4. CASE RegisterController
  <2>1. PICK o : /\ o = Order[adding + 1] /\ registered' = registered \cup {o}
                 /\ adding \in 0 .. Len(Order) - 1 /\ adding' = adding + 1
                 /\ UNCHANGED <<told, started>>
    BY <1>4 DEF RegisterController
  <2>2. o \in Controllers
    BY <2>1 DEF Members
  <2>3. TypeOK'
    BY <1>1, <2>1, <2>2 DEF ServerInv, TypeOK
  <2>4. Registering'
    <3>1. 1 .. adding' = (1 .. adding) \cup {adding + 1}
      BY <2>1
    <3>2. registered' = {Order[i] : i \in 1 .. adding'}
      BY <2>1, <3>1 DEF ServerInv, Registering
    <3>3. started' \cap Controllers \subseteq {Order[i] : i \in 1 .. adding' + 1}
      BY <2>1 DEF ServerInv, Registering
    <3> QED BY <2>1, <3>2, <3>3 DEF ServerInv, Registering
  <2>5. Counted' /\ StartsActors' /\ CallsBack'
    BY <1>1, <2>1 DEF ServerInv, Counted, StartsActors, CallsBack
  <2> QED BY <1>1, <2>3, <2>4, <2>5 DEF ServerInv, DefaultRegistered
<1> QED BY <1>2, <1>3, <1>4

\* The server's thread takes a message: one is missing less.
LEMMA TakesCounts ==
    ASSUME ServerInv, NEW what \in {"controllers", "clients"}, Takes(what),
           told' = told
    PROVE  /\ Counted' /\ crashed = "no" /\ handling = Idle
           /\ queue' \in Seq({"controllers", "clients"})
           /\ missing' \in [{"controllers", "clients"} -> Nat]
<1>1. /\ queue \in Seq({"controllers", "clients"}) /\ queue # << >>
      /\ Head(queue) = what /\ queue' = Tail(queue)
      /\ missing \in [{"controllers", "clients"} -> Nat]
      /\ missing' = [missing EXCEPT ![what] = IF @ > 0 THEN @ - 1 ELSE @]
      /\ crashed = "no" /\ handling = Idle
  BY DEF ServerInv, TypeOK, Takes, Goes
<1>2. queue' \in Seq({"controllers", "clients"})
  BY <1>1
<1>3. missing' \in [{"controllers", "clients"} -> Nat]
  <2>1. (IF missing[what] > 0 THEN missing[what] - 1 ELSE missing[what]) \in Nat
    BY <1>1
  <2> QED BY <1>1, <2>1
<1>4. ASSUME NEW w \in {"controllers", "clients"}
      PROVE  missing'[w] = Cardinality(Tellers(w) \ told) + Waiting(queue', w)
  <2>1. missing[w] = Cardinality(Tellers(w) \ told) + Waiting(queue, w)
    BY <1>1 DEF ServerInv, Counted
  <2>2. Cardinality(Tellers(w) \ told) \in Nat
    <3>1. IsFiniteSet(Tellers(w)) /\ Tellers(w) \ told \in SUBSET Tellers(w)
      BY ObjectsFinite DEF Tellers
    <3> QED BY <3>1, FS_Subset, FS_CardinalityType
  <2>3. Waiting(queue', w) \in Nat
    BY <1>2, PlacesFinite
  <2>4. Waiting(queue, w) = Waiting(queue', w) + (IF what = w THEN 1 ELSE 0)
    BY <1>1, WaitingTail
  <2>5. CASE w = what
    <3>1. missing[w] > 0 /\ missing'[w] = missing[w] - 1
      BY <1>1, <2>1, <2>2, <2>3, <2>4, <2>5
    <3> QED BY <2>1, <2>2, <2>3, <2>4, <2>5, <3>1
  <2>6. CASE w # what
    <3>1. missing'[w] = missing[w]
      BY <1>1, <2>6
    <3> QED BY <2>1, <2>3, <2>4, <2>6, <3>1
  <2> QED BY <2>5, <2>6
<1>5. Counted'
  BY <1>4 DEF Counted, Tellers
<1> QED BY <1>1, <1>2, <1>3, <1>5

\* A callback of the user is one event more.
LEMMA CalledAppend ==
    ASSUME TypeOK, NEW x \in {"controllers", "clients"}, events' = Append(events, x)
    PROVE  /\ \A e : Called(e)' <=> Called(e) \/ e = x
           /\ events' \in Seq({"controllers", "clients"})
<1>1. events \in Seq({"controllers", "clients"})
  BY DEF TypeOK
<1> QED BY <1>1, MembersAppend DEF Called

LEMMA CalledWhich ==
    /\ events = << >> => ~Called("controllers") /\ ~Called("clients")
    /\ events = << "controllers" >> => Called("controllers") /\ ~Called("clients")
    /\ events = << "controllers", "clients" >> => Called("controllers") /\ Called("clients")
  BY DEF Called, Members

LEMMA OneEvent == Len(<< "controllers" >>) = 1 /\ << "controllers" >>[1] = "controllers"
  OBVIOUS

LEMMA TwoEvents ==
    ASSUME NEW S, NEW e \in Seq(S), NEW f \in Seq(S), Len(e) = 1, e[1] = "controllers",
           Len(f) = Len(e) + 1, f[Len(e) + 1] = "clients",
           \A i \in 1 .. Len(e) : f[i] = e[i]
    PROVE  f = << "controllers", "clients" >>
<1>1. Len(f) = 2 /\ f[1] = "controllers" /\ f[2] = "clients"
  OBVIOUS
<1> QED BY <1>1

LEMMA BothEvents ==
    ASSUME NEW S, NEW e \in Seq(S), "clients" \in S, Len(e) = 1, e[1] = "controllers"
    PROVE  Append(e, "clients") = << "controllers", "clients" >>
<1> SUFFICES ASSUME NEW x \in S, x = "clients"
             PROVE  Append(e, x) = << "controllers", "clients" >>
  OBVIOUS
<1> DEFINE f == Append(e, x)
<1>1. /\ f \in Seq(S) /\ Len(f) = Len(e) + 1 /\ f[Len(e) + 1] = x
      /\ \A i \in 1 .. Len(e) : f[i] = e[i]
  BY ONLY e \in Seq(S), x \in S
<1> HIDE DEF f
<1>2. f = << "controllers", "clients" >>
  BY <1>1, TwoEvents
<1> QED BY <1>2 DEF f

\* clientsStarted, called once all actors have been told.
LEMMA ClientsStartedKeeps ==
    ASSUME ServerInv, ClientsStarted, handling.at \in {"idle", "after"},
           handling' = Idle, ~Called("clients"), missing'.clients = 0,
           crashed = "no", Counted', TypeOK',
           UNCHANGED <<adding, registered, told, clients, crashed>>
    PROVE  ServerInv'
<1> USE Disjoint, Objects1
<1>1. events' = Append(events, "clients") /\ started' = started \cup Inputs
  BY DEF ClientsStarted
<1>2. \A e : Called(e)' <=> Called(e) \/ e = "clients"
  BY <1>1, CalledAppend DEF ServerInv
<1>3. Members(Actors) \subseteq told
  <2>1. /\ missing'["clients"] = 0 /\ queue' \in Seq({"controllers", "clients"})
        /\ crashed' # "service" /\ told' = told
    BY DEF TypeOK
  <2>2. Cardinality(Tellers("clients") \ told) + Waiting(queue', "clients") = 0
    BY <2>1 DEF Counted, Tellers
  <2> QED BY <2>1, <2>2, NoneMissing DEF Tellers
<1>4. Registering'
  BY <1>1 DEF ServerInv, Registering
<1>5. StartsActors'
  <2>1. Gone' = Gone /\ handling'.at = "idle"
    BY <1>2 DEF Gone, Idle
  <2>2. started' \cap Members(Actors) = started \cap Members(Actors)
    BY <1>1
  <2> QED BY <1>2, <2>1, <2>2 DEF ServerInv, StartsActors
<1>6. CallsBack'
  <2>1. Called("controllers")' => Controllers \subseteq told'
    BY <1>2 DEF ServerInv, CallsBack
  <2>2. ASSUME Actors # << >>
        PROVE  events' = << "controllers", "clients" >>
    <3>1. Members(Actors) # {}
      <4>1. Actors \in Seq(Members(Actors))
        BY ServerAssumption DEF ServerAssumption
      <4>2. Len(Actors) \in Nat /\ Len(Actors) # 0
        BY <2>2, <4>1
      <4>3. 1 \in 1 .. Len(Actors)
        BY <4>2
      <4> QED BY <4>3 DEF Members
    <3>2. Called("controllers")
      BY <1>3, <3>1 DEF ServerInv, TypeOK, StartsActors
    <3>3. events = << "controllers" >>
      BY <2>2, <3>2, CalledWhich DEF ServerInv, CallsBack
    <3>4. events \in Seq({"controllers", "clients"})
      BY DEF ServerInv, TypeOK
    <3>5. Len(events) = 1 /\ events[1] = "controllers"
      BY <3>3, OneEvent
    <3> QED BY <1>1, <3>4, <3>5, BothEvents
  <2> QED BY <1>2, <1>3, <2>1, <2>2 DEF CallsBack, Idle
<1> QED BY <1>4, <1>5, <1>6 DEF ServerInv, DefaultRegistered

LEMMA ServerThreadKeeps ==
    ASSUME ServerInv, ServerThread
    PROVE  ServerInv'
<1> USE Disjoint, Objects1
<1>1. CASE ControllerReported
  <2>1. /\ Takes("controllers") /\ told' = told
        /\ UNCHANGED <<main, started, up, function, told, adding, registered, clients>>
    BY <1>1 DEF ControllerReported
  <2>2. /\ Counted' /\ crashed = "no" /\ handling = Idle
        /\ queue' \in Seq({"controllers", "clients"})
        /\ missing' \in [{"controllers", "clients"} -> Nat]
    BY <2>1, TakesCounts
  <2>3. CASE ControllersReady
    <3>1. /\ missing'["controllers"] = 0 /\ ~Called("controllers")
          /\ events' = Append(events, "controllers")
          /\ handling' = [at |-> "start", n |-> 1]
          /\ crashed' = IF Default \in registered THEN crashed ELSE "controller"
      BY <1>1, <2>3 DEF ControllerReported, ControllersReady
    <3>2. Controllers \subseteq told
      <4>1. crashed' # "service"
        BY <2>2, <3>1
      <4>2. Cardinality(Tellers("controllers") \ told) + Waiting(queue', "controllers") = 0
        BY <2>1, <2>2, <3>1, <4>1 DEF Counted, Tellers
      <4> QED BY <2>2, <4>2, NoneMissing DEF Tellers
    <3>3. crashed' = "no"
      BY <2>2, <3>1, <3>2, AllRegistered DEF ServerInv
    <3>4. /\ \A e : Called(e)' <=> Called(e) \/ e = "controllers"
          /\ events' \in Seq({"controllers", "clients"})
      BY <3>1, CalledAppend DEF ServerInv
    <3>5. TypeOK'
      BY <2>1, <2>2, <3>1, <3>3, <3>4 DEF ServerInv, TypeOK
    <3>6. StartsActors'
      <4>1. clients = {}
        BY <3>1 DEF ServerInv, StartsActors, Gone
      <4>2. Gone' = 0
        BY <3>1, <3>4 DEF Gone
      <4> QED BY <2>1, <3>1, <3>4, <4>1, <4>2 DEF StartsActors
    <3>7. CallsBack'
      <4>1. ASSUME Actors # << >>
            PROVE  events' = << "controllers" >> /\ ~Called("clients")'
        <5>1. events = << >>
          BY <3>1, <4>1, CalledWhich DEF ServerInv, CallsBack
        <5> QED BY <3>1, <3>4, <5>1, CalledWhich
      <4> QED BY <2>1, <3>2, <3>4, <4>1 DEF ServerInv, CallsBack
    <3> QED BY <2>1, <2>2, <3>3, <3>5, <3>6, <3>7
           DEF ServerInv, Registering, DefaultRegistered
  <2>4. CASE ~ControllersReady
    <3>1. handling' = [at |-> "after", n |-> 0] /\ UNCHANGED <<events, crashed>>
      BY <1>1, <2>4 DEF ControllerReported
    <3>2. Gone' = Gone /\ \A e : Called(e)' = Called(e)
      BY <2>2, <3>1 DEF Gone, Called, Idle
    <3>3. TypeOK'
      BY <2>1, <2>2, <3>1 DEF ServerInv, TypeOK
    <3> QED BY <2>1, <2>2, <3>1, <3>2, <3>3
           DEF ServerInv, Registering, StartsActors, CallsBack, DefaultRegistered
  <2> QED BY <2>3, <2>4
<1>2. CASE StartActor
  <2>1. /\ handling.at = "start" /\ handling.n \in 1 .. Len(Actors) + 1
        /\ Called("controllers")
        /\ UNCHANGED <<main, up, function, told, adding, registered, queue, missing,
                       clients, events, crashed>>
    BY <1>2 DEF StartActor, ServerInv, StartsActors
  <2>2. \A e : Called(e)' = Called(e)
    BY <2>1 DEF Called
  <2>3. CASE handling.n <= Len(Actors)
    <3>1. PICK a : /\ a = Actors[handling.n] /\ started' = started \cup {a}
                   /\ handling' = [handling EXCEPT !.at = "add"]
      BY <1>2, <2>3 DEF StartActor
    <3>2. a \in Members(Actors) /\ handling.n \in 1 .. Len(Actors)
      BY <2>1, <2>3, <3>1 DEF Members
    <3>3. handling'.at = "add" /\ handling'.n = handling.n
      BY <3>1 DEF ServerInv, TypeOK
    <3>4. Gone' = Gone
      BY <2>1, <2>2, <3>3 DEF Gone
    <3>5. TypeOK'
      BY <2>1, <3>1, <3>2 DEF ServerInv, TypeOK
    <3>6. Counted' /\ Registering'
      BY <2>1, <3>1, <3>2 DEF ServerInv, Counted, Registering
    <3>7. StartsActors'
      BY <2>1, <2>2, <3>2, <3>3, <3>4 DEF ServerInv, StartsActors
    <3>8. CallsBack'
      <4>1. Actors # << >> => ~Called("clients")
        BY <2>1 DEF ServerInv, CallsBack
      <4> QED BY <2>1, <2>2, <3>1, <3>2, <4>1 DEF ServerInv, CallsBack
    <3> QED BY <2>1, <3>5, <3>6, <3>7, <3>8 DEF ServerInv, DefaultRegistered
  <2>4. CASE handling.n > Len(Actors)
    <3>1. handling' = [at |-> "after", n |-> 0] /\ started' = started
      BY <1>2, <2>1, <2>4 DEF StartActor
    <3>2. Gone' = Gone
      BY <2>1, <2>2, <2>4, <3>1 DEF Gone
    <3>3. TypeOK'
      BY <2>1, <3>1 DEF ServerInv, TypeOK
    <3> QED BY <2>1, <2>2, <3>1, <3>2, <3>3
           DEF ServerInv, Counted, Registering, StartsActors, CallsBack, DefaultRegistered
  <2> QED BY <2>1, <2>3, <2>4
<1>3. CASE AddClient
  <2>1. /\ handling.at = "add" /\ handling.n \in 1 .. Len(Actors)
        /\ Called("controllers")
        /\ clients' = clients \cup {Actors[handling.n]}
        /\ handling' = [at |-> "start", n |-> handling.n + 1]
        /\ UNCHANGED <<main, started, up, function, told, adding, registered, queue,
                       missing, events, crashed>>
    BY <1>3 DEF AddClient, ServerInv, StartsActors
  <2>2. \A e : Called(e)' = Called(e)
    BY <2>1 DEF Called
  <2>3. Gone' = handling.n /\ Gone = handling.n - 1
    BY <2>1, <2>2 DEF Gone
  <2>4. clients' = {Actors[i] : i \in 1 .. Gone'}
    <3>1. 1 .. handling.n = (1 .. handling.n - 1) \cup {handling.n}
      BY <2>1
    <3> QED BY <2>1, <2>3, <3>1 DEF ServerInv, StartsActors
  <2>5. TypeOK'
    BY <2>1 DEF ServerInv, TypeOK, Members
  <2>6. StartsActors'
    <3>1. handling'.at = "start" /\ handling'.n \in 1 .. Len(Actors) + 1
      BY <2>1
    <3> QED BY <2>1, <2>2, <2>4, <3>1 DEF StartsActors
  <2>7. CallsBack'
    BY <2>1, <2>2 DEF ServerInv, CallsBack
  <2> QED BY <2>1, <2>5, <2>6, <2>7 DEF ServerInv, Counted, Registering, DefaultRegistered
<1>4. CASE NoActors
  <2>1. /\ handling.at = "after" /\ handling' = Idle /\ crashed = "no"
        /\ UNCHANGED <<main, up, function, told, adding, registered, queue, missing,
                       clients, crashed>>
    BY <1>4 DEF NoActors, Goes
  <2>2. Counted'
    BY <2>1 DEF ServerInv, Counted
  <2>3. CASE missing.clients = 0 /\ ~Called("clients")
    <3>1. ClientsStarted
      BY <1>4, <2>3 DEF NoActors
    <3>2. TypeOK'
      <4>1. events' \in Seq({"controllers", "clients"})
        BY <3>1, CalledAppend DEF ClientsStarted, ServerInv
      <4> QED BY <2>1, <3>1, <4>1 DEF ServerInv, TypeOK, ClientsStarted, Idle
    <3> QED BY <2>1, <2>2, <2>3, <3>1, <3>2, ClientsStartedKeeps
  <2>4. CASE ~(missing.clients = 0 /\ ~Called("clients"))
    <3>1. UNCHANGED <<events, started>>
      BY <1>4, <2>4 DEF NoActors
    <3>2. Gone' = Gone /\ \A e : Called(e)' = Called(e)
      BY <2>1, <3>1 DEF Gone, Called, Idle
    <3>3. TypeOK'
      BY <2>1, <3>1 DEF ServerInv, TypeOK, Idle
    <3> QED BY <2>1, <2>2, <3>1, <3>2, <3>3
           DEF ServerInv, Registering, StartsActors, CallsBack, DefaultRegistered, Idle
  <2> QED BY <2>3, <2>4
<1>5. CASE ClientReported
  <2>1. /\ Takes("clients")
        /\ UNCHANGED <<main, up, function, told, adding, registered, handling,
                       clients, crashed>>
    BY <1>5 DEF ClientReported
  <2>2. /\ Counted' /\ crashed = "no" /\ handling = Idle
        /\ queue' \in Seq({"controllers", "clients"})
        /\ missing' \in [{"controllers", "clients"} -> Nat]
    BY <2>1, TakesCounts
  <2>3. CASE ClientsReady
    <3>1. ClientsStarted
      BY <1>5, <2>3 DEF ClientReported
    <3>2. TypeOK'
      <4>1. events' \in Seq({"controllers", "clients"})
        BY <3>1, CalledAppend DEF ClientsStarted, ServerInv
      <4> QED BY <2>1, <2>2, <3>1, <4>1 DEF ServerInv, TypeOK, ClientsStarted
    <3> QED BY <2>1, <2>2, <2>3, <3>1, <3>2, ClientsStartedKeeps DEF ClientsReady, Idle
  <2>4. CASE ~ClientsReady
    <3>1. UNCHANGED <<events, started>>
      BY <1>5, <2>4 DEF ClientReported
    <3>2. Gone' = Gone /\ \A e : Called(e)' = Called(e)
      BY <2>1, <3>1 DEF Gone, Called
    <3>3. TypeOK'
      BY <2>1, <2>2, <3>1 DEF ServerInv, TypeOK
    <3> QED BY <2>1, <2>2, <3>1, <3>2, <3>3
           DEF ServerInv, Registering, StartsActors, CallsBack, DefaultRegistered
  <2> QED BY <2>3, <2>4
<1> QED BY <1>1, <1>2, <1>3, <1>4, <1>5 DEF ServerThread

-----------------------------------------------------------------------------
(* The theorems.                                                           *)

LEMMA ServerInit == Init => ServerInv
<1> SUFFICES ASSUME Init PROVE ServerInv
  OBVIOUS
<1> USE Disjoint, Objects1, ObjectsFinite
<1>1. TypeOK
  <2>1. Cardinality(Controllers) \in Nat
    BY FS_CardinalityType
  <2>2. missing \in [{"controllers", "clients"} -> Nat]
    BY <2>1 DEF Init
  <2>3. handling \in [at : {"idle", "start", "add", "after"}, n : 0 .. Len(Actors) + 1]
    BY DEF Init, Idle
  <2>4. adding \in -1 .. Len(Order)
    BY DEF Init
  <2>5. << >> \in Seq({"controllers", "clients"})
    OBVIOUS
  <2>6. {Server} \subseteq Objects
    OBVIOUS
  <2> QED BY <2>2, <2>3, <2>4, <2>5, <2>6 DEF Init, TypeOK
<1>2. \A e : ~Called(e)
  BY DEF Init, Called, Members
<1>3. Counted
  <2>1. ASSUME NEW what PROVE Waiting(<< >>, what) = 0
    <3>1. Places(<< >>, what) = {}
      BY DEF Places
    <3> QED BY <3>1, FS_EmptySet DEF Waiting
  <2>2. Controllers \ {} = Controllers /\ Members(Actors) \ {} = Members(Actors)
    OBVIOUS
  <2>3. Cardinality(Controllers) \in Nat
    BY FS_CardinalityType
  <2> QED BY <2>1, <2>2, <2>3 DEF Init, Counted, Tellers
<1>4. Registering
  BY DEF Init, Registering
<1>5. StartsActors
  BY <1>2 DEF Init, StartsActors, Gone, Idle
<1>6. CallsBack /\ DefaultRegistered
  BY <1>2 DEF Init, CallsBack, DefaultRegistered
<1> QED BY <1>1, <1>3, <1>4, <1>5, <1>6 DEF ServerInv

LEMMA ServerNext == ServerInv /\ [Next]_vars => ServerInv'
<1> SUFFICES ASSUME ServerInv, [Next]_vars PROVE ServerInv'
  OBVIOUS
<1>1. CASE UNCHANGED vars
  BY <1>1 DEF vars, ServerInv, TypeOK, Counted, Registering, StartsActors, CallsBack,
              DefaultRegistered, Gone, Called
<1>2. CASE ConstructManager \/ SetFunction \/ \E o \in Objects : CreateService(o)
  BY <1>2, MainKeeps
<1>3. CASE ManagerTold \/ StartController \/ RegisterController
  BY <1>3, ManagerKeeps
<1>4. CASE ServerThread
  BY <1>4, ServerThreadKeeps
<1>5. ASSUME NEW o \in Objects, Comes(o), ~CreateService(o) PROVE ServerInv'
  BY <1>5, ReportKeeps DEF Comes, Tellers
<1>6. CASE Rest
  BY <1>1, <1>6 DEF Rest
<1> QED BY <1>1, <1>2, <1>3, <1>4, <1>5, <1>6, Disjoint DEF Next, ManagerThread, Comes

LEMMA ServerInvariant == Spec => []ServerInv
  BY ServerInit, ServerNext, PTL DEF Spec

\* The objects of a server keep their types; in particular no object runs
\* before it was started, and controllers_to_add is never read past its end.
THEOREM ServerTypesOK == Spec => []TypeOK
<1>1. ServerInv => TypeOK
  BY DEF ServerInv
<1> QED BY <1>1, ServerInvariant, PTL

\* However many controllers there are and however their threads run, the
\* default one is registered when controllerStarted adds its workflow to it.
THEOREM DefaultIsRegistered == Spec => []DefaultRegistered
<1>1. ServerInv => DefaultRegistered
  BY DEF ServerInv
<1> QED BY <1>1, ServerInvariant, PTL

\* controllerStarted starts no actor before all controllers have come up.
THEOREM ActorsWait == Spec => []ActorsAfterControllers
<1>1. ServerInv => ActorsAfterControllers
  BY AllRegistered DEF ServerInv, StartsActors, CallsBack, ActorsAfterControllers
<1> QED BY <1>1, ServerInvariant, PTL

\* When the server has actors, clientsStarted starts the inputs after all of
\* them; without actors decreaseControllersCounter starts them too early.
THEOREM InputsWait == ASSUME Actors # << >> PROVE Spec => []InputsLast
<1>1. ServerInv => InputsLast
  <2> SUFFICES ASSUME ServerInv, started \cap Inputs # {}
               PROVE  /\ Controllers \cup Members(Actors) \subseteq told
                      /\ clients = Members(Actors)
                      /\ events = << "controllers", "clients" >>
    BY DEF InputsLast
  <2>1. /\ events = << "controllers", "clients" >> /\ Members(Actors) \subseteq told
        /\ handling.at \in {"idle", "after"}
    BY CalledWhich DEF ServerInv, CallsBack
  <2>2. Called("controllers")
    BY <2>1, CalledWhich
  <2>3. Controllers \subseteq told
    BY <2>2 DEF ServerInv, CallsBack
  <2>4. clients = Members(Actors)
    BY <2>1, <2>2 DEF ServerInv, StartsActors, Gone, Members
  <2> QED BY <2>1, <2>3, <2>4
<1> QED BY <1>1, ServerInvariant, PTL

=============================================================================
