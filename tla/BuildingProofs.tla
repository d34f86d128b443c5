--------------------------- MODULE BuildingProofs ---------------------------
(***************************************************************************)
(* What Building promises for every stock of workflows, every part authors *)
(* may add, every factory and every number of sessions.                    *)
(***************************************************************************)
EXTENDS Building, TLAPS, WellFoundedInduction, FiniteSetTheorems

-----------------------------------------------------------------------------
(* Numbers.  A set of them has a least member, which is what induction over *)
(* the bindings of a workflow and over the stock comes down to.             *)

Below == {ss \in Nat \X Nat : ss[1] < ss[2]}

LEMMA NatLeast ==
    ASSUME NEW T, T \subseteq Nat, T # {}
    PROVE  \E x \in T : \A y \in T : x <= y
<1>1. IsWellFoundedOn(Below, Nat)
  BY NatLessThanWellFounded DEF OpToRel, Below
<1>2. PICK x \in T : \A y \in T : ~ (<<y, x>> \in Below)
  BY <1>1, WFMin
<1>3. \A y \in T : x <= y
  <2>1. TAKE y \in T
  <2>2. x \in Nat /\ y \in Nat
    OBVIOUS
  <2>3. ~ (y < x)
    BY <1>2, <2>2 DEF Below
  <2> QED BY <2>2, <2>3
<1> QED BY <1>3

\* What holds of nothing and of one more than it holds of, holds of every number
\* up to a bound.
LEMMA UpTo ==
    ASSUME NEW N \in Nat, NEW T, 0 \in T,
           \A n \in 1 .. N : n - 1 \in T => n \in T
    PROVE  0 .. N \subseteq T
<1> DEFINE U == {n \in 0 .. N : n \notin T}
<1>1. SUFFICES ASSUME U # {} PROVE FALSE
  OBVIOUS
<1>2. U \subseteq Nat
  OBVIOUS
<1>3. PICK m \in U : \A y \in U : m <= y
  BY <1>1, <1>2, NatLeast
<1>4. m # 0 /\ m \in 0 .. N /\ m \notin T
  BY <1>3
<1>5. m - 1 \in 0 .. N /\ ~ (m <= m - 1) /\ m \in 1 .. N
  BY <1>4
<1>6. m - 1 \in T
  BY <1>3, <1>5
<1> QED BY <1>4, <1>5, <1>6

-----------------------------------------------------------------------------
(* The order of the bindings.                                              *)

LEMMA IdsBounded == \A a \in Wrapped \cup Nat : a \in Int /\ a + 1020 \in Nat
  BY DEF Wrapped, Interrupt, Error, Finish, Cleanup

LEMMA ForemostIn ==
    ASSUME NEW left, left # {},
           \A p \in left : p[1] \in Wrapped \cup Nat /\ p[2] \in Nat
    PROVE  Foremost(left) \in left
<1> DEFINE A == {p[1] + 1020 : p \in left}
<1>1. PICK m \in A : \A y \in A : m <= y
  <2>1. A \subseteq Nat /\ A # {}
    BY IdsBounded
  <2> QED BY <2>1, NatLeast
<1>2. PICK p1 \in left : m = p1[1] + 1020
  BY <1>1
<1> DEFINE B == {p[2] : p \in {q \in left : q[1] = p1[1]}}
<1>3. PICK k \in B : \A y \in B : k <= y
  <2>1. B \subseteq Nat /\ B # {}
    BY <1>2
  <2> QED BY <2>1, NatLeast
<1>4. PICK p2 \in left : p2[1] = p1[1] /\ p2[2] = k
  BY <1>3
<1>5. ASSUME NEW q \in left
      PROVE  p2[1] < q[1] \/ (p2[1] = q[1] /\ p2[2] <= q[2])
  <2>1. p1[1] + 1020 <= q[1] + 1020
    BY <1>1, <1>2
  <2>2. p1[1] \in Int /\ q[1] \in Int
    BY IdsBounded
  <2>3. p1[1] <= q[1]
    BY <2>1, <2>2
  <2>4. CASE q[1] = p1[1]
    BY <2>4, <1>3, <1>4
  <2>5. CASE q[1] # p1[1]
    BY <2>2, <2>3, <2>5, <1>4
  <2> QED BY <2>4, <2>5
<1> QED BY <1>4, <1>5 DEF Foremost

\* validate comes to an end: what it has found after n bindings is what it finds
\* at the n-th from what it had found before.
LEMMA ValidationIs ==
    ASSUME NEW hp, NEW known, NEW o, Cardinality(Places(hp[o])) \in Nat
    PROVE  LET V == Validation(hp, known, o)
               N == Cardinality(Places(hp[o]))
           IN  /\ V[0] = Unseen(hp, o)
               /\ \A n \in 1 .. N : V[n] = BindingValid(V[n - 1], known, o)
<1> DEFINE N == Cardinality(Places(hp[o]))
           Run(v, m) == v = [n \in 0 .. m |-> IF n = 0 THEN Unseen(hp, o)
                                              ELSE BindingValid(v[n - 1], known, o)]
           T == {m \in Nat : \E v : Run(v, m)}
<1>1. 0 \in T
  <2>1. Run([n \in 0 .. 0 |-> Unseen(hp, o)], 0)
    OBVIOUS
  <2> QED BY <2>1
<1>2. ASSUME NEW m \in 1 .. N, m - 1 \in T PROVE m \in T
  <2>1. PICK v : Run(v, m - 1)
    BY <1>2
  <2> DEFINE u == [n \in 0 .. m |-> IF n = m THEN BindingValid(v[n - 1], known, o) ELSE v[n]]
  <2>2. \A n \in 0 .. m - 1 : u[n] = v[n]
    OBVIOUS
  <2>3. \A n \in 0 .. m : u[n] = IF n = 0 THEN Unseen(hp, o) ELSE BindingValid(u[n - 1], known, o)
    BY <2>1, <2>2
  <2>4. u = [n \in 0 .. m |-> u[n]]
    OBVIOUS
  <2>5. Run(u, m)
    <3> HIDE DEF u
    <3> DEFINE g == [n \in 0 .. m |-> IF n = 0 THEN Unseen(hp, o)
                                   ELSE BindingValid(u[n - 1], known, o)]
    <3>1. DOMAIN g = DOMAIN u /\ \A n \in DOMAIN u : u[n] = g[n]
      BY <2>3, <2>4
    <3>2. u = g
      BY <2>4, <3>1
    <3> QED BY <3>2
  <2> HIDE DEF Run, u
  <2> QED BY <2>5
<1>3. N \in T
  <2> HIDE DEF T
  <2> QED BY <1>1, <1>2, UpTo
<1>4. Run(Validation(hp, known, o), N)
  <2>1. \E v : Run(v, N)
    BY <1>3
  <2>2. Run(CHOOSE v : Run(v, N), N)
    BY <2>1
  <2> QED BY <2>2 DEF Validation
<1> QED BY <1>4

\* The stock likewise.
LEMMA StockingIs ==
    /\ Stocking[0] = [heap |-> << >>, known |-> << >>]
    /\ \A n \in 1 .. Len(Stock) : Stocking[n] = AddStock(Stocking[n - 1], n)
<1> DEFINE N == Len(Stock)
           None == [heap |-> << >>, known |-> << >>]
           Run(v, m) == v = [n \in 0 .. m |-> IF n = 0 THEN None ELSE AddStock(v[n - 1], n)]
           T == {m \in Nat : \E v : Run(v, m)}
<1>0. N \in Nat
  BY StockAssumption DEF StockAssumption
<1> HIDE DEF N
<1>1. 0 \in T
  <2>1. Run([n \in 0 .. 0 |-> None], 0)
    OBVIOUS
  <2> QED BY <2>1
<1>2. ASSUME NEW m \in 1 .. N, m - 1 \in T PROVE m \in T
  <2>1. PICK v : Run(v, m - 1)
    BY <1>2
  <2> DEFINE u == [n \in 0 .. m |-> IF n = m THEN AddStock(v[n - 1], n) ELSE v[n]]
  <2> HIDE DEF None
  <2>0. m \in Nat /\ m - 1 \in Nat
    BY <1>0
  <2>2. \A n \in 0 .. m - 1 : u[n] = v[n]
    BY <2>0
  <2>3. \A n \in 0 .. m : u[n] = IF n = 0 THEN None ELSE AddStock(u[n - 1], n)
    BY <2>0, <2>1, <2>2
  <2>4. u = [n \in 0 .. m |-> u[n]]
    OBVIOUS
  <2>5. Run(u, m)
    <3> HIDE DEF u
    <3> DEFINE g == [n \in 0 .. m |-> IF n = 0 THEN None ELSE AddStock(u[n - 1], n)]
    <3>1. DOMAIN g = DOMAIN u /\ \A n \in DOMAIN u : u[n] = g[n]
      BY <2>3, <2>4
    <3>2. u = g
      BY <2>4, <3>1
    <3> QED BY <3>2
  <2> HIDE DEF Run, u
  <2> QED BY <2>0, <2>5
<1>3. N \in T
  <2> HIDE DEF T
  <2>1. 0 .. N \subseteq T
    BY <1>0, <1>1, <1>2, UpTo
  <2> QED BY <1>0, <2>1
<1>4. Run(Stocking, N)
  <2>1. \E v : Run(v, N)
    BY <1>3
  <2>2. Run(CHOOSE v : Run(v, N), N)
    BY <2>1
  <2> QED BY <2>2 DEF Stocking, N
<1> QED BY <1>0, <1>4 DEF N

-----------------------------------------------------------------------------
(* What the operations on a workflow leave well made.                       *)

LEMMA Combined ==
    ASSUME NEW f, NEW g
    PROVE  /\ DOMAIN (f ++ g) = DOMAIN f \cup DOMAIN g
           /\ \A x \in DOMAIN f : (f ++ g)[x] = f[x]
           /\ \A x \in DOMAIN g \ DOMAIN f : (f ++ g)[x] = g[x]
  BY DEF ++

LEMMA NothingElse ==
    ASSUME NEW f
    PROVE  /\ DOMAIN (f ++ << >>) = DOMAIN f
           /\ \A x \in DOMAIN f : (f ++ << >>)[x] = f[x]
  BY DEF ++

LEMMA EmptyFunction == DOMAIN << >> = {}
  OBVIOUS

IsWorkflow(w) ==
    w = [name |-> w.name, acts |-> w.acts, outputs |-> w.outputs,
         producers |-> w.producers, starters |-> w.starters, exposed |-> w.exposed]

LEMMA FieldsSet ==
    ASSUME NEW w, IsWorkflow(w), NEW acts, NEW outputs, NEW producers, NEW exposed
    PROVE  [w EXCEPT !.acts = acts, !.outputs = outputs, !.producers = producers,
                     !.exposed = exposed]
           = [name |-> w.name, acts |-> acts, outputs |-> outputs, producers |-> producers,
              starters |-> w.starters, exposed |-> exposed]
<1> DEFINE n == w.name
           s == w.starters
           w1 == [w EXCEPT !.acts = acts]
           w2 == [w1 EXCEPT !.outputs = outputs]
           w3 == [w2 EXCEPT !.producers = producers]
           w4 == [w3 EXCEPT !.exposed = exposed]
<1>0. [w EXCEPT !.acts = acts, !.outputs = outputs, !.producers = producers,
                !.exposed = exposed] = w4
  OBVIOUS
<1>1. w = [name |-> n, acts |-> w.acts, outputs |-> w.outputs, producers |-> w.producers,
           starters |-> s, exposed |-> w.exposed]
  BY DEF IsWorkflow
<1> HIDE DEF n, s
<1>2. w1 = [name |-> n, acts |-> acts, outputs |-> w.outputs, producers |-> w.producers,
            starters |-> s, exposed |-> w.exposed]
  BY <1>1
<1> HIDE DEF w1
<1>3. w2 = [name |-> n, acts |-> acts, outputs |-> outputs, producers |-> w.producers,
            starters |-> s, exposed |-> w.exposed]
  BY <1>2
<1> HIDE DEF w2
<1>4. w3 = [name |-> n, acts |-> acts, outputs |-> outputs, producers |-> producers,
            starters |-> s, exposed |-> w.exposed]
  BY <1>3
<1> HIDE DEF w3
<1>5. w4 = [name |-> n, acts |-> acts, outputs |-> outputs, producers |-> producers,
            starters |-> s, exposed |-> exposed]
  BY <1>4
<1> HIDE DEF w4
<1> QED BY <1>0, <1>5 DEF n, s

\* A workflow that may lack the steps of init.
Shaped(w) ==
    /\ IsWorkflow(w)
    /\ IsFiniteSet(DOMAIN w.acts)
    /\ DOMAIN w.acts \subseteq Wrapped \cup Nat
    /\ \A a \in DOMAIN w.acts : IsAction(w.acts[a])
    /\ w.outputs \in [DOMAIN w.acts -> Seq(BindingSet)]
    /\ w.starters \in Seq(StarterSet)

LEMMA MadeIsShaped == \A w : Made(w) <=> Shaped(w) /\ FirstSteps \subseteq DOMAIN w.acts
  BY DEF Made, Shaped, IsWorkflow

\* None of the keys is exposed.
Hides(w, keys) ==
    \A id \in DOMAIN w.exposed : \A alias \in DOMAIN w.exposed[id] :
        w.exposed[id][alias] \notin keys

Indexed(w) == w.producers = ProducersOf(<< >>, w.outputs)

\* Actions and their bindings as an author or the factory brings them.
AreActions(acts, bindings) ==
    /\ IsFiniteSet(DOMAIN acts)
    /\ DOMAIN acts \subseteq Wrapped \cup Nat
    /\ \A a \in DOMAIN acts : IsAction(acts[a])
    /\ DOMAIN bindings = DOMAIN acts
    /\ \A a \in DOMAIN acts : bindings[a] \in Seq(BindingSet)

LEMMA WithActionsShaped ==
    ASSUME NEW w, Shaped(w), NEW acts, NEW bindings, AreActions(acts, bindings)
    PROVE  LET u == WithActions(w, acts, bindings)
           IN  /\ Shaped(u)
               /\ u.name = w.name
               /\ u.acts = acts ++ w.acts
               /\ u.outputs = bindings ++ w.outputs
               /\ u.starters = w.starters
               /\ Indexed(u)
<1> DEFINE u == WithActions(w, acts, bindings)
<1>1. /\ IsWorkflow(u)
      /\ u.name = w.name
      /\ u.acts = acts ++ w.acts
      /\ u.outputs = bindings ++ w.outputs
      /\ u.starters = w.starters
      /\ u.producers = ProducersOf(w.producers, bindings ++ w.outputs)
  <2>1. PICK exposed : u = [w EXCEPT !.acts = acts ++ w.acts,
                                     !.outputs = bindings ++ w.outputs,
                                     !.producers = ProducersOf(w.producers, bindings ++ w.outputs),
                                     !.exposed = exposed]
    BY DEF WithActions
  <2>2. u = [name |-> w.name, acts |-> acts ++ w.acts, outputs |-> bindings ++ w.outputs,
             producers |-> ProducersOf(w.producers, bindings ++ w.outputs),
             starters |-> w.starters, exposed |-> exposed]
    <3> HIDE DEF u
    <3> QED BY <2>1, FieldsSet DEF Shaped
  <2> HIDE DEF u
  <2> QED BY <2>2 DEF IsWorkflow
<1> HIDE DEF u
<1>2. Indexed(u)
  BY <1>1 DEF Indexed, ProducersOf
<1>3. DOMAIN u.acts = DOMAIN acts \cup DOMAIN w.acts /\ IsFiniteSet(DOMAIN u.acts)
  <2>1. DOMAIN (acts ++ w.acts) = DOMAIN acts \cup DOMAIN w.acts
    BY Combined
  <2>2. IsFiniteSet(DOMAIN acts) /\ IsFiniteSet(DOMAIN w.acts)
    BY DEF AreActions, Shaped
  <2>3. IsFiniteSet(DOMAIN acts \cup DOMAIN w.acts)
    BY <2>2, FS_Union
  <2> QED BY <1>1, <2>1, <2>3
<1>4. ASSUME NEW a \in DOMAIN u.acts
      PROVE  IsAction(u.acts[a]) /\ (bindings ++ w.outputs)[a] \in Seq(BindingSet)
  <2>1. w.outputs \in [DOMAIN w.acts -> Seq(BindingSet)] /\ DOMAIN bindings = DOMAIN acts
    BY DEF AreActions, Shaped
  <2>2. CASE a \in DOMAIN acts
    <3>1. u.acts[a] = acts[a] /\ (bindings ++ w.outputs)[a] = bindings[a]
      <4>1. (acts ++ w.acts)[a] = acts[a]
        BY <2>2 DEF ++
      <4>2. (bindings ++ w.outputs)[a] = bindings[a]
        BY <2>1, <2>2 DEF ++
      <4> QED BY <1>1, <4>1, <4>2
    <3> QED BY <2>2, <3>1 DEF AreActions
  <2>3. CASE a \notin DOMAIN acts
    <3>1. a \in DOMAIN w.acts
      BY <1>3, <2>3
    <3>2. u.acts[a] = w.acts[a] /\ (bindings ++ w.outputs)[a] = w.outputs[a]
      <4>1. (acts ++ w.acts)[a] = w.acts[a]
        BY <2>3, <3>1 DEF ++
      <4>2. (bindings ++ w.outputs)[a] = w.outputs[a]
        BY <2>1, <2>3, <3>1 DEF ++
      <4> QED BY <1>1, <4>1, <4>2
    <3> QED BY <2>1, <3>1, <3>2 DEF Shaped
  <2> QED BY <2>2, <2>3
<1>5. u.outputs \in [DOMAIN u.acts -> Seq(BindingSet)]
  <2>1. DOMAIN (bindings ++ w.outputs) = DOMAIN u.acts
    <3>1. DOMAIN (bindings ++ w.outputs) = DOMAIN bindings \cup DOMAIN w.outputs
      BY Combined
    <3> QED BY <1>3, <3>1 DEF AreActions, Shaped
  <2>2. bindings ++ w.outputs \in [DOMAIN (bindings ++ w.outputs) -> Seq(BindingSet)]
    BY <1>4, <2>1 DEF ++
  <2> QED BY <1>1, <2>1, <2>2
<1>6. Shaped(u)
  BY <1>1, <1>3, <1>4, <1>5 DEF Shaped, AreActions
<1> QED BY <1>1, <1>2, <1>6 DEF u

LEMMA WithActionsHides ==
    ASSUME NEW w, IsWorkflow(w), NEW keys, Hides(w, keys), NEW acts, NEW bindings,
           \A a \in DOMAIN acts : ExposedKeys(acts[a].props) \cap keys = {}
    PROVE  Hides(WithActions(w, acts, bindings), keys)
<1> DEFINE theirs(a) == ExposedKeys(acts[a].props)
           shown == {a \in DOMAIN acts : theirs(a) # {}}
           x == [a \in shown |-> [k \in theirs(a) |-> k] ++ ExposedOf(w.exposed, a)] ++ w.exposed
           u == WithActions(w, acts, bindings)
<1>1. u.exposed = x
  <2> DEFINE p == ProducersOf(w.producers, bindings ++ w.outputs)
  <2>1. u = [w EXCEPT !.acts = acts ++ w.acts, !.outputs = bindings ++ w.outputs,
                      !.producers = p, !.exposed = x]
    BY DEF WithActions
  <2> HIDE DEF x, u, p
  <2> QED BY <2>1, FieldsSet
<1>2. ASSUME NEW id \in DOMAIN x, NEW alias \in DOMAIN x[id]
      PROVE  x[id][alias] \notin keys
  <2>1. CASE id \in shown
    <3>1. x[id] = [k \in theirs(id) |-> k] ++ ExposedOf(w.exposed, id)
      BY <2>1 DEF ++
    <3>2. CASE alias \in theirs(id)
      BY <2>1, <3>1, <3>2 DEF ++
    <3>3. CASE alias \notin theirs(id)
      <4>1. alias \in DOMAIN ExposedOf(w.exposed, id)
            /\ x[id][alias] = ExposedOf(w.exposed, id)[alias]
        BY <1>2, <3>1, <3>3 DEF ++
      <4> QED BY <4>1 DEF ExposedOf, Hides
    <3> QED BY <3>2, <3>3
  <2>2. CASE id \notin shown
    <3>1. id \in DOMAIN w.exposed /\ x[id] = w.exposed[id]
      BY <1>2, <2>2 DEF ++
    <3> QED BY <1>2, <3>1 DEF Hides
  <2> QED BY <2>1, <2>2
<1> HIDE DEF x, u
<1>3. Hides(u, keys)
  BY <1>1, <1>2 DEF Hides
<1> QED BY <1>3 DEF u

LEMMA ActionsAre ==
    /\ IsAction(FirstAction)
    /\ IsAction(DefaultNextAction)
    /\ ExposedKeys(FirstAction.props) = {}
    /\ ExposedKeys(DefaultNextAction.props) = {}
  BY DEF IsAction, IsProps, FirstAction, DefaultNextAction, Action, Guarded, ExposedKeys

LEMMA BindingsAre == \A to \in Int : <<Binding("", to, "")>> \in Seq(BindingSet)
<1>1. ASSUME NEW to \in Int PROVE Binding("", to, "") \in BindingSet
  BY PutsAssumption DEF PutsAssumption, Binding, BindingSet
<1>2. ASSUME NEW S, NEW x \in S PROVE <<x>> \in Seq(S)
  OBVIOUS
<1>3. TAKE to \in Int
<1> DEFINE b == Binding("", to, "")
<1>4. b \in BindingSet
  BY <1>1
<1> HIDE DEF b
<1>5. <<b>> \in Seq(BindingSet)
  BY <1>2, <1>4
<1> QED BY <1>5 DEF b

\* init
LEMMA NewWorkflowMade ==
    ASSUME NEW name
    PROVE  LET w == NewWorkflow(name)
           IN  /\ Made(w)
               /\ w.name = name
               /\ w.starters = << >>
               /\ DOMAIN w.acts = FirstSteps
               /\ w.acts[Initialisation] = FirstAction
               /\ w.outputs[Initialisation] = <<Binding("", Finish, "")>>
               /\ \A a \in FirstSteps \ {Initialisation} : w.acts[a] = DefaultNextAction
               /\ Indexed(w)
               /\ \A keys : Hides(w, keys)
<1> DEFINE none == [name |-> name, acts |-> << >>, outputs |-> << >>, producers |-> << >>,
                    starters |-> << >>, exposed |-> << >>]
           acts == [s \in FirstSteps |-> IF s = Initialisation THEN FirstAction
                                         ELSE DefaultNextAction]
           to(s) == CASE s = Initialisation -> Finish
                      [] s = Cleanup -> Die
                      [] OTHER -> Cleanup
           bindings == [s \in FirstSteps |-> <<Binding("", to(s), "")>>]
           w == NewWorkflow(name)
<1>1. w = WithActions(none, acts, bindings)
  BY DEF NewWorkflow
<1>2. Shaped(none) /\ \A keys : Hides(none, keys)
  <2>1. IsFiniteSet({}) /\ << >> \in [{} -> Seq(BindingSet)] /\ << >> \in Seq(StarterSet)
    BY FS_EmptySet
  <2> QED BY <2>1 DEF Shaped, IsWorkflow, Hides
<1>3. AreActions(acts, bindings)
  <2>1. IsFiniteSet(FirstSteps)
    <3>1. FirstSteps = (({Initialisation} \cup {Error}) \cup {Finish}) \cup {Cleanup}
      BY DEF FirstSteps
    <3>2. IsFiniteSet({Initialisation} \cup {Error})
      BY FS_Singleton, FS_AddElement
    <3>3. IsFiniteSet(({Initialisation} \cup {Error}) \cup {Finish})
      BY <3>2, FS_AddElement
    <3> QED BY <3>1, <3>3, FS_AddElement
  <2>2. ASSUME NEW s \in FirstSteps PROVE bindings[s] \in Seq(BindingSet)
    <3>1. to(s) \in Int
      BY DEF Finish, Die, Cleanup
    <3>2. bindings[s] = <<Binding("", to(s), "")>>
      OBVIOUS
    <3> HIDE DEF to, bindings
    <3> QED BY <3>1, <3>2, BindingsAre
  <2>3. FirstSteps \subseteq Wrapped \cup Nat
    BY DEF FirstSteps, Wrapped, Initialisation
  <2> HIDE DEF bindings
  <2>4. DOMAIN bindings = FirstSteps
    BY DEF bindings
  <2> QED BY <2>1, <2>2, <2>3, <2>4, ActionsAre DEF AreActions
<1>4. \A a \in DOMAIN acts : ExposedKeys(acts[a].props) = {}
  BY ActionsAre
<1>5. Initialisation \in FirstSteps
  BY DEF FirstSteps
<1>6. /\ DOMAIN (acts ++ << >>) = FirstSteps
      /\ \A a \in FirstSteps : (acts ++ << >>)[a] = acts[a]
      /\ (bindings ++ << >>)[Initialisation] = <<Binding("", Finish, "")>>
  <2>1. /\ DOMAIN (bindings ++ << >>) = FirstSteps
        /\ \A a \in FirstSteps : (bindings ++ << >>)[a] = bindings[a]
    <3>1. DOMAIN bindings = FirstSteps
      OBVIOUS
    <3> HIDE DEF bindings
    <3> QED BY <3>1, NothingElse
  <2>2. /\ DOMAIN (acts ++ << >>) = FirstSteps
        /\ \A a \in FirstSteps : (acts ++ << >>)[a] = acts[a]
    BY NothingElse
  <2>3. bindings[Initialisation] = <<Binding("", Finish, "")>>
    <3>1. to(Initialisation) = Finish
      BY DEF Initialisation, Cleanup
    <3>2. bindings[Initialisation] = <<Binding("", to(Initialisation), "")>>
      BY <1>5
    <3> QED BY <3>1, <3>2
  <2> HIDE DEF bindings, acts
  <2> QED BY <1>5, <2>1, <2>2, <2>3
<1>7. none.name = name /\ none.acts = << >> /\ none.outputs = << >> /\ none.starters = << >>
  OBVIOUS
<1>8. \A keys : Hides(WithActions(none, acts, bindings), keys)
  <2> HIDE DEF none, acts, bindings
  <2> QED BY <1>2, <1>4, WithActionsHides DEF Shaped
<1>9. /\ Shaped(w) /\ w.name = name /\ w.starters = << >> /\ Indexed(w)
      /\ w.acts = acts ++ << >> /\ w.outputs = bindings ++ << >>
  <2> HIDE DEF none, acts, bindings, w
  <2> QED BY <1>1, <1>2, <1>3, <1>7, WithActionsShaped
<1>10. \A a \in FirstSteps : acts[a] = IF a = Initialisation THEN FirstAction ELSE DefaultNextAction
  OBVIOUS
<1> HIDE DEF acts, bindings, w, none
<1>11. Made(w)
  BY <1>6, <1>9, MadeIsShaped
<1> QED BY <1>1, <1>5, <1>6, <1>8, <1>9, <1>10, <1>11 DEF w

\* What every change leaves as it was: shape, name, index and what is hidden.
Follows(w, u) ==
    /\ Made(u)
    /\ u.name = w.name
    /\ Indexed(w) => Indexed(u)

LEMMA EntryIs ==
    ASSUME NEW key, NEW value
    PROVE  DOMAIN Entry(key, value) = {key} /\ Entry(key, value)[key] = value
  BY DEF Entry

LEMMA WithActionMade ==
    ASSUME NEW w, Made(w), NEW id \in Int, NEW act, IsAction(act),
           NEW bindings \in Seq(BindingSet)
    PROVE  Follows(w, WithAction(w, id, act, bindings))
<1>1. CASE ~Accepts(id)
  BY <1>1 DEF WithAction, Follows
<1>2. CASE Accepts(id)
  <2> DEFINE acts == Entry(id, act)
             outs == Entry(id, bindings)
             u == WithActions(w, acts, outs)
  <2>1. AreActions(acts, outs)
    <3>1. id \in Wrapped \cup Nat
      BY <1>2 DEF Accepts
    <3>2. IsFiniteSet({id})
      BY FS_Singleton
    <3>3. DOMAIN acts = {id} /\ acts[id] = act /\ DOMAIN outs = {id} /\ outs[id] = bindings
      BY EntryIs
    <3> HIDE DEF acts, outs
    <3> QED BY <3>1, <3>2, <3>3 DEF AreActions
  <2>2. Shaped(w)
    BY MadeIsShaped
  <2> HIDE DEF acts, outs
  <2>3. Shaped(u) /\ u.name = w.name /\ u.acts = acts ++ w.acts /\ Indexed(u)
    BY <2>1, <2>2, WithActionsShaped
  <2>4. DOMAIN (acts ++ w.acts) = DOMAIN acts \cup DOMAIN w.acts
    BY Combined
  <2>5. Made(u)
    <3> HIDE DEF u
    <3> QED BY <2>3, <2>4, MadeIsShaped DEF Made
  <2> QED BY <1>2, <2>3, <2>5 DEF WithAction, Follows, acts, outs
<1> QED BY <1>1, <1>2

LEMMA WithActionHides ==
    ASSUME NEW w, Made(w), NEW id, NEW act, NEW bindings, NEW keys,
           Hides(w, keys), ExposedKeys(act.props) \cap keys = {}
    PROVE  Hides(WithAction(w, id, act, bindings), keys)
<1> DEFINE acts == Entry(id, act)
           outs == Entry(id, bindings)
<1>1. \A a \in DOMAIN acts : ExposedKeys(acts[a].props) \cap keys = {}
  <2>1. DOMAIN acts = {id} /\ acts[id] = act
    BY EntryIs
  <2> HIDE DEF acts
  <2> QED BY <2>1
<1>2. IsWorkflow(w)
  BY MadeIsShaped DEF Shaped
<1> HIDE DEF acts, outs
<1>3. Hides(WithActions(w, acts, outs), keys)
  BY <1>1, <1>2, WithActionsHides
<1> QED BY <1>3 DEF WithAction, acts, outs

\* Starters and exposed properties are all that the other edits change.
LEMMA Refitted ==
    ASSUME NEW w, Made(w), NEW u, NEW starters \in Seq(StarterSet), NEW exposed,
           u = [name |-> w.name, acts |-> w.acts, outputs |-> w.outputs,
                producers |-> w.producers, starters |-> starters, exposed |-> exposed]
    PROVE  Follows(w, u)
<1>1. /\ u.name = w.name /\ u.acts = w.acts /\ u.outputs = w.outputs
      /\ u.producers = w.producers /\ u.starters = starters /\ u.exposed = exposed
  OBVIOUS
<1>2. IsWorkflow(u)
  BY <1>1 DEF IsWorkflow
<1>3. Shaped(w) /\ FirstSteps \subseteq DOMAIN w.acts
  BY MadeIsShaped
<1>4. Shaped(u)
  BY <1>1, <1>2, <1>3 DEF Shaped
<1>5. Made(u)
  BY <1>1, <1>3, <1>4, MadeIsShaped
<1> QED BY <1>1, <1>5 DEF Follows, Indexed

LEMMA WithInputMade ==
    ASSUME NEW w, Made(w), NEW starter \in StarterSet
    PROVE  /\ Follows(w, WithInput(w, starter))
           /\ WithInput(w, starter).acts = w.acts
           /\ WithInput(w, starter).outputs = w.outputs
           /\ \A keys : Hides(w, keys) => Hides(WithInput(w, starter), keys)
<1> DEFINE u == WithInput(w, starter)
<1>1. IsWorkflow(w) /\ w.starters \in Seq(StarterSet)
  BY MadeIsShaped DEF Shaped
<1>2. Append(w.starters, starter) \in Seq(StarterSet)
  BY <1>1
<1>3. u = [name |-> w.name, acts |-> w.acts, outputs |-> w.outputs, producers |-> w.producers,
           starters |-> Append(w.starters, starter), exposed |-> w.exposed]
  <2> DEFINE st == Append(w.starters, starter)
  <2>1. u = [w EXCEPT !.starters = st]
    BY DEF WithInput
  <2> HIDE DEF st, u
  <2>2. [w EXCEPT !.starters = st]
        = [name |-> w.name, acts |-> w.acts, outputs |-> w.outputs,
           producers |-> w.producers, starters |-> st, exposed |-> w.exposed]
    BY <1>1 DEF IsWorkflow
  <2> QED BY <2>1, <2>2 DEF st
<1> HIDE DEF u
<1>4. Follows(w, u)
  BY <1>2, <1>3, Refitted
<1> QED BY <1>3, <1>4 DEF u, Hides

LEMMA ExposureMade ==
    ASSUME NEW w, Made(w), NEW exposed
    PROVE  LET u == [w EXCEPT !.exposed = exposed]
           IN  /\ Follows(w, u) /\ u.acts = w.acts /\ u.outputs = w.outputs
               /\ u.exposed = exposed
<1> DEFINE u == [w EXCEPT !.exposed = exposed]
<1>1. IsWorkflow(w) /\ w.starters \in Seq(StarterSet)
  BY MadeIsShaped DEF Shaped
<1>2. u = [name |-> w.name, acts |-> w.acts, outputs |-> w.outputs, producers |-> w.producers,
           starters |-> w.starters, exposed |-> exposed]
  BY <1>1 DEF IsWorkflow
<1> HIDE DEF u
<1>3. Follows(w, u)
  BY <1>1, <1>2, Refitted
<1> QED BY <1>2, <1>3 DEF u

LEMMA ExposingMade ==
    ASSUME NEW w, Made(w), NEW id, NEW key, NEW alias
    PROVE  LET u == Exposing(w, id, key, alias)
           IN  /\ Follows(w, u) /\ u.acts = w.acts /\ u.outputs = w.outputs
               /\ \A keys : Hides(w, keys) /\ key \notin keys => Hides(u, keys)
<1> DEFINE u == Exposing(w, id, key, alias)
           x == WithAliases(w.exposed, id, Entry(alias, key))
<1>1. u = [w EXCEPT !.exposed = x]
  BY DEF Exposing
<1>2. Follows(w, u) /\ u.acts = w.acts /\ u.outputs = w.outputs /\ u.exposed = x
  <2> HIDE DEF u, x
  <2> QED BY <1>1, ExposureMade
<1>3. ASSUME NEW keys, Hides(w, keys), key \notin keys,
             NEW i \in DOMAIN x, NEW k \in DOMAIN x[i]
      PROVE  x[i][k] \notin keys
  <2>1. CASE i = id
    <3>1. x[i] = Entry(alias, key) ++ ExposedOf(w.exposed, id)
      BY <2>1, EntryIs DEF WithAliases, ++, Entry
    <3>2. \/ x[i][k] = key
          \/ k \in DOMAIN ExposedOf(w.exposed, id) /\ x[i][k] = ExposedOf(w.exposed, id)[k]
      BY <1>3, <3>1 DEF ++, Entry
    <3> QED BY <1>3, <3>2 DEF ExposedOf, Hides
  <2>2. CASE i # id
    <3>1. i \in DOMAIN w.exposed /\ x[i] = w.exposed[i]
      BY <2>2 DEF WithAliases, ++, Entry
    <3> QED BY <1>3, <3>1 DEF Hides
  <2> QED BY <2>1, <2>2
<1> HIDE DEF u, x
<1>4. \A keys : Hides(w, keys) /\ key \notin keys => Hides(u, keys)
  BY <1>2, <1>3 DEF Hides
<1> QED BY <1>2, <1>4 DEF u

LEMMA UnexposingMade ==
    ASSUME NEW w, Made(w), NEW id
    PROVE  LET u == Unexposing(w, id)
           IN  /\ Follows(w, u) /\ u.acts = w.acts /\ u.outputs = w.outputs
               /\ \A keys : Hides(w, keys) => Hides(u, keys)
<1> DEFINE u == Unexposing(w, id)
           x == [i \in DOMAIN w.exposed \ {id} |-> w.exposed[i]]
<1>1. u = [w EXCEPT !.exposed = x]
  BY DEF Unexposing
<1>2. \A i \in DOMAIN x : i \in DOMAIN w.exposed /\ x[i] = w.exposed[i]
  OBVIOUS
<1> HIDE DEF u, x
<1>3. Follows(w, u) /\ u.acts = w.acts /\ u.outputs = w.outputs /\ u.exposed = x
  BY <1>1, ExposureMade
<1>4. \A keys : Hides(w, keys) => Hides(u, keys)
  BY <1>2, <1>3 DEF Hides
<1> QED BY <1>3, <1>4 DEF u

LEMMA UnexposingAliasMade ==
    ASSUME NEW w, Made(w), NEW id, NEW alias
    PROVE  LET u == UnexposingAlias(w, id, alias)
           IN  /\ Follows(w, u) /\ u.acts = w.acts /\ u.outputs = w.outputs
               /\ \A keys : Hides(w, keys) => Hides(u, keys)
<1> DEFINE u == UnexposingAlias(w, id, alias)
           aliases == ExposedOf(w.exposed, id)
           less == [k \in DOMAIN aliases \ {alias} |-> aliases[k]]
           x == Entry(id, less) ++ w.exposed
<1>1. u = [w EXCEPT !.exposed = x]
  BY DEF UnexposingAlias
<1>2. ASSUME NEW i \in DOMAIN x, NEW k \in DOMAIN x[i]
      PROVE  i \in DOMAIN w.exposed /\ k \in DOMAIN w.exposed[i] /\ x[i][k] = w.exposed[i][k]
  <2>1. CASE i = id
    <3>1. x[i] = less
      BY <2>1 DEF ++, Entry
    <3>2. k \in DOMAIN aliases /\ x[i][k] = aliases[k]
      BY <1>2, <3>1
    <3> QED BY <2>1, <3>2 DEF ExposedOf
  <2>2. CASE i # id
    BY <1>2, <2>2 DEF ++, Entry
  <2> QED BY <2>1, <2>2
<1> HIDE DEF u, x
<1>3. Follows(w, u) /\ u.acts = w.acts /\ u.outputs = w.outputs /\ u.exposed = x
  BY <1>1, ExposureMade
<1>4. \A keys : Hides(w, keys) => Hides(u, keys)
  BY <1>2, <1>3 DEF Hides
<1> QED BY <1>3, <1>4 DEF u

\* A copy by way of JSON.
Copy(w) == Loaded(NewWorkflow(w.name), Saved(w), Types)
KnownActs(w) == {a \in DOMAIN w.acts : w.acts[a].type \in DOMAIN Types}
SavedProps(w, a) == IF a \in Wrapped THEN Guarded ELSE w.acts[a].props
Remade(w, a) == [Types[w.acts[a].type] EXCEPT !.props = Reloaded(@, SavedProps(w, a))]

LEMMA RemadeIs ==
    ASSUME NEW w, Made(w), NEW a \in KnownActs(w)
    PROVE  /\ IsAction(Remade(w, a))
           /\ Remade(w, a).type = Types[w.acts[a].type].type
           /\ Remade(w, a).props = Reloaded(Types[w.acts[a].type].props, SavedProps(w, a))
<1> DEFINE t == Types[w.acts[a].type]
           ps == Reloaded(t.props, SavedProps(w, a))
<1>1. IsAction(t) /\ IsAction(w.acts[a])
  BY MadeIsShaped, PartsAssumption DEF KnownActs, PartsAssumption, Shaped
<1>2. ps = [guarded |-> ps.guarded, props |-> ps.props] /\ ps.guarded = SavedProps(w, a).guarded
  BY DEF Reloaded
<1>3. SavedProps(w, a).guarded = TRUE
  BY <1>1 DEF SavedProps, Guarded, IsAction
<1>4. Remade(w, a) = [t EXCEPT !.props = ps]
  BY DEF Remade
<1> HIDE DEF t, ps
<1>5. [t EXCEPT !.props = ps] = [type |-> t.type, takes |-> t.takes, offers |-> t.offers,
                                 props |-> ps, prepared |-> t.prepared]
  BY <1>1 DEF IsAction
<1>6. IsAction([t EXCEPT !.props = ps])
  BY <1>1, <1>2, <1>3, <1>5 DEF IsAction, IsProps
<1> QED BY <1>4, <1>5, <1>6 DEF t, ps

LEMMA CopyIs ==
    ASSUME NEW w, Made(w)
    PROVE  LET l == Copy(w)
               n == NewWorkflow(w.name)
           IN  /\ Made(l) /\ l.name = w.name /\ Indexed(l)
               /\ DOMAIN l.acts = KnownActs(w) \cup FirstSteps
               /\ \A a \in KnownActs(w) : l.acts[a] = Remade(w, a) /\ l.outputs[a] = w.outputs[a]
               /\ \A a \in FirstSteps \ KnownActs(w) :
                    l.acts[a] = n.acts[a] /\ l.outputs[a] = n.outputs[a]
               /\ l.starters = w.starters
               /\ l.exposed = [i \in {j \in DOMAIN w.exposed : DOMAIN w.exposed[j] # {}} |->
                                w.exposed[i]]
<1> DEFINE n == NewWorkflow(w.name)
           known == KnownActs(w)
           acts == [a \in known |-> Remade(w, a)]
           outs == [a \in known |-> w.outputs[a]]
           r == WithActions(n, acts, outs)
           x == [i \in {j \in DOMAIN w.exposed : DOMAIN w.exposed[j] # {}} |-> w.exposed[i]]
           l == Copy(w)
<1>1. Shaped(w)
  BY MadeIsShaped
<1>2. Rebuilt(n, Saved(w), Types) = r
  <2> DEFINE sv == Saved(w)
             ids == {a \in DOMAIN sv.acts : Accepts(a) /\ sv.acts[a].type \in DOMAIN Types}
  <2>1. DOMAIN sv.acts = DOMAIN w.acts /\ sv.outputs = w.outputs
    BY DEF Saved
  <2>2. \A a \in DOMAIN w.acts : sv.acts[a].type = w.acts[a].type
                                 /\ sv.acts[a].props = SavedProps(w, a)
    BY DEF Saved, SavedProps
  <2>3. \A a \in DOMAIN w.acts : Accepts(a)
    BY <1>1 DEF Shaped, Accepts
  <2> HIDE DEF sv
  <2>4. ids = known
    BY <2>1, <2>2, <2>3 DEF KnownActs
  <2>5. \A a \in known : [Types[sv.acts[a].type] EXCEPT !.props = Reloaded(@, sv.acts[a].props)]
                         = Remade(w, a)
    BY <2>2 DEF KnownActs, Remade
  <2>6. [a \in ids |-> [Types[sv.acts[a].type] EXCEPT !.props = Reloaded(@, sv.acts[a].props)]]
        = acts
    BY <2>4, <2>5
  <2>7. [a \in ids |-> sv.outputs[a]] = outs
    BY <2>1, <2>4
  <2> HIDE DEF acts, outs
  <2>8. Rebuilt(n, sv, Types) = WithActions(n, [a \in ids |->
            [Types[sv.acts[a].type] EXCEPT !.props = Reloaded(@, sv.acts[a].props)]],
            [a \in ids |-> sv.outputs[a]])
    BY DEF Rebuilt
  <2> QED BY <2>6, <2>7, <2>8 DEF sv
<1>3. Made(n) /\ n.name = w.name /\ n.starters = << >> /\ DOMAIN n.acts = FirstSteps
  BY NewWorkflowMade
<1>4. AreActions(acts, outs)
  <2>1. known \subseteq DOMAIN w.acts
    BY DEF KnownActs
  <2>2. IsFiniteSet(known)
    BY <1>1, <2>1, FS_Subset DEF Shaped
  <2>3. \A a \in known : IsAction(acts[a]) /\ outs[a] \in Seq(BindingSet)
    BY <1>1, <2>1, RemadeIs DEF Shaped
  <2>4. DOMAIN acts = known /\ DOMAIN outs = known
    OBVIOUS
  <2> HIDE DEF acts, outs, known
  <2> QED BY <1>1, <2>1, <2>2, <2>3, <2>4 DEF AreActions, Shaped
<1>5. /\ DOMAIN acts = known /\ DOMAIN outs = known
      /\ \A a \in known : acts[a] = Remade(w, a) /\ outs[a] = w.outputs[a]
  OBVIOUS
<1> HIDE DEF acts, outs, n, x
<1>6. /\ Shaped(r) /\ r.name = w.name /\ r.acts = acts ++ n.acts
      /\ r.outputs = outs ++ n.outputs /\ r.starters = << >> /\ Indexed(r)
  BY <1>3, <1>4, MadeIsShaped, WithActionsShaped
<1> HIDE DEF r
<1>7. l = [r EXCEPT !.name = w.name, !.starters = << >> \o w.starters, !.exposed = x]
  <2>1. Saved(w).name = w.name /\ Saved(w).starters = w.starters /\ Saved(w).exposed = x
    BY DEF Saved, x
  <2>2. Rebuilt(NewWorkflow(w.name), Saved(w), Types) = r
    BY <1>2 DEF n
  <2> HIDE DEF l
  <2>3. l = [r EXCEPT !.name = w.name, !.starters = @ \o w.starters, !.exposed = x]
    BY <2>1, <2>2 DEF l, Copy, Loaded
  <2> QED BY <1>6, <2>3
<1>8. << >> \o w.starters = w.starters
  BY <1>1 DEF Shaped
<1>9. l = [name |-> w.name, acts |-> r.acts, outputs |-> r.outputs, producers |-> r.producers,
           starters |-> w.starters, exposed |-> x]
  <2> DEFINE nm == w.name
             st == w.starters
             r1 == [r EXCEPT !.name = nm]
             r2 == [r1 EXCEPT !.starters = st]
             r3 == [r2 EXCEPT !.exposed = x]
  <2>1. l = r3
    BY <1>7, <1>8
  <2>2. r = [name |-> r.name, acts |-> r.acts, outputs |-> r.outputs,
             producers |-> r.producers, starters |-> r.starters, exposed |-> r.exposed]
    BY <1>6 DEF Shaped, IsWorkflow
  <2> HIDE DEF l, nm, st
  <2>3. r1 = [name |-> nm, acts |-> r.acts, outputs |-> r.outputs,
              producers |-> r.producers, starters |-> r.starters, exposed |-> r.exposed]
    BY <2>2
  <2> HIDE DEF r1
  <2>4. r2 = [name |-> nm, acts |-> r.acts, outputs |-> r.outputs,
              producers |-> r.producers, starters |-> st, exposed |-> r.exposed]
    BY <2>3
  <2> HIDE DEF r2
  <2>5. r3 = [name |-> nm, acts |-> r.acts, outputs |-> r.outputs,
              producers |-> r.producers, starters |-> st, exposed |-> x]
    BY <2>4
  <2> HIDE DEF r3
  <2> QED BY <2>1, <2>5 DEF nm, st
<1> HIDE DEF l
<1>10. /\ l.name = w.name /\ l.acts = r.acts /\ l.outputs = r.outputs
       /\ l.producers = r.producers /\ l.starters = w.starters /\ l.exposed = x
  BY <1>9
<1>11. DOMAIN l.acts = known \cup FirstSteps
  <2>1. DOMAIN (acts ++ n.acts) = DOMAIN acts \cup DOMAIN n.acts
    BY Combined
  <2> QED BY <1>3, <1>5, <1>6, <1>10, <2>1
<1>12. Made(l) /\ Indexed(l)
  <2>1. IsWorkflow(l)
    BY <1>9, <1>10 DEF IsWorkflow
  <2>2. Shaped(l)
    BY <1>1, <1>6, <1>10, <2>1 DEF Shaped
  <2> QED BY <1>6, <1>10, <1>11, <2>2, MadeIsShaped DEF Indexed
<1>13. ASSUME NEW a \in known
       PROVE  l.acts[a] = Remade(w, a) /\ l.outputs[a] = w.outputs[a]
  <2>1. (acts ++ n.acts)[a] = acts[a] /\ (outs ++ n.outputs)[a] = outs[a]
    BY <1>5 DEF ++
  <2> QED BY <1>5, <1>6, <1>10, <2>1
<1>14. ASSUME NEW a \in FirstSteps \ known
       PROVE  l.acts[a] = n.acts[a] /\ l.outputs[a] = n.outputs[a]
  <2>1. DOMAIN n.outputs = FirstSteps
    BY <1>3, MadeIsShaped DEF Shaped
  <2>2. (acts ++ n.acts)[a] = n.acts[a] /\ (outs ++ n.outputs)[a] = n.outputs[a]
    BY <1>3, <1>5, <2>1 DEF ++
  <2> QED BY <1>6, <1>10, <2>2
<1> QED BY <1>10, <1>11, <1>12, <1>13, <1>14 DEF l, n, x

LEMMA CopyHides ==
    ASSUME NEW w, Made(w), NEW keys, Hides(w, keys)
    PROVE  Hides(Copy(w), keys)
<1> DEFINE l == Copy(w)
<1>1. l.exposed = [i \in {j \in DOMAIN w.exposed : DOMAIN w.exposed[j] # {}} |-> w.exposed[i]]
  BY CopyIs
<1> HIDE DEF l
<1>2. \A i \in DOMAIN l.exposed : i \in DOMAIN w.exposed /\ l.exposed[i] = w.exposed[i]
  BY <1>1
<1>3. Hides(l, keys)
  BY <1>2 DEF Hides
<1> QED BY <1>3 DEF l

-----------------------------------------------------------------------------
(* Preparing and validating rewrite calls and nothing else.  keys are those *)
(* no workflow exposes: a call keeps what it says of them.                  *)

Keeps(ps, qs, keys) ==
    /\ DOMAIN ps.props \subseteq DOMAIN qs.props
    /\ \A k \in DOMAIN qs.props :
        k[2] \in keys => k \in DOMAIN ps.props /\ qs.props[k] = ps.props[k]

Reworked(act, bct, keys) ==
    \/ bct = act
    \/ /\ act.type = "ExecuteWorkflow" /\ bct.type = act.type
       /\ IsAction(bct)
       /\ Keeps(act.props, bct.props, keys)

Retouched(w, u, keys) ==
    /\ u = [name |-> w.name, acts |-> u.acts, outputs |-> w.outputs, producers |-> w.producers,
            starters |-> w.starters, exposed |-> w.exposed]
    /\ DOMAIN u.acts = DOMAIN w.acts
    /\ \A a \in DOMAIN w.acts : Reworked(w.acts[a], u.acts[a], keys)

\* A prepared call that is not dynamic is left as it is.
Steady(w, u) ==
    \A a \in DOMAIN w.acts :
        w.acts[a].prepared /\ ~Dynamic(OwnLayers(w, a)) => u.acts[a] = w.acts[a]

\* Among the objects there are, only o is retouched.
Touched(hp, hq, o, keys) ==
    /\ DOMAIN hq = DOMAIN hp
    /\ \A x \in DOMAIN hp \ {o} : hq[x] = hp[x]
    /\ Retouched(hp[o], hq[o], keys)

LEMMA KeepsTransitive ==
    ASSUME NEW p, NEW q, NEW r, NEW keys, Keeps(p, q, keys), Keeps(q, r, keys)
    PROVE  Keeps(p, r, keys)
  BY DEF Keeps

LEMMA RetouchedReflexive ==
    ASSUME NEW w, IsWorkflow(w), NEW keys
    PROVE  Retouched(w, w, keys)
  BY DEF Retouched, IsWorkflow, Reworked

LEMMA RetouchedIs ==
    ASSUME NEW w, NEW u, NEW keys, Retouched(w, u, keys)
    PROVE  /\ IsWorkflow(u)
           /\ u.name = w.name /\ u.outputs = w.outputs /\ u.producers = w.producers
           /\ u.starters = w.starters /\ u.exposed = w.exposed
           /\ DOMAIN u.acts = DOMAIN w.acts
           /\ \A a \in DOMAIN w.acts : u.acts[a].type = w.acts[a].type
           /\ Callers(u) = Callers(w)
<1>1. /\ u.name = w.name /\ u.outputs = w.outputs /\ u.producers = w.producers
      /\ u.starters = w.starters /\ u.exposed = w.exposed
  <2> DEFINE n == w.name
             b == u.acts
             out == w.outputs
             pr == w.producers
             st == w.starters
             ex == w.exposed
  <2>1. u = [name |-> n, acts |-> b, outputs |-> out, producers |-> pr, starters |-> st,
             exposed |-> ex]
    BY DEF Retouched
  <2> HIDE DEF n, b, out, pr, st, ex
  <2>2. u.name = n /\ u.outputs = out /\ u.producers = pr /\ u.starters = st /\ u.exposed = ex
    BY <2>1
  <2> QED BY <2>2 DEF n, out, pr, st, ex
<1>2. IsWorkflow(u)
  BY <1>1 DEF Retouched, IsWorkflow
<1>3. DOMAIN u.acts = DOMAIN w.acts
      /\ \A a \in DOMAIN w.acts : u.acts[a].type = w.acts[a].type
  BY DEF Retouched, Reworked
<1> QED BY <1>1, <1>2, <1>3 DEF Callers

LEMMA RetouchedTransitive ==
    ASSUME NEW w, NEW u, NEW v, NEW keys, Retouched(w, u, keys), Retouched(u, v, keys)
    PROVE  Retouched(w, v, keys)
<1>1. \A a \in DOMAIN w.acts : Reworked(w.acts[a], v.acts[a], keys)
  <2> TAKE a \in DOMAIN w.acts
  <2>1. Reworked(w.acts[a], u.acts[a], keys) /\ Reworked(u.acts[a], v.acts[a], keys)
    BY DEF Retouched
  <2> QED BY <2>1, KeepsTransitive DEF Reworked
<1>2. /\ u.name = w.name /\ u.outputs = w.outputs /\ u.producers = w.producers
      /\ u.starters = w.starters /\ u.exposed = w.exposed
      /\ DOMAIN u.acts = DOMAIN w.acts
  BY RetouchedIs
<1> QED BY <1>1, <1>2 DEF Retouched

LEMMA RetouchedMade ==
    ASSUME NEW w, Made(w), NEW u, NEW keys, Retouched(w, u, keys)
    PROVE  /\ Follows(w, u)
           /\ \A hidden : Hides(w, hidden) => Hides(u, hidden)
<1>1. /\ IsWorkflow(u)
      /\ u.name = w.name /\ u.outputs = w.outputs /\ u.producers = w.producers
      /\ u.starters = w.starters /\ u.exposed = w.exposed
      /\ DOMAIN u.acts = DOMAIN w.acts
  BY RetouchedIs
<1>2. \A a \in DOMAIN u.acts : IsAction(u.acts[a])
  <2> TAKE a \in DOMAIN u.acts
  <2>1. IsAction(w.acts[a]) /\ Reworked(w.acts[a], u.acts[a], keys)
    BY <1>1, MadeIsShaped DEF Shaped, Retouched
  <2> QED BY <2>1 DEF Reworked
<1>3. Shaped(w) /\ FirstSteps \subseteq DOMAIN w.acts
  BY MadeIsShaped
<1>4. Shaped(u)
  BY <1>1, <1>2, <1>3 DEF Shaped
<1>5. Made(u)
  BY <1>1, <1>3, <1>4, MadeIsShaped
<1> QED BY <1>1, <1>5 DEF Follows, Indexed, Hides

\* What a call says of the keys nobody exposes stays.
LEMMA ReadsKept ==
    ASSUME NEW w, NEW u, NEW keys, Retouched(w, u, keys), NEW a \in DOMAIN w.acts,
           NEW key \in keys, NEW kind \in Kind
    PROVE  /\ Has(u.acts[a].props, key) <=> Has(w.acts[a].props, key)
           /\ Holds(u.acts[a].props, kind, key) <=> Holds(w.acts[a].props, kind, key)
           /\ Holds(w.acts[a].props, kind, key) =>
                u.acts[a].props.props[<<kind, key>>] = w.acts[a].props.props[<<kind, key>>]
<1> DEFINE p == w.acts[a].props
           q == u.acts[a].props
<1>1. p = q \/ Keeps(p, q, keys)
  BY DEF Retouched, Reworked
<1> HIDE DEF p, q
<1>2. ASSUME NEW k \in Kind
      PROVE  Holds(q, k, key) <=> Holds(p, k, key)
  <2>1. <<k, key>>[2] = key
    OBVIOUS
  <2> QED BY <1>1, <2>1 DEF Keeps, Holds
<1>3. Holds(p, kind, key) => q.props[<<kind, key>>] = p.props[<<kind, key>>]
  <2>1. <<kind, key>>[2] = key
    OBVIOUS
  <2> QED BY <1>1, <2>1 DEF Keeps, Holds
<1> QED BY <1>2, <1>3 DEF Has, p, q

\* A call without a session reads the layer of its own.
LEMMA OwnRead ==
    ASSUME NEW ps, NEW kind, NEW key, NEW default
    PROVE  Read(<<ps>>, kind, key, default)
           = IF Has(ps, key) THEN Get(ps, kind, key, default) ELSE Get(Unguarded, kind, key, default)
<1> DEFINE having == {i \in 1 .. Len(<<ps>>) : Has(<<ps>>[i], key)}
<1>1. CASE Has(ps, key)
  <2>1. having = {1}
    BY <1>1
  <2>2. (CHOOSE i \in having : \A j \in having : i <= j) = 1
    BY <2>1
  <2>3. FirstLayer(<<ps>>, key) = ps
    BY <2>1, <2>2 DEF FirstLayer
  <2> QED BY <1>1, <2>3 DEF Read
<1>2. CASE ~Has(ps, key)
  <2>1. having = {}
    BY <1>2
  <2>2. FirstLayer(<<ps>>, key) = Unguarded
    BY <2>1 DEF FirstLayer
  <2> QED BY <1>2, <2>2 DEF Read
<1> QED BY <1>1, <1>2

LEMMA OwnReadKept ==
    ASSUME NEW w, NEW u, NEW keys, Retouched(w, u, keys), NEW a \in DOMAIN w.acts,
           NEW key \in keys, NEW kind \in Kind, kind # "uint", NEW default
    PROVE  Read(<<u.acts[a].props>>, kind, key, default)
           = Read(<<w.acts[a].props>>, kind, key, default)
<1> DEFINE p == w.acts[a].props
           q == u.acts[a].props
<1>1. /\ Has(q, key) <=> Has(p, key)
      /\ Holds(q, kind, key) <=> Holds(p, kind, key)
      /\ Holds(p, kind, key) => q.props[<<kind, key>>] = p.props[<<kind, key>>]
  BY ReadsKept
<1> HIDE DEF p, q
<1>2. Get(q, kind, key, default) = Get(p, kind, key, default)
  BY <1>1 DEF Get
<1>3. Read(<<q>>, kind, key, default) = Read(<<p>>, kind, key, default)
  <2>1. CASE Has(p, key)
    <3>1. Read(<<q>>, kind, key, default) = Get(q, kind, key, default)
      BY <1>1, <2>1, OwnRead
    <3>2. Read(<<p>>, kind, key, default) = Get(p, kind, key, default)
      BY <2>1, OwnRead
    <3> QED BY <1>2, <3>1, <3>2
  <2>2. CASE ~Has(p, key)
    <3>1. Read(<<q>>, kind, key, default) = Get(Unguarded, kind, key, default)
      BY <1>1, <2>2, OwnRead
    <3>2. Read(<<p>>, kind, key, default) = Get(Unguarded, kind, key, default)
      BY <2>2, OwnRead
    <3> QED BY <3>1, <3>2
  <2> QED BY <2>1, <2>2
<1> QED BY <1>3 DEF p, q

LEMMA DynamicKept ==
    ASSUME NEW w, NEW u, NEW keys, Retouched(w, u, keys), NEW a \in DOMAIN w.acts,
           "dynamic" \in keys
    PROVE  Dynamic(OwnLayers(u, a)) = Dynamic(OwnLayers(w, a))
<1> DEFINE kind == "bool"
           key == "dynamic"
           no == FALSE
<1>1. kind \in Kind /\ kind # "uint" /\ key \in keys
  BY DEF Kind
<1> HIDE DEF kind, key, no
<1>2. Read(<<u.acts[a].props>>, kind, key, no) = Read(<<w.acts[a].props>>, kind, key, no)
  BY <1>1, OwnReadKept
<1> QED BY <1>2 DEF Dynamic, OwnLayers, kind, key, no

LEMMA SteadyTransitive ==
    ASSUME NEW w, NEW u, NEW v, NEW keys, Retouched(w, u, keys),
           Steady(w, u), Steady(u, v)
    PROVE  Steady(w, v)
<1> SUFFICES ASSUME NEW a \in DOMAIN w.acts, w.acts[a].prepared, ~Dynamic(OwnLayers(w, a))
             PROVE  v.acts[a] = w.acts[a]
  BY DEF Steady
<1>1. u.acts[a] = w.acts[a] /\ DOMAIN u.acts = DOMAIN w.acts
  BY RetouchedIs DEF Steady
<1>2. Dynamic(OwnLayers(u, a)) = Dynamic(OwnLayers(w, a))
  BY <1>1 DEF OwnLayers
<1> QED BY <1>1, <1>2 DEF Steady

Recast(act, takes, offers, props, prepared) ==
    [act EXCEPT !.takes = takes, !.offers = offers, !.props = props, !.prepared = prepared]

LEMMA RecastIs ==
    ASSUME NEW act, IsAction(act), NEW takes, NEW offers, NEW props, NEW prepared
    PROVE  Recast(act, takes, offers, props, prepared)
           = [type |-> act.type, takes |-> takes, offers |-> offers, props |-> props,
              prepared |-> prepared]
<1> DEFINE t == act.type
           a1 == [act EXCEPT !.takes = takes]
           a2 == [a1 EXCEPT !.offers = offers]
           a3 == [a2 EXCEPT !.props = props]
           a4 == [a3 EXCEPT !.prepared = prepared]
<1>0. Recast(act, takes, offers, props, prepared) = a4
  BY DEF Recast
<1>1. act = [type |-> t, takes |-> act.takes, offers |-> act.offers, props |-> act.props,
             prepared |-> act.prepared]
  BY DEF IsAction
<1> HIDE DEF t
<1>2. a1 = [type |-> t, takes |-> takes, offers |-> act.offers, props |-> act.props,
            prepared |-> act.prepared]
  BY <1>1
<1> HIDE DEF a1
<1>3. a2 = [type |-> t, takes |-> takes, offers |-> offers, props |-> act.props,
            prepared |-> act.prepared]
  BY <1>2
<1> HIDE DEF a2
<1>4. a3 = [type |-> t, takes |-> takes, offers |-> offers, props |-> props,
            prepared |-> act.prepared]
  BY <1>3
<1> HIDE DEF a3
<1>5. a4 = [type |-> t, takes |-> takes, offers |-> offers, props |-> props,
            prepared |-> prepared]
  BY <1>4
<1> HIDE DEF a4
<1> QED BY <1>0, <1>5 DEF t

IsCall(act) == IsAction(act) /\ act.type = "ExecuteWorkflow"
Refills(ps, qs, keys) == IsProps(qs) /\ qs.guarded = TRUE /\ Keeps(ps, qs, keys)

\* What becomes of the record of a call: it is one again.
LEMMA CallRecast ==
    ASSUME NEW act, IsCall(act), NEW takes, NEW offers, NEW props, NEW prepared,
           prepared \in BOOLEAN, NEW keys, Refills(act.props, props, keys)
    PROVE  LET bct == Recast(act, takes, offers, props, prepared)
           IN  /\ Reworked(act, bct, keys)
               /\ bct.takes = takes /\ bct.offers = offers /\ bct.props = props
               /\ bct.prepared = prepared /\ bct.type = act.type /\ IsAction(bct)
<1> DEFINE bct == Recast(act, takes, offers, props, prepared)
           t == act.type
<1>1. bct = [type |-> t, takes |-> takes, offers |-> offers, props |-> props,
             prepared |-> prepared]
  BY RecastIs DEF IsCall
<1>2. t = "ExecuteWorkflow"
  BY DEF IsCall
<1> HIDE DEF bct, t
<1>3. /\ bct.type = t /\ bct.takes = takes /\ bct.offers = offers /\ bct.props = props
      /\ bct.prepared = prepared
  BY <1>1
<1>4. IsAction(bct)
  BY <1>1, <1>2, <1>3 DEF IsAction, Refills
<1> QED BY <1>2, <1>3, <1>4 DEF Reworked, Refills, bct, t

LEMMA KeepsItself == \A ps, keys : Keeps(ps, ps, keys)
  BY DEF Keeps

LEMMA BareIs ==
    ASSUME NEW act, IsCall(act), NEW keys
    PROVE  /\ Reworked(act, Bare(act), keys)
           /\ Reworked(act, Unprepared(act), keys)
           /\ Reworked(act, Unprepared(Bare(act)), keys)
           /\ ~Unprepared(act).prepared /\ ~Unprepared(Bare(act)).prepared
<1>1. Refills(act.props, act.props, keys) /\ act.prepared \in BOOLEAN
  BY KeepsItself DEF IsCall, IsAction, Refills
<1>2. act = [type |-> act.type, takes |-> act.takes, offers |-> act.offers,
             props |-> act.props, prepared |-> act.prepared]
  BY DEF IsCall, IsAction
<1>3. ASSUME NEW takes, NEW offers, NEW prepared \in BOOLEAN
      PROVE  LET bct == Recast(act, takes, offers, act.props, prepared)
             IN  Reworked(act, bct, keys) /\ bct.prepared = prepared
  BY <1>1, CallRecast
<1>4. Bare(act) = Recast(act, << >>, << >>, act.props, act.prepared)
  BY <1>2 DEF Bare, Recast
<1>5. Unprepared(act) = Recast(act, act.takes, act.offers, act.props, FALSE)
  BY <1>2 DEF Unprepared, Recast
<1>6. Unprepared(Bare(act)) = Recast(act, << >>, << >>, act.props, FALSE)
  BY <1>2 DEF Unprepared, Bare, Recast
<1>7. Reworked(act, Bare(act), keys)
  BY <1>1, <1>3, <1>4
<1>8. Reworked(act, Unprepared(act), keys) /\ ~Unprepared(act).prepared
  BY <1>3, <1>5
<1>9. Reworked(act, Unprepared(Bare(act)), keys) /\ ~Unprepared(Bare(act)).prepared
  BY <1>3, <1>6
<1> QED BY <1>7, <1>8, <1>9

\* prepare takes over the properties a callee exposes and leaves those it hides.
LEMMA PropertiesKept ==
    ASSUME NEW w, NEW keys, Hides(w, keys), NEW ps, IsProps(ps)
    PROVE  LET qs == PropertiesWith(w, ps)
           IN  IsProps(qs) /\ qs.guarded = ps.guarded /\ Keeps(ps, qs, keys)
<1> DEFINE given == UNION {Given(w, id) : id \in DOMAIN w.exposed}
           last(k) == Max({id \in DOMAIN w.exposed : k \in Given(w, id)})
           new == [k \in given |-> w.acts[last(k)].props.props[k]]
           qs == PropertiesWith(w, ps)
<1>1. qs = [ps EXCEPT !.props = new ++ ps.props]
  BY DEF PropertiesWith
<1>2. ps = [guarded |-> ps.guarded, props |-> ps.props]
  BY DEF IsProps
<1>3. ASSUME NEW k \in given PROVE k[2] \notin keys
  <2>1. PICK id \in DOMAIN w.exposed : k \in Given(w, id)
    OBVIOUS
  <2>2. PICK alias \in DOMAIN w.exposed[id] : w.exposed[id][alias] = k[2]
    BY <2>1 DEF Given
  <2> QED BY <2>2 DEF Hides
<1>4. DOMAIN new = given
  OBVIOUS
<1> HIDE DEF new, qs, given
<1>5. qs.guarded = ps.guarded /\ qs.props = new ++ ps.props /\ IsProps(qs)
  <2> DEFINE g == ps.guarded
             x == new ++ ps.props
  <2>1. [ps EXCEPT !.props = x] = [guarded |-> g, props |-> x]
    BY <1>2
  <2> HIDE DEF g, x
  <2>2. qs = [guarded |-> g, props |-> x]
    BY <1>1, <2>1 DEF x
  <2>3. qs.guarded = g /\ qs.props = x
    BY <2>2
  <2> QED BY <2>2, <2>3 DEF IsProps, g, x
<1>6. Keeps(ps, qs, keys)
  <2>1. DOMAIN qs.props = given \cup DOMAIN ps.props
    BY <1>4, <1>5 DEF ++
  <2>2. ASSUME NEW k \in DOMAIN qs.props, k[2] \in keys
        PROVE  k \in DOMAIN ps.props /\ qs.props[k] = ps.props[k]
    <3>1. k \notin given
      BY <1>3, <2>2
    <3>2. k \in DOMAIN ps.props
      BY <2>1, <2>2, <3>1
    <3> QED BY <1>4, <1>5, <3>1, <3>2 DEF ++
  <2> QED BY <2>1, <2>2 DEF Keeps
<1> QED BY <1>5, <1>6 DEF qs

\* One call rewritten.
OnlyAct(w, u, a) == \A b \in DOMAIN w.acts \ {a} : u.acts[b] = w.acts[b]

LEMMA WithActIs ==
    ASSUME NEW hp, NEW o \in DOMAIN hp, IsWorkflow(hp[o]), NEW a \in DOMAIN hp[o].acts,
           NEW act, NEW keys, Reworked(hp[o].acts[a], act, keys)
    PROVE  LET hq == WithAct(hp, o, a, act)
           IN  /\ Touched(hp, hq, o, keys)
               /\ OnlyAct(hp[o], hq[o], a)
               /\ hq[o].acts[a] = act
<1> DEFINE w == hp[o]
           acts == [w.acts EXCEPT ![a] = act]
           u == [w EXCEPT !.acts = acts]
           hq == WithAct(hp, o, a, act)
<1>1. /\ DOMAIN acts = DOMAIN w.acts /\ acts[a] = act
      /\ \A b \in DOMAIN w.acts \ {a} : acts[b] = w.acts[b]
  OBVIOUS
<1>2. /\ DOMAIN hq = DOMAIN hp /\ hq[o] = u
      /\ \A x \in DOMAIN hp \ {o} : hq[x] = hp[x]
  <2>1. hq = [hp EXCEPT ![o] = u]
    BY DEF WithAct
  <2> HIDE DEF u, hq
  <2> QED BY <2>1
<1> HIDE DEF acts, hq
<1>3. u = [name |-> w.name, acts |-> acts, outputs |-> w.outputs, producers |-> w.producers,
           starters |-> w.starters, exposed |-> w.exposed]
  BY DEF IsWorkflow
<1> HIDE DEF u
<1>4. u.acts = acts
  BY <1>3
<1>5. Retouched(w, u, keys)
  BY <1>1, <1>3, <1>4 DEF Retouched, Reworked
<1> QED BY <1>1, <1>2, <1>4, <1>5 DEF Touched, OnlyAct, hq

LEMMA TouchedReflexive ==
    ASSUME NEW hp, NEW o \in DOMAIN hp, IsWorkflow(hp[o]), NEW keys
    PROVE  Touched(hp, hp, o, keys)
  BY RetouchedReflexive DEF Touched

LEMMA TouchedTransitive ==
    ASSUME NEW f, NEW g, NEW h, NEW o \in DOMAIN f, NEW keys,
           Touched(f, g, o, keys), Touched(g, h, o, keys)
    PROVE  Touched(f, h, o, keys)
<1>1. Retouched(f[o], h[o], keys)
  BY RetouchedTransitive DEF Touched
<1> QED BY <1>1 DEF Touched

\* What the heap is like: every object well made, the keys exposed by none.
HeapMade(hp, keys) == \A x \in DOMAIN hp : Made(hp[x]) /\ Hides(hp[x], keys)

LEMMA TouchedMade ==
    ASSUME NEW hp, NEW hq, NEW o \in DOMAIN hp, NEW keys, NEW hidden,
           HeapMade(hp, hidden), Touched(hp, hq, o, keys)
    PROVE  HeapMade(hq, hidden)
<1> SUFFICES ASSUME NEW x \in DOMAIN hp PROVE Made(hq[x]) /\ Hides(hq[x], hidden)
  BY DEF HeapMade, Touched
<1>1. Made(hp[x]) /\ Hides(hp[x], hidden)
  BY DEF HeapMade
<1>2. CASE x = o
  <2>1. Retouched(hp[x], hq[x], keys)
    BY <1>2 DEF Touched
  <2> QED BY <1>1, <2>1, RetouchedMade DEF Follows
<1>3. CASE x # o
  BY <1>1, <1>3 DEF Touched
<1> QED BY <1>2, <1>3

Known(known, hp) == \A name \in DOMAIN known : known[name] \in DOMAIN hp

LEMMA CallersAre ==
    ASSUME NEW w, Made(w), NEW a \in Callers(w)
    PROVE  a \in DOMAIN w.acts /\ IsCall(w.acts[a]) /\ IsWorkflow(w)
  BY MadeIsShaped DEF Shaped, Callers, IsCall

\* prepare
\* The contract of the call in hq is that of the callee c as prepare reads it.
Agrees(hp, hq, o, a, c) ==
    LET w == Cleared(hp, o, a)[c]
    IN  /\ ~CallThrows(w)
        /\ hq[o].acts[a].takes = InputsOf(w)
        /\ hq[o].acts[a].offers = OutputsOf(w)

LEMMA PrepareIs ==
    ASSUME NEW hp, NEW keys, HeapMade(hp, keys), NEW known, Known(known, hp),
           NEW o \in DOMAIN hp, NEW a \in Callers(hp[o]), NEW name
    PROVE  LET p == Prepare(hp, known, o, a, name)
           IN  /\ Touched(hp, p.heap, o, keys)
               /\ OnlyAct(hp[o], p.heap[o], a)
               /\ p.ok \in BOOLEAN /\ p.thrown \in BOOLEAN
               /\ p.ok => /\ ~p.thrown
                          /\ name \in DOMAIN known
                          /\ p.heap = Copied(hp, o, a, known[name])
                          /\ p.heap[o].acts[a].prepared
                          /\ Agrees(hp, p.heap, o, a, known[name])
<1> DEFINE p == Prepare(hp, known, o, a, name)
           act == hp[o].acts[a]
<1>1. a \in DOMAIN hp[o].acts /\ IsCall(act) /\ IsWorkflow(hp[o])
  BY CallersAre DEF HeapMade
<1>2. /\ Reworked(act, Bare(act), keys)
      /\ Reworked(act, Unprepared(act), keys)
      /\ Reworked(act, Unprepared(Bare(act)), keys)
  BY <1>1, BareIs
<1>3. CASE name \notin DOMAIN known
  <2> DEFINE hq == WithAct(hp, o, a, Unprepared(act))
  <2>1. p.heap = hq /\ p.ok = FALSE /\ p.thrown = FALSE
    BY <1>3 DEF Prepare
  <2>2. Touched(hp, hq, o, keys) /\ OnlyAct(hp[o], hq[o], a)
    BY <1>1, <1>2, WithActIs
  <2> HIDE DEF p, hq
  <2>3. /\ Touched(hp, p.heap, o, keys) /\ OnlyAct(hp[o], p.heap[o], a)
        /\ p.ok \in BOOLEAN /\ p.thrown \in BOOLEAN /\ ~p.ok
    BY <2>1, <2>2
  <2> QED BY <2>3 DEF p
<1>4. CASE name \in DOMAIN known /\ CallThrows(Cleared(hp, o, a)[known[name]])
  <2> DEFINE hq == WithAct(hp, o, a, Unprepared(Bare(act)))
  <2>1. p.heap = hq /\ p.ok = FALSE /\ p.thrown = TRUE
    BY <1>4 DEF Prepare
  <2>2. Touched(hp, hq, o, keys) /\ OnlyAct(hp[o], hq[o], a)
    BY <1>1, <1>2, WithActIs
  <2> HIDE DEF p, hq
  <2>3. /\ Touched(hp, p.heap, o, keys) /\ OnlyAct(hp[o], p.heap[o], a)
        /\ p.ok \in BOOLEAN /\ p.thrown \in BOOLEAN /\ ~p.ok
    BY <2>1, <2>2
  <2> QED BY <2>3 DEF p
<1>5. CASE name \in DOMAIN known /\ ~CallThrows(Cleared(hp, o, a)[known[name]])
  <2> DEFINE hq == Copied(hp, o, a, known[name])
             w == Cleared(hp, o, a)[known[name]]
             bct == Recast(act, InputsOf(w), OutputsOf(w), PropertiesWith(w, act.props), TRUE)
  <2>1. p.heap = hq /\ p.ok = TRUE /\ p.thrown = FALSE
    BY <1>5 DEF Prepare
  <2>2. Hides(w, keys)
    <3> DEFINE hc == WithAct(hp, o, a, Bare(act))
    <3>1. Touched(hp, hc, o, keys)
      BY <1>1, <1>2, WithActIs
    <3>2. Cleared(hp, o, a) = hc
      BY DEF Cleared
    <3> HIDE DEF hc
    <3>3. HeapMade(hc, keys) /\ DOMAIN hc = DOMAIN hp
      BY <3>1, TouchedMade DEF Touched
    <3>4. known[name] \in DOMAIN hp
      BY <1>5 DEF Known
    <3> QED BY <3>2, <3>3, <3>4 DEF HeapMade
  <2>3. hq = WithAct(hp, o, a, bct)
    <3>1. [act EXCEPT !.takes = InputsOf(w), !.offers = OutputsOf(w),
                      !.props = PropertiesWith(w, @), !.prepared = TRUE] = bct
      <4>1. act = [type |-> act.type, takes |-> act.takes, offers |-> act.offers,
                   props |-> act.props, prepared |-> act.prepared]
        BY <1>1 DEF IsCall, IsAction
      <4> DEFINE b1 == [act EXCEPT !.takes = InputsOf(w)]
                 b2 == [b1 EXCEPT !.offers = OutputsOf(w)]
      <4> HIDE DEF w
      <4>2. b1.props = act.props
        BY <4>1
      <4>3. b2.props = b1.props
        BY <4>1
      <4>4. b2.props = act.props
        BY <4>2, <4>3
      <4> HIDE DEF b1, b2, act
      <4>5. [b2 EXCEPT !.props = PropertiesWith(w, @), !.prepared = TRUE]
            = [b2 EXCEPT !.props = PropertiesWith(w, act.props), !.prepared = TRUE]
        BY <4>4
      <4> QED BY <4>5 DEF b1, b2, Recast
    <3> QED BY <3>1 DEF Copied
  <2>4. Refills(act.props, PropertiesWith(w, act.props), keys)
    <3>1. IsProps(act.props) /\ act.props.guarded = TRUE
      BY <1>1 DEF IsCall, IsAction
    <3> DEFINE ps == act.props
               qs == PropertiesWith(w, ps)
    <3> HIDE DEF ps, w
    <3>2. IsProps(ps) /\ ps.guarded = TRUE
      BY <3>1 DEF ps
    <3>3. IsProps(qs) /\ qs.guarded = ps.guarded /\ Keeps(ps, qs, keys)
      BY <2>2, <3>2, PropertiesKept
    <3>4. Refills(ps, qs, keys)
      BY <3>2, <3>3 DEF Refills
    <3> QED BY <3>4 DEF ps
  <2> HIDE DEF p, hq, w
  <2>5. /\ Reworked(act, bct, keys) /\ bct.prepared = TRUE
        /\ bct.takes = InputsOf(w) /\ bct.offers = OutputsOf(w)
    <3> DEFINE i == InputsOf(w)
               u == OutputsOf(w)
               qs == PropertiesWith(w, act.props)
               yes == TRUE
               cct == Recast(act, i, u, qs, yes)
    <3>1. yes \in BOOLEAN
      OBVIOUS
    <3> HIDE DEF i, u, qs, yes
    <3>2. Refills(act.props, qs, keys)
      BY <2>4 DEF qs
    <3>3. /\ Reworked(act, cct, keys) /\ cct.prepared = yes
          /\ cct.takes = i /\ cct.offers = u
      BY <1>1, <3>1, <3>2, CallRecast
    <3> QED BY <3>3 DEF i, u, qs, yes
  <2> HIDE DEF bct
  <2>6. Touched(hp, hq, o, keys) /\ OnlyAct(hp[o], hq[o], a) /\ hq[o].acts[a] = bct
    BY <1>1, <2>3, <2>5, WithActIs
  <2>7. /\ Touched(hp, p.heap, o, keys) /\ OnlyAct(hp[o], p.heap[o], a)
        /\ p.ok \in BOOLEAN /\ p.thrown \in BOOLEAN /\ ~p.thrown /\ p.heap[o].acts[a].prepared
    BY <2>1, <2>5, <2>6
  <2>8. Agrees(hp, p.heap, o, a, known[name])
    BY <1>5, <2>1, <2>5, <2>6 DEF Agrees, w
  <2> QED BY <1>5, <2>1, <2>7, <2>8 DEF p, hq
<1> QED BY <1>3, <1>4, <1>5

-----------------------------------------------------------------------------
(* What validate finds of a binding stays true.                             *)

Open(w, a) == a \in Callers(w) /\ Dynamic(OwnLayers(w, a))
PutsOf(w, a, side) == IF side = "input" THEN Takes(w, a) ELSE Offers(w, a)

\* An end of a binding: nobody asks, or the action declares it and a call has
\* prepared what it declares, or the call is dynamic.
Met(w, a, side, name) ==
    \/ name = ""
    \/ a \notin Wrapped /\ Open(w, a)
    \/ /\ a \notin Wrapped
       /\ name \in DOMAIN PutsOf(w, a, side)
       /\ a \in Callers(w) => w.acts[a].prepared

LEMMA MetStays ==
    ASSUME NEW w, NEW u, NEW keys, "dynamic" \in keys, Retouched(w, u, keys), Steady(w, u),
           NEW a \in DOMAIN w.acts, NEW side, NEW name, Met(w, a, side, name)
    PROVE  Met(u, a, side, name)
<1>1. Open(u, a) <=> Open(w, a)
  BY RetouchedIs, DynamicKept DEF Open
<1>2. CASE name = "" \/ (a \notin Wrapped /\ Open(w, a))
  BY <1>1, <1>2 DEF Met
<1>3. CASE /\ a \notin Wrapped /\ ~Open(w, a)
           /\ name \in DOMAIN PutsOf(w, a, side)
           /\ a \in Callers(w) => w.acts[a].prepared
  <2>1. u.acts[a] = w.acts[a]
    <3>1. CASE a \in Callers(w)
      BY <1>3, <3>1 DEF Open, Steady
    <3>2. CASE a \notin Callers(w)
      <4>1. w.acts[a].type # "ExecuteWorkflow"
        BY <3>2 DEF Callers
      <4>2. Reworked(w.acts[a], u.acts[a], keys)
        BY DEF Retouched
      <4> QED BY <4>1, <4>2 DEF Reworked
    <3> QED BY <3>1, <3>2
  <2>2. PutsOf(u, a, side) = PutsOf(w, a, side)
    BY <2>1 DEF PutsOf, Takes, Offers
  <2>3. Callers(u) = Callers(w)
    BY RetouchedIs
  <2> QED BY <1>3, <2>1, <2>2, <2>3 DEF Met
<1> QED BY <1>2, <1>3 DEF Met

\* expectInput and expectOutput
LEMMA ExpectIs ==
    ASSUME NEW hp, NEW keys, HeapMade(hp, keys), NEW known, Known(known, hp),
           NEW o \in DOMAIN hp, NEW a \in DOMAIN hp[o].acts, NEW side, NEW name
    PROVE  LET e == Expect(hp, known, o, a, side, name)
           IN  /\ Touched(hp, e.heap, o, keys)
               /\ Steady(hp[o], e.heap[o])
               /\ e.ok \in BOOLEAN /\ e.thrown \in BOOLEAN
               /\ e.ok => Met(e.heap[o], a, side, name)
<1> DEFINE e == Expect(hp, known, o, a, side, name)
           caller == a \in Callers(hp[o]) \ Wrapped
           p == IF caller /\ ~hp[o].acts[a].prepared
                THEN Prepare(hp, known, o, a, Callee(OwnLayers(hp[o], a)))
                ELSE [heap |-> hp, ok |-> TRUE, thrown |-> FALSE]
           any == name = "" \/ (caller /\ Dynamic(OwnLayers(p.heap[o], a)))
           puts == PutsOf(p.heap[o], a, side)
           fits == any \/ name \in DOMAIN puts
<1>1. /\ Touched(hp, p.heap, o, keys)
      /\ Steady(hp[o], p.heap[o])
      /\ p.ok \in BOOLEAN /\ p.thrown \in BOOLEAN
      /\ p.ok /\ caller => p.heap[o].acts[a].prepared
  <2>1. CASE caller /\ ~hp[o].acts[a].prepared
    <3> DEFINE callee == Callee(OwnLayers(hp[o], a))
               q == Prepare(hp, known, o, a, callee)
    <3>1. p = q
      BY <2>1
    <3> HIDE DEF callee
    <3>2. /\ Touched(hp, q.heap, o, keys)
          /\ OnlyAct(hp[o], q.heap[o], a)
          /\ q.ok \in BOOLEAN /\ q.thrown \in BOOLEAN
          /\ q.ok => q.heap[o].acts[a].prepared
      BY <2>1, PrepareIs
    <3> HIDE DEF p, q
    <3>3. Steady(hp[o], q.heap[o])
      BY <2>1, <3>2 DEF OnlyAct, Steady
    <3> QED BY <3>1, <3>2, <3>3
  <2>2. CASE ~(caller /\ ~hp[o].acts[a].prepared)
    <3>1. p.heap = hp /\ p.ok = TRUE /\ p.thrown = FALSE
      BY <2>2
    <3>2. IsWorkflow(hp[o])
      BY MadeIsShaped DEF HeapMade, Shaped
    <3>3. Touched(hp, hp, o, keys) /\ Steady(hp[o], hp[o])
      BY <3>2, TouchedReflexive DEF Steady
    <3> HIDE DEF p
    <3> QED BY <2>2, <3>1, <3>3
  <2> QED BY <2>1, <2>2
<1>2. p = [heap |-> p.heap, ok |-> p.ok, thrown |-> p.thrown]
  BY DEF Prepare
<1>3. e = [p EXCEPT !.ok = @ /\ fits]
  BY DEF Expect, PutsOf
<1> HIDE DEF p
<1>4. e.heap = p.heap /\ e.thrown = p.thrown /\ e.ok = (p.ok /\ fits)
  <2> HIDE DEF e, fits
  <2> QED BY <1>2, <1>3
<1>5. Callers(p.heap[o]) = Callers(hp[o])
  BY <1>1, RetouchedIs DEF Touched
<1>6. ASSUME p.ok, fits
      PROVE  Met(p.heap[o], a, side, name)
  <2>1. CASE name = ""
    BY <2>1 DEF Met
  <2>2. CASE caller /\ Dynamic(OwnLayers(p.heap[o], a))
    BY <1>5, <2>2 DEF Met, Open
  <2>3. CASE name # "" /\ name \in DOMAIN puts
    <3>1. a \notin Wrapped
      BY <2>3, EmptyFunction DEF PutsOf, Takes, Offers
    <3> QED BY <1>1, <1>5, <1>6, <2>3, <3>1 DEF Met
  <2> QED BY <1>6, <2>1, <2>2, <2>3
<1> HIDE DEF e, fits
<1>7. /\ Touched(hp, e.heap, o, keys)
      /\ Steady(hp[o], e.heap[o])
      /\ e.ok \in BOOLEAN /\ e.thrown \in BOOLEAN
      /\ e.ok => Met(e.heap[o], a, side, name)
  BY <1>1, <1>4, <1>6
<1> QED BY <1>7 DEF e

LEMMA PlacesFinite ==
    ASSUME NEW w, Made(w)
    PROVE  IsFiniteSet(Places(w)) /\ Cardinality(Places(w)) \in Nat
<1> DEFINE D == DOMAIN w.outputs
           at(a) == {<<a, i>> : i \in DOMAIN w.outputs[a]}
           S == {at(a) : a \in D}
<1>1. w.outputs \in [DOMAIN w.acts -> Seq(BindingSet)] /\ IsFiniteSet(D)
  BY MadeIsShaped DEF Shaped
<1>2. IsFiniteSet(S)
  <2> DEFINE f == [a \in D |-> at(a)]
  <2>1. f \in Surjection(D, S)
    BY DEF Surjection
  <2> QED BY <1>1, <2>1, FS_Surjection
<1>3. ASSUME NEW a \in D PROVE IsFiniteSet(at(a))
  <2>1. PICK n \in Nat : DOMAIN w.outputs[a] = 1 .. n
    BY <1>1
  <2>2. IsFiniteSet(1 .. n)
    BY FS_Interval
  <2> DEFINE f == [i \in 1 .. n |-> <<a, i>>]
  <2>3. f \in Surjection(1 .. n, at(a))
    BY <2>1 DEF Surjection
  <2> HIDE DEF f, at
  <2> QED BY <2>2, <2>3, FS_Surjection
<1>4. IsFiniteSet(UNION S)
  <2>1. \A T \in S : IsFiniteSet(T)
    BY <1>3
  <2> HIDE DEF S
  <2> QED BY <1>2, <2>1, FS_UNION
<1> QED BY <1>4, FS_CardinalityType DEF Places

LEMMA PlaceIs ==
    ASSUME NEW w, Made(w), NEW p \in Places(w)
    PROVE  /\ p = <<p[1], p[2]>>
           /\ p[1] \in DOMAIN w.acts /\ p[1] \in Wrapped \cup Nat
           /\ p[2] \in DOMAIN w.outputs[p[1]] /\ p[2] \in Nat
<1>1. w.outputs \in [DOMAIN w.acts -> Seq(BindingSet)] /\ DOMAIN w.acts \subseteq Wrapped \cup Nat
  BY MadeIsShaped DEF Shaped
<1>2. PICK a \in DOMAIN w.outputs : p \in {<<a, i>> : i \in DOMAIN w.outputs[a]}
  BY DEF Places
<1>3. PICK i \in DOMAIN w.outputs[a] : p = <<a, i>>
  BY <1>2
<1>4. p[1] = a /\ p[2] = i
  BY <1>3
<1>5. w.outputs[a] \in Seq(BindingSet)
  BY <1>1
<1>6. i \in Nat
  BY <1>5
<1> QED BY <1>1, <1>3, <1>4, <1>6

\* A binding leads to an action and what is bound is declared.
Bound(w, p) ==
    LET b == w.outputs[p[1]][p[2]]
    IN  /\ b.to \in DOMAIN w.acts \cup {Die}
        /\ Met(w, p[1], "output", b.from)
        /\ b.to \in {Die, Finish} \/ Met(w, b.to, "input", b.in)

StartersFit(w) == \A i \in DOMAIN w.starters : w.starters[i].act \in DOMAIN w.acts

LEMMA BoundStays ==
    ASSUME NEW w, Made(w), NEW u, NEW keys, "dynamic" \in keys, Retouched(w, u, keys),
           Steady(w, u), NEW p \in Places(w), Bound(w, p)
    PROVE  Bound(u, p)
<1> DEFINE b == w.outputs[p[1]][p[2]]
<1>1. u.outputs = w.outputs /\ DOMAIN u.acts = DOMAIN w.acts
  BY RetouchedIs
<1>2. p[1] \in DOMAIN w.acts
  BY PlaceIs
<1>3. Met(u, p[1], "output", b.from)
  BY <1>2, MetStays DEF Bound
<1>4. CASE b.to \in {Die, Finish}
  BY <1>1, <1>3, <1>4 DEF Bound
<1>5. CASE b.to \notin {Die, Finish}
  <2>1. b.to \in DOMAIN w.acts /\ Met(w, b.to, "input", b.in)
    BY <1>5 DEF Bound
  <2>2. Met(u, b.to, "input", b.in)
    BY <2>1, MetStays
  <2> QED BY <1>1, <1>3, <2>1, <2>2 DEF Bound
<1> QED BY <1>4, <1>5

\* What validate has found after n bindings.
Found(v, n, hp, o, keys) ==
    /\ v = [heap |-> v.heap, thrown |-> v.thrown, left |-> v.left, ok |-> v.ok]
    /\ Touched(hp, v.heap, o, keys)
    /\ Steady(hp[o], v.heap[o])
    /\ v.ok \in BOOLEAN /\ v.thrown \in BOOLEAN
    /\ v.left \subseteq Places(hp[o])
    /\ v.thrown \/ Cardinality(v.left) = Cardinality(Places(hp[o])) - n
    /\ Accepted(v) /\ "dynamic" \in keys =>
        /\ StartersFit(hp[o])
        /\ \A p \in Places(hp[o]) \ v.left : Bound(v.heap[o], p)

LEMMA UnseenFound ==
    ASSUME NEW hp, NEW keys, HeapMade(hp, keys), NEW o \in DOMAIN hp
    PROVE  Found(Unseen(hp, o), 0, hp, o, keys)
<1> DEFINE v == Unseen(hp, o)
           N == Cardinality(Places(hp[o]))
<1>1. Made(hp[o]) /\ IsWorkflow(hp[o]) /\ N \in Nat
  BY MadeIsShaped, PlacesFinite DEF HeapMade, Shaped
<1>2. v = [heap |-> hp, thrown |-> FALSE, left |-> Places(hp[o]), ok |-> StartersFit(hp[o])]
  BY DEF Unseen, StartersFit
<1>3. StartersFit(hp[o]) \in BOOLEAN
  BY DEF StartersFit
<1> DEFINE fit == StartersFit(hp[o])
<1> HIDE DEF v, fit
<1>4. v.heap = hp /\ v.thrown = FALSE /\ v.left = Places(hp[o]) /\ v.ok = fit
  BY <1>2 DEF fit
<1>5. v = [heap |-> v.heap, thrown |-> v.thrown, left |-> v.left, ok |-> v.ok]
  BY <1>2, <1>4 DEF fit
<1>6. Touched(hp, v.heap, o, keys) /\ Steady(hp[o], v.heap[o])
  BY <1>1, <1>4, TouchedReflexive DEF Steady
<1> HIDE DEF N
<1>7. v.left \subseteq Places(hp[o]) /\ Cardinality(v.left) = N - 0
  BY <1>1, <1>4 DEF N
<1>8. Accepted(v) => StartersFit(hp[o])
  BY <1>4 DEF Accepted, fit
<1>9. Places(hp[o]) \ v.left = {}
  BY <1>4
<1>10. v.ok \in BOOLEAN /\ v.thrown \in BOOLEAN
  BY <1>3, <1>4 DEF fit
<1> QED BY <1>5, <1>6, <1>7, <1>8, <1>9, <1>10 DEF Found, v, N

LEMMA BindingFound ==
    ASSUME NEW hp, NEW keys, HeapMade(hp, keys), NEW known, Known(known, hp),
           NEW o \in DOMAIN hp, NEW n \in 1 .. Cardinality(Places(hp[o])),
           NEW v, Found(v, n - 1, hp, o, keys)
    PROVE  Found(BindingValid(v, known, o), n, hp, o, keys)
<1> DEFINE N == Cardinality(Places(hp[o]))
           w == v.heap[o]
           p == Foremost(v.left)
           b == w.outputs[p[1]][p[2]]
           out == Expect(v.heap, known, o, p[1], "output", b.from)
           in == Expect(out.heap, known, o, b.to, "input", b.in)
           end == IF out.thrown \/ ~out.ok \/ b.to \in {Die, Finish} THEN out ELSE in
           u == BindingValid(v, known, o)
<1>0. Made(hp[o]) /\ N \in Nat /\ n \in Nat /\ n - 1 \in Nat
  BY PlacesFinite DEF HeapMade
<1>1. CASE v.thrown
  <2>1. u = v
    BY <1>1 DEF BindingValid
  <2>2. Found(v, n, hp, o, keys)
    BY <1>1 DEF Found, Accepted
  <2> QED BY <2>1, <2>2
<1>2. CASE ~v.thrown
  <2>1. /\ v.left \subseteq Places(hp[o]) /\ IsFiniteSet(v.left)
        /\ Cardinality(v.left) = N - (n - 1) /\ v.left # {}
    <3>1. v.left \subseteq Places(hp[o]) /\ Cardinality(v.left) = N - (n - 1)
      BY <1>2 DEF Found
    <3>2. IsFiniteSet(v.left)
      BY <1>0, <3>1, PlacesFinite, FS_Subset
    <3>3. N - (n - 1) # 0
      BY <1>0
    <3>4. v.left # {}
      BY <3>1, <3>3, FS_EmptySet
    <3> QED BY <3>1, <3>2, <3>4
  <2>2. p \in v.left
    <3>1. \A q \in v.left : q[1] \in Wrapped \cup Nat /\ q[2] \in Nat
      BY <1>0, <2>1, PlaceIs
    <3> QED BY <2>1, <3>1, ForemostIn
  <2>3. p \in Places(hp[o]) /\ p[1] \in DOMAIN hp[o].acts
    <3>1. p \in Places(hp[o])
      BY <2>1, <2>2
    <3> HIDE DEF p
    <3> QED BY <1>0, <3>1, PlaceIs
  <2>4. Cardinality(v.left \ {p}) = N - n /\ v.left \ {p} \subseteq Places(hp[o])
    <3>1. Cardinality(v.left \ {p}) = Cardinality(v.left) - 1
      BY <2>1, <2>2, FS_RemoveElement
    <3>2. Cardinality(v.left \ {p}) = (N - (n - 1)) - 1
      BY <2>1, <3>1
    <3> HIDE DEF N
    <3>3. (N - (n - 1)) - 1 = N - n
      BY <1>0
    <3> QED BY <2>1, <3>2, <3>3
  <2>5. /\ Touched(hp, v.heap, o, keys) /\ Steady(hp[o], w)
        /\ DOMAIN v.heap = DOMAIN hp /\ Retouched(hp[o], w, keys)
        /\ HeapMade(v.heap, keys) /\ Known(known, v.heap)
        /\ DOMAIN w.acts = DOMAIN hp[o].acts /\ w.outputs = hp[o].outputs
        /\ Made(w) /\ Places(w) = Places(hp[o])
    <3>1. Touched(hp, v.heap, o, keys) /\ Steady(hp[o], w)
      BY DEF Found
    <3>2. DOMAIN v.heap = DOMAIN hp /\ Retouched(hp[o], w, keys)
      BY <3>1 DEF Touched
    <3>3. HeapMade(v.heap, keys) /\ Known(known, v.heap)
      BY <3>1, <3>2, TouchedMade DEF Known
    <3>4. DOMAIN w.acts = DOMAIN hp[o].acts /\ w.outputs = hp[o].outputs
      BY <3>2, RetouchedIs
    <3>5. Made(w)
      BY <3>2, <3>3 DEF HeapMade
    <3> QED BY <3>1, <3>2, <3>3, <3>4, <3>5 DEF Places
  <2>6. v = [heap |-> v.heap, thrown |-> v.thrown, left |-> v.left, ok |-> v.ok]
        /\ v.ok \in BOOLEAN
    BY DEF Found
  <2>7. ASSUME b.to \notin DOMAIN w.acts \cup {Die}
        PROVE  Found(u, n, hp, o, keys)
    <3>1. u = [v EXCEPT !.ok = FALSE, !.left = @ \ {p}]
      BY <1>2, <2>7 DEF BindingValid
    <3> HIDE DEF u, p
    <3>2. u = [heap |-> v.heap, thrown |-> v.thrown, left |-> v.left \ {p}, ok |-> FALSE]
      BY <2>6, <3>1
    <3>3. u.heap = v.heap /\ u.thrown = v.thrown /\ u.left = v.left \ {p} /\ u.ok = FALSE
      BY <3>2
    <3>4. u = [heap |-> u.heap, thrown |-> u.thrown, left |-> u.left, ok |-> u.ok]
      BY <3>2, <3>3
    <3> HIDE DEF N
    <3>5. u.left \subseteq Places(hp[o]) /\ Cardinality(u.left) = Cardinality(Places(hp[o])) - n
      BY <2>4, <3>3 DEF N
    <3>6. v.thrown \in BOOLEAN
      BY DEF Found
    <3> QED BY <2>5, <3>3, <3>4, <3>5, <3>6 DEF Found, Accepted
  <2>8. ASSUME b.to \in DOMAIN w.acts \cup {Die}
        PROVE  Found(u, n, hp, o, keys)
    <3>1. /\ Touched(v.heap, out.heap, o, keys) /\ Steady(w, out.heap[o])
          /\ out.ok \in BOOLEAN /\ out.thrown \in BOOLEAN
          /\ out.ok => Met(out.heap[o], p[1], "output", b.from)
      <4> DEFINE from == b.from
                 side == "output"
                 a == p[1]
                 e == Expect(v.heap, known, o, a, side, from)
      <4>1. a \in DOMAIN w.acts /\ o \in DOMAIN v.heap
        BY <2>3, <2>5
      <4> HIDE DEF from, side, a
      <4>2. /\ Touched(v.heap, e.heap, o, keys) /\ Steady(v.heap[o], e.heap[o])
            /\ e.ok \in BOOLEAN /\ e.thrown \in BOOLEAN
            /\ e.ok => Met(e.heap[o], a, side, from)
        BY <2>5, <4>1, ExpectIs
      <4> QED BY <4>2 DEF from, side, a
    <3>2. /\ Retouched(w, out.heap[o], keys)
          /\ DOMAIN out.heap = DOMAIN v.heap
          /\ HeapMade(out.heap, keys) /\ Known(known, out.heap)
          /\ DOMAIN out.heap[o].acts = DOMAIN w.acts
      <4> HIDE DEF out
      <4>1. Retouched(w, out.heap[o], keys) /\ DOMAIN out.heap = DOMAIN v.heap
        BY <3>1 DEF Touched
      <4>2. HeapMade(out.heap, keys)
        BY <2>5, <3>1, TouchedMade
      <4> QED BY <2>5, <4>1, <4>2, RetouchedIs DEF Known
    <3>3. ASSUME b.to \in DOMAIN w.acts
          PROVE  /\ Touched(out.heap, in.heap, o, keys) /\ Steady(out.heap[o], in.heap[o])
                 /\ in.ok \in BOOLEAN /\ in.thrown \in BOOLEAN
                 /\ in.ok => Met(in.heap[o], b.to, "input", b.in)
      <4> DEFINE inp == b.in
                 side == "input"
                 a == b.to
                 g == out.heap
                 e == Expect(g, known, o, a, side, inp)
      <4>1. a \in DOMAIN g[o].acts /\ o \in DOMAIN g /\ HeapMade(g, keys) /\ Known(known, g)
        BY <2>5, <3>2, <3>3
      <4> HIDE DEF inp, side, a, g
      <4>2. /\ Touched(g, e.heap, o, keys) /\ Steady(g[o], e.heap[o])
            /\ e.ok \in BOOLEAN /\ e.thrown \in BOOLEAN
            /\ e.ok => Met(e.heap[o], a, side, inp)
        BY <4>1, ExpectIs
      <4> QED BY <4>2 DEF inp, side, a, g
    <3>4. /\ Touched(v.heap, end.heap, o, keys) /\ Steady(w, end.heap[o])
          /\ end.ok \in BOOLEAN /\ end.thrown \in BOOLEAN
          /\ end.ok /\ ~end.thrown /\ "dynamic" \in keys =>
                Met(end.heap[o], p[1], "output", b.from)
                /\ (b.to \in {Die, Finish} \/ Met(end.heap[o], b.to, "input", b.in))
      <4>1. CASE out.thrown \/ ~out.ok \/ b.to \in {Die, Finish}
        <5>1. end = out
          BY <4>1
        <5> HIDE DEF end, out
        <5> QED BY <3>1, <4>1, <5>1
      <4>2. CASE ~(out.thrown \/ ~out.ok \/ b.to \in {Die, Finish})
        <5>1. end = in /\ b.to \in DOMAIN w.acts
          BY <2>8, <4>2
        <5> DEFINE g == out.heap
                   h == in.heap
                   from == b.from
                   side == "output"
                   a == p[1]
        <5>2. /\ Touched(v.heap, g, o, keys) /\ Touched(g, h, o, keys) /\ o \in DOMAIN v.heap
              /\ Steady(w, g[o]) /\ Steady(g[o], h[o]) /\ Retouched(w, g[o], keys)
          BY <2>5, <3>1, <3>2, <3>3, <5>1
        <5>3. Met(g[o], a, side, from) /\ a \in DOMAIN g[o].acts
          BY <2>3, <2>5, <3>1, <3>2, <4>2
        <5>4. Retouched(g[o], h[o], keys)
          <6> HIDE DEF g, h
          <6> QED BY <5>2 DEF Touched
        <5> HIDE DEF from, side, a, g, h, w
        <5>5. Touched(v.heap, h, o, keys) /\ Steady(w, h[o])
          BY <5>2, TouchedTransitive, SteadyTransitive
        <5>6. "dynamic" \in keys => Met(h[o], a, side, from)
          BY <5>2, <5>3, <5>4, MetStays
        <5> HIDE DEF in, end, out
        <5>7. end.heap = h
          BY <5>1 DEF h
        <5> QED BY <3>3, <5>1, <5>5, <5>6, <5>7 DEF a, side, from, h
      <4> QED BY <4>1, <4>2
    <3>5. u = [v EXCEPT !.heap = end.heap, !.thrown = end.thrown, !.ok = @ /\ end.ok,
                        !.left = @ \ {p}]
      BY <1>2, <2>8 DEF BindingValid, Noted, AtEnd
    <3>6. /\ u.heap = end.heap /\ u.thrown = end.thrown /\ u.left = v.left \ {p}
          /\ u.ok = (v.ok /\ end.ok)
          /\ u = [heap |-> u.heap, thrown |-> u.thrown, left |-> u.left, ok |-> u.ok]
      <4> DEFINE eh == end.heap
                 et == end.thrown
                 ek == end.ok
      <4> HIDE DEF p, u, eh, et, ek
      <4>1. u = [heap |-> eh, thrown |-> et, left |-> v.left \ {p}, ok |-> v.ok /\ ek]
        BY <2>6, <3>5 DEF eh, et, ek
      <4>2. u.heap = eh /\ u.thrown = et /\ u.left = v.left \ {p} /\ u.ok = (v.ok /\ ek)
        BY <4>1
      <4> QED BY <4>1, <4>2 DEF eh, et, ek
    <3> DEFINE r == end.heap
    <3>7. /\ Touched(hp, r, o, keys) /\ Steady(hp[o], r[o])
          /\ Retouched(w, r[o], keys) /\ r[o].outputs = w.outputs
          /\ DOMAIN r[o].acts = DOMAIN w.acts
      <4> HIDE DEF r, w
      <4>1. Touched(v.heap, r, o, keys) /\ Steady(w, r[o])
        BY <3>4 DEF r
      <4>2. Touched(hp, r, o, keys) /\ Steady(hp[o], r[o])
        BY <2>5, <4>1, TouchedTransitive, SteadyTransitive
      <4>3. Retouched(w, r[o], keys)
        BY <4>1 DEF Touched, w
      <4> QED BY <4>2, <4>3, RetouchedIs
    <3>8. ASSUME Accepted(u), "dynamic" \in keys
          PROVE  /\ StartersFit(hp[o])
                 /\ \A q \in Places(hp[o]) \ u.left : Bound(r[o], q)
      <4>1. v.ok /\ end.ok /\ ~end.thrown
        <5> HIDE DEF u, end
        <5> QED BY <2>6, <3>4, <3>6, <3>8 DEF Accepted
      <4>2. /\ StartersFit(hp[o])
            /\ \A q \in Places(hp[o]) \ v.left : Bound(w, q)
        BY <1>2, <3>8, <4>1 DEF Found, Accepted
      <4>3. ASSUME NEW q \in Places(hp[o]) \ v.left
            PROVE  Bound(r[o], q)
        <5> HIDE DEF r, w
        <5>1. Bound(w, q) /\ q \in Places(w)
          BY <2>5, <4>2
        <5>2. Steady(w, r[o])
          BY <3>4 DEF r
        <5> QED BY <2>5, <3>7, <3>8, <5>1, <5>2, BoundStays
      <4>4. Bound(r[o], p)
        <5>1. Met(r[o], p[1], "output", b.from)
              /\ (b.to \in {Die, Finish} \/ Met(r[o], b.to, "input", b.in))
          BY <3>4, <3>8, <4>1
        <5>2. r[o].outputs[p[1]][p[2]] = b /\ b.to \in DOMAIN r[o].acts \cup {Die}
          BY <2>8, <3>7
        <5> HIDE DEF r, b, p
        <5> QED BY <5>1, <5>2 DEF Bound
      <4>5. \A q \in Places(hp[o]) \ u.left : q \in Places(hp[o]) \ v.left \/ q = p
        <5> HIDE DEF u, end, p
        <5> QED BY <3>6
      <4> HIDE DEF r, u, p
      <4> QED BY <4>2, <4>3, <4>4, <4>5
    <3> HIDE DEF u, end, p, N
    <3>9. u.ok \in BOOLEAN /\ u.thrown \in BOOLEAN
      BY <2>6, <3>4, <3>6
    <3>10. u.left \subseteq Places(hp[o]) /\ Cardinality(u.left) = Cardinality(Places(hp[o])) - n
      BY <2>4, <3>6 DEF N
    <3>11. u.heap = r
      BY <3>6
    <3> HIDE DEF r
    <3> QED BY <3>6, <3>7, <3>8, <3>9, <3>10, <3>11 DEF Found
  <2> QED BY <2>7, <2>8
<1> QED BY <1>1, <1>2

\* What an accepted workflow is like, as long as only calls are retouched.
Sound(w) == StartersFit(w) /\ \A p \in Places(w) : Bound(w, p)

LEMMA SoundStays ==
    ASSUME NEW w, Made(w), NEW u, NEW keys, "dynamic" \in keys, Retouched(w, u, keys),
           Steady(w, u), Sound(w)
    PROVE  Sound(u)
<1>1. u.starters = w.starters /\ u.outputs = w.outputs /\ DOMAIN u.acts = DOMAIN w.acts
  BY RetouchedIs
<1>2. StartersFit(u)
  BY <1>1 DEF Sound, StartersFit
<1>3. Places(u) = Places(w)
  BY <1>1 DEF Places
<1>4. \A p \in Places(w) : Bound(u, p)
  BY BoundStays DEF Sound
<1> QED BY <1>2, <1>3, <1>4 DEF Sound

\* validate
LEMMA ValidatedIs ==
    ASSUME NEW hp, NEW keys, HeapMade(hp, keys), NEW known, Known(known, hp),
           NEW o \in DOMAIN hp
    PROVE  LET v == Validated(hp, known, o)
           IN  /\ Touched(hp, v.heap, o, keys)
               /\ Steady(hp[o], v.heap[o])
               /\ v.ok \in BOOLEAN /\ v.thrown \in BOOLEAN
               /\ Accepted(v) /\ "dynamic" \in keys => Sound(v.heap[o])
<1> DEFINE N == Cardinality(Places(hp[o]))
           V == Validation(hp, known, o)
           T == {n \in 0 .. N : Found(V[n], n, hp, o, keys)}
<1>0. Made(hp[o]) /\ N \in Nat
  BY PlacesFinite DEF HeapMade
<1>1. V[0] = Unseen(hp, o) /\ \A n \in 1 .. N : V[n] = BindingValid(V[n - 1], known, o)
  BY <1>0, ValidationIs
<1>2. 0 \in T
  BY <1>0, <1>1, UnseenFound
<1>3. ASSUME NEW n \in 1 .. N, n - 1 \in T PROVE n \in T
  <2>1. Found(V[n - 1], n - 1, hp, o, keys)
    BY <1>3
  <2> DEFINE v == V[n - 1]
  <2> HIDE DEF v, V
  <2>2. Found(BindingValid(v, known, o), n, hp, o, keys)
    BY <2>1, BindingFound DEF v
  <2>3. n \in 0 .. N
    BY <1>0
  <2> QED BY <1>1, <2>2, <2>3 DEF v
<1> HIDE DEF T
<1>4. 0 .. N \subseteq T
  BY <1>0, <1>2, <1>3, UpTo
<1> DEFINE v == V[N]
<1>5. Found(v, N, hp, o, keys)
  BY <1>0, <1>4 DEF T
<1> HIDE DEF V, v
<1>6. /\ Touched(hp, v.heap, o, keys) /\ Steady(hp[o], v.heap[o])
      /\ v.ok \in BOOLEAN /\ v.thrown \in BOOLEAN
  BY <1>5 DEF Found
<1>7. ASSUME Accepted(v), "dynamic" \in keys
      PROVE  Sound(v.heap[o])
  <2>1. StartersFit(hp[o]) /\ \A p \in Places(hp[o]) \ v.left : Bound(v.heap[o], p)
    BY <1>5, <1>7 DEF Found
  <2>2. v.left = {}
    <3>1. v.left \subseteq Places(hp[o]) /\ Cardinality(v.left) = N - N
      BY <1>5, <1>7 DEF Found, Accepted
    <3>2. IsFiniteSet(v.left)
      BY <1>0, <3>1, PlacesFinite, FS_Subset
    <3>3. N - N = 0
      BY <1>0
    <3> QED BY <3>1, <3>2, <3>3, FS_EmptySet
  <2> DEFINE u == v.heap[o]
             w == hp[o]
  <2>3. Retouched(w, u, keys)
    BY <1>6 DEF Touched
  <2> HIDE DEF u, w
  <2>4. u.starters = w.starters /\ u.outputs = w.outputs /\ DOMAIN u.acts = DOMAIN w.acts
    BY <2>3, RetouchedIs
  <2>5. StartersFit(u)
    BY <2>1, <2>4 DEF StartersFit, w
  <2>6. Places(u) = Places(w)
    BY <2>4 DEF Places
  <2> QED BY <2>1, <2>2, <2>5, <2>6 DEF Sound, u, w
<1>8. Validated(hp, known, o) = v
  BY DEF Validated, V, v
<1> QED BY <1>6, <1>7, <1>8

-----------------------------------------------------------------------------
(* The controller's first workflows.                                        *)

\* None of the stock exposes one of the keys.
StockHides(keys) == \A i \in 1 .. Len(Stock) : Hides(Stock[i], keys)
StockIndexed == \A i \in 1 .. Len(Stock) : Indexed(Stock[i])
StockNames == {Stock[i].name : i \in DOMAIN Stock}

\* The stock so far: c has looked at n workflows.
Shelved(c, n, keys) ==
    /\ DOMAIN c.heap = 1 .. n
    /\ HeapMade(c.heap, keys)
    /\ Known(c.known, c.heap)
    /\ DOMAIN c.known \subseteq StockNames
    /\ \A x \in 1 .. n : Retouched(Stock[x], c.heap[x], keys)
    /\ \A name \in DOMAIN c.known : Stock[c.known[name]].name = name
    /\ "dynamic" \in keys => \A name \in DOMAIN c.known : Sound(c.heap[c.known[name]])

LEMMA AddStockShelved ==
    ASSUME NEW keys, StockHides(keys), NEW n \in 1 .. Len(Stock), NEW c,
           Shelved(c, n - 1, keys)
    PROVE  Shelved(AddStock(c, n), n, keys)
<1> DEFINE hp == c.heap ++ Entry(n, Stock[n])
           v == Validated(hp, c.known, n)
           d == AddStock(c, n)
<1>0. /\ Len(Stock) \in Nat /\ n \in Nat /\ n - 1 \in Nat /\ DOMAIN Stock = 1 .. Len(Stock)
      /\ 1 .. n = (1 .. n - 1) \cup {n} /\ n \notin 1 .. n - 1
      /\ Made(Stock[n]) /\ Hides(Stock[n], keys) /\ IsWorkflow(Stock[n])
  BY StockAssumption, MadeIsShaped DEF StockAssumption, StockHides, Shaped
<1>1. /\ DOMAIN hp = 1 .. n /\ hp[n] = Stock[n]
      /\ \A x \in 1 .. n - 1 : hp[x] = c.heap[x]
  <2>1. DOMAIN Entry(n, Stock[n]) = {n} /\ Entry(n, Stock[n])[n] = Stock[n]
    BY EntryIs
  <2> DEFINE e == Entry(n, Stock[n])
             f == c.heap
  <2>2. DOMAIN f = 1 .. n - 1
    BY DEF Shelved
  <2> HIDE DEF e, f
  <2>3. DOMAIN (f ++ e) = DOMAIN f \cup DOMAIN e
    BY Combined
  <2>4. \A x \in DOMAIN f : (f ++ e)[x] = f[x]
    BY Combined
  <2>5. \A x \in DOMAIN e \ DOMAIN f : (f ++ e)[x] = e[x]
    BY Combined
  <2>6. DOMAIN e = {n} /\ e[n] = Stock[n]
    BY <2>1 DEF e
  <2>7. DOMAIN (f ++ e) = 1 .. n
    BY <1>0, <2>2, <2>3, <2>6
  <2> QED BY <1>0, <2>2, <2>4, <2>5, <2>6, <2>7 DEF e, f
<1> HIDE DEF hp
<1>2. HeapMade(hp, keys)
  BY <1>0, <1>1 DEF HeapMade, Shelved
<1>3. Known(c.known, hp) /\ n \in DOMAIN hp
  BY <1>0, <1>1 DEF Known, Shelved
<1>4. /\ Touched(hp, v.heap, n, keys)
      /\ v.ok \in BOOLEAN /\ v.thrown \in BOOLEAN
      /\ Accepted(v) /\ "dynamic" \in keys => Sound(v.heap[n])
  BY <1>2, <1>3, ValidatedIs
<1>5. /\ d.heap = v.heap
      /\ d.known = IF Accepted(v) THEN With(c.known, Stock[n].name, n) ELSE c.known
  BY DEF AddStock, hp
<1> HIDE DEF v, d
<1>6. /\ DOMAIN d.heap = 1 .. n /\ HeapMade(d.heap, keys)
      /\ \A x \in 1 .. n - 1 : d.heap[x] = c.heap[x]
      /\ Retouched(Stock[n], d.heap[n], keys)
  BY <1>0, <1>1, <1>2, <1>3, <1>4, <1>5, TouchedMade DEF Touched
<1>7. \A x \in 1 .. n : Retouched(Stock[x], d.heap[x], keys)
  BY <1>0, <1>6 DEF Shelved
<1>8. ASSUME NEW name \in DOMAIN d.known
      PROVE  /\ d.known[name] \in 1 .. n
             /\ name \in StockNames
             /\ Stock[d.known[name]].name = name
             /\ "dynamic" \in keys => Sound(d.heap[d.known[name]])
  <2>1. CASE Accepted(v) /\ name = Stock[n].name
    <3>1. d.known[name] = n
      <4>1. d.known = Entry(Stock[n].name, n) ++ c.known
        BY <1>5, <2>1 DEF With
      <4> QED BY <2>1, <4>1 DEF ++, Entry
    <3>2. n \in 1 .. n /\ n \in DOMAIN Stock
      BY <1>0
    <3> QED BY <1>4, <1>5, <2>1, <3>1, <3>2 DEF StockNames
  <2>2. CASE ~(Accepted(v) /\ name = Stock[n].name)
    <3>1. name \in DOMAIN c.known /\ d.known[name] = c.known[name]
      <4>1. CASE Accepted(v)
        <5>1. d.known = Entry(Stock[n].name, n) ++ c.known
          BY <1>5, <4>1 DEF With
        <5> QED BY <1>8, <2>2, <4>1, <5>1 DEF ++, Entry
      <4>2. CASE ~Accepted(v)
        BY <1>5, <1>8, <4>2
      <4> QED BY <4>1, <4>2
    <3>2. c.known[name] \in 1 .. n - 1
      BY <3>1 DEF Shelved, Known
    <3>3. d.heap[d.known[name]] = c.heap[c.known[name]]
      BY <1>6, <3>1, <3>2
    <3>4. d.known[name] \in 1 .. n
      BY <1>0, <3>1, <3>2
    <3> QED BY <3>1, <3>3, <3>4 DEF Shelved
  <2> QED BY <2>1, <2>2
<1>9. Shelved(d, n, keys)
  BY <1>6, <1>7, <1>8 DEF Shelved, Known
<1> QED BY <1>9 DEF d

LEMMA StockedIs ==
    ASSUME NEW keys, StockHides(keys)
    PROVE  Shelved(Stocked, Len(Stock), keys)
<1> DEFINE N == Len(Stock)
           T == {n \in 0 .. N : Shelved(Stocking[n], n, keys)}
<1>0. N \in Nat
  BY StockAssumption DEF StockAssumption
<1>1. 0 \in T
  <2> DEFINE c == Stocking[0]
  <2>1. c.heap = << >> /\ c.known = << >>
    BY StockingIs
  <2> HIDE DEF c
  <2>2. DOMAIN c.heap = {} /\ DOMAIN c.known = {} /\ 1 .. 0 = {}
    BY <2>1, EmptyFunction
  <2>3. Shelved(c, 0, keys)
    BY <2>2 DEF Shelved, HeapMade, Known
  <2> QED BY <1>0, <2>3 DEF c
<1>2. ASSUME NEW n \in 1 .. N, n - 1 \in T PROVE n \in T
  <2> DEFINE c == Stocking[n - 1]
  <2>1. Shelved(c, n - 1, keys)
    BY <1>2
  <2> HIDE DEF c
  <2>2. Shelved(AddStock(c, n), n, keys)
    BY <2>1, AddStockShelved
  <2>3. Stocking[n] = AddStock(c, n) /\ n \in 0 .. N
    BY <1>0, StockingIs DEF c
  <2> QED BY <2>2, <2>3
<1> HIDE DEF T
<1>3. 0 .. N \subseteq T
  BY <1>0, <1>1, <1>2, UpTo
<1> QED BY <1>0, <1>3 DEF T, Stocked

-----------------------------------------------------------------------------
(* Types.  The objects are numbered as they are made, and a session refers   *)
(* to one for good.  keys are those nobody exposes; there need not be any.   *)

Hidden(keys) ==
    /\ StockHides(keys)
    /\ \A part \in Parts : ExposedKeys(part.act.props) \cap keys = {}
    /\ \A x \in Shown : x.key \notin keys

Counted == \E n \in Nat : DOMAIN heap = 1 .. n
Opened == \A s \in DOMAIN sessions : sessions[s] = [of |-> sessions[s].of, own |-> sessions[s].own]
TypeInv(keys) == TypeOK /\ Counted /\ Opened /\ HeapMade(heap, keys)

LEMMA NothingHidden == Hidden({})
  BY DEF Hidden, StockHides, Hides

LEMMA NameIs == \A i \in 1 .. Len(Stock) : Stock[i].name \in KnownNames
  BY StockAssumption DEF StockAssumption, KnownNames

LEMMA InitTyped ==
    ASSUME NEW keys, Hidden(keys), Init
    PROVE  TypeInv(keys)
<1> DEFINE c == Stocked
           N == Len(Stock)
<1>1. Shelved(c, N, keys) /\ N \in Nat /\ 1 .. N \subseteq Objects /\ DOMAIN Stock = 1 .. N
  BY StockedIs, StockAssumption DEF Hidden, StockAssumption
<1>2. heap = c.heap /\ workflows = c.known
  BY DEF Init
<1> HIDE DEF c
<1>3. DOMAIN heap = 1 .. N /\ HeapMade(heap, keys)
  BY <1>1, <1>2 DEF Shelved
<1>4. \A o \in DOMAIN heap : heap[o].name \in KnownNames /\ Made(heap[o])
  <2> TAKE o \in DOMAIN heap
  <2>1. Retouched(Stock[o], heap[o], keys)
    BY <1>1, <1>2, <1>3 DEF Shelved
  <2>2. heap[o].name = Stock[o].name
    BY <2>1, RetouchedIs
  <2> QED BY <1>3, <2>2, NameIs DEF HeapMade
<1>5. DOMAIN workflows \subseteq KnownNames
      /\ {workflows[n] : n \in DOMAIN workflows} \subseteq DOMAIN heap
  BY <1>1, <1>2 DEF Shelved, Known, KnownNames, StockNames
<1>6. draft = {} /\ sessions = << >> /\ checks = << >> /\ crashed = FALSE /\ edits = 0
  BY DEF Init
<1>7. DOMAIN sessions = {}
  BY <1>6
<1>8. checks \in Seq(Sessions \X (Wrapped \cup Nat)) /\ crashed \in BOOLEAN /\ edits \in 0 .. MaxEdits
  <2> DEFINE S == Sessions \X (Wrapped \cup Nat)
  <2> HIDE DEF S
  <2>1. checks \in Seq(S)
    BY <1>6
  <2>2. crashed \in BOOLEAN
    BY <1>6
  <2>3. 0 \in 0 .. MaxEdits
    BY BoundAssumption DEF BoundAssumption
  <2>4. edits \in 0 .. MaxEdits
    BY <1>6, <2>3
  <2> QED BY <2>1, <2>2, <2>4 DEF S
<1>9. TypeOK
  BY <1>1, <1>3, <1>4, <1>5, <1>6, <1>7, <1>8 DEF TypeOK
<1> QED BY <1>1, <1>3, <1>7, <1>9 DEF TypeInv, Counted, Opened

\* A new object has the next number.
LEMMA MakeIs ==
    ASSUME NEW keys, TypeInv(keys), NEW w, Make(w)
    PROVE  \E o \in Objects :
                /\ o \notin DOMAIN heap
                /\ DOMAIN heap' = DOMAIN heap \cup {o}
                /\ heap'[o] = w
                /\ \A x \in DOMAIN heap : heap'[x] = heap[x]
                /\ draft' = draft \cup {o}
                /\ Counted'
<1>1. PICK n \in Nat : DOMAIN heap = 1 .. n
  BY DEF TypeInv, Counted
<1>2. Cardinality(DOMAIN heap) = n
  <2>1. Cardinality(1 .. n) = IF 1 > n THEN 0 ELSE n - 1 + 1
    BY FS_Interval
  <2> QED BY <1>1, <2>1
<1> DEFINE o == n + 1
<1>3. o \in Objects /\ heap' = heap ++ Entry(o, w) /\ draft' = draft \cup {o}
  BY <1>2 DEF Make
<1>4. o \notin DOMAIN heap /\ DOMAIN heap \cup {o} = 1 .. n + 1 /\ n + 1 \in Nat
  BY <1>1
<1>5. DOMAIN Entry(o, w) = {o} /\ Entry(o, w)[o] = w
  BY EntryIs
<1> HIDE DEF o
<1>6. DOMAIN heap' = DOMAIN heap \cup {o} /\ heap'[o] = w
      /\ \A x \in DOMAIN heap : heap'[x] = heap[x]
  BY <1>3, <1>4, <1>5 DEF ++
<1>7. Counted'
  BY <1>4, <1>6 DEF Counted
<1> QED BY <1>3, <1>4, <1>6, <1>7

LEMMA MakeTyped ==
    ASSUME NEW keys, TypeInv(keys), NEW w, Make(w), Edit,
           Made(w), Hides(w, keys), w.name \in KnownNames,
           UNCHANGED <<workflows, sessions, checks, crashed>>
    PROVE  TypeInv(keys)'
<1>1. PICK o \in Objects :
        /\ o \notin DOMAIN heap
        /\ DOMAIN heap' = DOMAIN heap \cup {o}
        /\ heap'[o] = w
        /\ \A x \in DOMAIN heap : heap'[x] = heap[x]
        /\ draft' = draft \cup {o}
        /\ Counted'
  BY MakeIs
<1>2. HeapMade(heap', keys)
  BY <1>1 DEF TypeInv, HeapMade
<1>3. \A x \in DOMAIN heap' : heap'[x].name \in KnownNames /\ Made(heap'[x])
  BY <1>1, <1>2 DEF TypeInv, TypeOK, HeapMade
<1>4. edits' \in 0 .. MaxEdits
  BY BoundAssumption DEF Edit, TypeInv, TypeOK, BoundAssumption
<1>5. {workflows[n] : n \in DOMAIN workflows} \subseteq DOMAIN heap
      /\ \A s \in DOMAIN sessions : sessions[s].of \in DOMAIN heap \ draft
  BY DEF TypeInv, TypeOK
<1>6. TypeOK'
  BY <1>1, <1>3, <1>4, <1>5 DEF TypeInv, TypeOK
<1> QED BY <1>1, <1>2, <1>6 DEF TypeInv, Opened

\* Init's steps hide everything; so does what they expose of a copy.
LEMMA StartDraftTyped ==
    ASSUME NEW keys, TypeInv(keys), NEW name \in Names, StartDraft(name)
    PROVE  TypeInv(keys)'
<1> DEFINE w == NewWorkflow(name)
<1>1. Made(w) /\ Hides(w, keys) /\ w.name = name
  BY NewWorkflowMade
<1>2. Make(w) /\ Edit /\ UNCHANGED <<workflows, sessions, checks, crashed>>
  BY DEF StartDraft
<1> HIDE DEF w
<1> QED BY <1>1, <1>2, MakeTyped DEF KnownNames

LEMMA SaveLoadTyped ==
    ASSUME NEW keys, TypeInv(keys), NEW x \in DOMAIN heap, SaveLoad(x)
    PROVE  TypeInv(keys)'
<1> DEFINE u == heap[x]
           w == Copy(u)
<1>1. Made(u) /\ Hides(u, keys) /\ u.name \in KnownNames
  BY DEF TypeInv, HeapMade, TypeOK
<1>2. Make(w) /\ Edit /\ UNCHANGED <<workflows, sessions, checks, crashed>>
  BY DEF SaveLoad, Copy
<1> HIDE DEF u
<1>3. Made(w) /\ Hides(w, keys) /\ w.name = u.name
  BY <1>1, CopyIs, CopyHides
<1> HIDE DEF w
<1> QED BY <1>1, <1>2, <1>3, MakeTyped

\* An author's change of a draft.
LEMMA ChangeTyped ==
    ASSUME NEW keys, TypeInv(keys), NEW o, NEW w, Change(o, w),
           Follows(heap[o], w), Hides(w, keys)
    PROVE  TypeInv(keys)'
<1>1. o \in DOMAIN heap /\ heap' = [heap EXCEPT ![o] = w] /\ draft' = draft
  BY DEF Change, TypeInv, TypeOK
<1>2. DOMAIN heap' = DOMAIN heap /\ heap'[o] = w
      /\ \A x \in DOMAIN heap \ {o} : heap'[x] = heap[x]
  BY <1>1
<1>3. HeapMade(heap', keys)
  BY <1>2 DEF TypeInv, HeapMade, Follows
<1>4. \A x \in DOMAIN heap' : heap'[x].name \in KnownNames /\ Made(heap'[x])
  BY <1>1, <1>2 DEF TypeInv, TypeOK, Follows
<1>5. edits' \in 0 .. MaxEdits
  BY BoundAssumption DEF Change, Edit, TypeInv, TypeOK, BoundAssumption
<1>6. UNCHANGED <<workflows, draft, sessions, checks, crashed>>
  BY DEF Change
<1>7. TypeOK'
  BY <1>2, <1>4, <1>5, <1>6 DEF TypeInv, TypeOK
<1> QED BY <1>2, <1>3, <1>6, <1>7 DEF TypeInv, Opened, Counted

\* What an author's edit makes of a workflow.
Edited(w, u) ==
    \/ \E part \in Parts : u = WithAction(w, part.id, part.act, part.bindings)
    \/ \E starter \in Inputs : u = WithInput(w, starter)
    \/ \E x \in Shown : u = Exposing(w, x.id, x.key, x.alias)
                        \/ u = UnexposingAlias(w, x.id, x.alias)
    \/ \E id \in DOMAIN w.exposed : u = Unexposing(w, id)

LEMMA EditedMade ==
    ASSUME NEW keys, Hidden(keys), NEW w, Made(w), Hides(w, keys), NEW u, Edited(w, u)
    PROVE  Follows(w, u) /\ Hides(u, keys)
<1>1. ASSUME NEW part \in Parts, u = WithAction(w, part.id, part.act, part.bindings)
      PROVE  Follows(w, u) /\ Hides(u, keys)
  <2> DEFINE id == part.id
             act == part.act
             bindings == part.bindings
  <2>1. id \in Int /\ IsAction(act) /\ bindings \in Seq(BindingSet)
        /\ ExposedKeys(act.props) \cap keys = {}
    BY PartsAssumption DEF PartsAssumption, Hidden
  <2>2. u = WithAction(w, id, act, bindings)
    BY <1>1
  <2> HIDE DEF id, act, bindings
  <2>3. Follows(w, WithAction(w, id, act, bindings))
    BY <2>1, WithActionMade
  <2>4. Hides(WithAction(w, id, act, bindings), keys)
    BY <2>1, WithActionHides
  <2> QED BY <2>2, <2>3, <2>4
<1>2. ASSUME NEW starter \in Inputs, u = WithInput(w, starter)
      PROVE  Follows(w, u) /\ Hides(u, keys)
  <2>1. starter \in StarterSet
    BY PartsAssumption DEF PartsAssumption
  <2> QED BY <1>2, <2>1, WithInputMade
<1>3. ASSUME NEW x \in Shown, u = Exposing(w, x.id, x.key, x.alias)
      PROVE  Follows(w, u) /\ Hides(u, keys)
  <2> DEFINE id == x.id
             key == x.key
             alias == x.alias
  <2>1. key \notin keys
    BY DEF Hidden
  <2>2. u = Exposing(w, id, key, alias)
    BY <1>3
  <2> HIDE DEF id, key, alias
  <2> QED BY <2>1, <2>2, ExposingMade
<1>4. ASSUME NEW x \in Shown, u = UnexposingAlias(w, x.id, x.alias)
      PROVE  Follows(w, u) /\ Hides(u, keys)
  <2> DEFINE id == x.id
             alias == x.alias
  <2>1. u = UnexposingAlias(w, id, alias)
    BY <1>4
  <2> HIDE DEF id, alias
  <2> QED BY <2>1, UnexposingAliasMade
<1>5. ASSUME NEW id, u = Unexposing(w, id)
      PROVE  Follows(w, u) /\ Hides(u, keys)
  BY <1>5, UnexposingMade
<1> QED BY <1>1, <1>2, <1>3, <1>4, <1>5 DEF Edited

\* Objects retouched, one at a time, and no new ones.
LEMMA TouchedTyped ==
    ASSUME NEW keys, TypeInv(keys), NEW o \in DOMAIN heap, Touched(heap, heap', o, keys)
    PROVE  /\ DOMAIN heap' = DOMAIN heap
           /\ HeapMade(heap', keys)
           /\ \A x \in DOMAIN heap' : heap'[x].name \in KnownNames /\ Made(heap'[x])
           /\ Counted'
<1>1. DOMAIN heap' = DOMAIN heap
  BY DEF Touched
<1>2. HeapMade(heap', keys)
  <2> DEFINE hq == heap'
  <2>1. Touched(heap, hq, o, keys) /\ HeapMade(heap, keys)
    BY DEF TypeInv
  <2> HIDE DEF hq
  <2>2. HeapMade(hq, keys)
    BY <2>1, TouchedMade
  <2> QED BY <2>2 DEF hq
<1>3. ASSUME NEW x \in DOMAIN heap' PROVE heap'[x].name = heap[x].name
  <2>1. CASE x = o
    <3> DEFINE w == heap[o]
               u == heap'[o]
    <3>1. Retouched(w, u, keys)
      BY DEF Touched
    <3> HIDE DEF w, u
    <3>2. u.name = w.name
      BY <3>1, RetouchedIs
    <3> QED BY <2>1, <3>2 DEF w, u
  <2>2. CASE x # o
    BY <1>1, <1>3, <2>2 DEF Touched
  <2> QED BY <2>1, <2>2
<1> QED BY <1>1, <1>2, <1>3 DEF TypeInv, TypeOK, HeapMade, Counted

LEMMA KnownThere == \A keys : TypeInv(keys) => Known(workflows, heap)
  BY DEF TypeInv, TypeOK, Known

LEMMA AddWorkflowIs ==
    ASSUME NEW keys, TypeInv(keys), NEW o, AddWorkflow(o)
    PROVE  /\ o \in draft /\ o \in DOMAIN heap
           /\ Touched(heap, heap', o, keys)
           /\ crashed' \in BOOLEAN
           /\ \/ UNCHANGED <<workflows, draft>>
              \/ /\ workflows' = With(workflows, heap[o].name, o)
                 /\ draft' = draft \ {o}
                 /\ "dynamic" \in keys => Sound(heap'[o])
           /\ UNCHANGED <<sessions, checks, edits>>
<1> DEFINE v == Validated(heap, workflows, o)
<1>1. o \in draft /\ o \in DOMAIN heap
  BY DEF AddWorkflow, TypeInv, TypeOK
<1>2. /\ Touched(heap, v.heap, o, keys)
      /\ v.ok \in BOOLEAN /\ v.thrown \in BOOLEAN
      /\ Accepted(v) /\ "dynamic" \in keys => Sound(v.heap[o])
  BY <1>1, KnownThere, ValidatedIs DEF TypeInv
<1>3. /\ heap' = v.heap /\ crashed' = v.thrown
      /\ IF Accepted(v)
         THEN /\ workflows' = With(workflows, heap[o].name, o)
              /\ draft' = draft \ {o}
         ELSE UNCHANGED <<workflows, draft>>
      /\ UNCHANGED <<sessions, checks, edits>>
  BY DEF AddWorkflow, KeepOn
<1> HIDE DEF v
<1> QED BY <1>1, <1>2, <1>3

LEMMA AddWorkflowTyped ==
    ASSUME NEW keys, TypeInv(keys), NEW o, AddWorkflow(o)
    PROVE  TypeInv(keys)'
<1>1. /\ o \in draft /\ o \in DOMAIN heap
      /\ Touched(heap, heap', o, keys)
      /\ crashed' \in BOOLEAN
      /\ \/ UNCHANGED <<workflows, draft>>
         \/ /\ workflows' = With(workflows, heap[o].name, o)
            /\ draft' = draft \ {o}
      /\ UNCHANGED <<sessions, checks, edits>>
  BY AddWorkflowIs
<1>2. /\ DOMAIN heap' = DOMAIN heap
      /\ HeapMade(heap', keys)
      /\ \A x \in DOMAIN heap' : heap'[x].name \in KnownNames /\ Made(heap'[x])
      /\ Counted'
  BY <1>1, TouchedTyped
<1>3. /\ DOMAIN workflows' \subseteq KnownNames
      /\ draft' \subseteq draft
      /\ \A n \in DOMAIN workflows' : workflows'[n] \in DOMAIN heap \ draft'
  <2>1. CASE UNCHANGED <<workflows, draft>>
    BY <2>1 DEF TypeInv, TypeOK
  <2>2. CASE workflows' = With(workflows, heap[o].name, o) /\ draft' = draft \ {o}
    <3>1. heap[o].name \in KnownNames
      BY <1>1 DEF TypeInv, TypeOK
    <3> DEFINE name == heap[o].name
    <3> HIDE DEF name
    <3>2. workflows' = Entry(name, o) ++ workflows
      BY <2>2 DEF With, name
    <3>3. DOMAIN workflows' = {name} \cup DOMAIN workflows
      BY <3>2 DEF ++, Entry
    <3>4. \A n \in DOMAIN workflows' : workflows'[n] = IF n = name THEN o ELSE workflows[n]
      BY <3>2 DEF ++, Entry
    <3>5. \A n \in DOMAIN workflows : workflows[n] \in DOMAIN heap \ draft
      BY DEF TypeInv, TypeOK
    <3>6. \A n \in DOMAIN workflows' : workflows'[n] \in DOMAIN heap \ draft'
      BY <1>1, <2>2, <3>3, <3>4, <3>5
    <3> QED BY <2>2, <3>1, <3>3, <3>6 DEF TypeInv, TypeOK, name
  <2> QED BY <1>1, <2>1, <2>2
<1>4. {workflows'[n] : n \in DOMAIN workflows'} \cup draft' \subseteq DOMAIN heap
  BY <1>3 DEF TypeInv, TypeOK
<1>5. \A s \in DOMAIN sessions : sessions[s].of \in DOMAIN heap \ draft'
  BY <1>3 DEF TypeInv, TypeOK
<1>6. TypeOK'
  BY <1>1, <1>2, <1>3, <1>4, <1>5 DEF TypeInv, TypeOK
<1> QED BY <1>1, <1>2, <1>6 DEF TypeInv, Opened

LEMMA DropWorkflowTyped ==
    ASSUME NEW keys, TypeInv(keys), NEW name, DropWorkflow(name)
    PROVE  TypeInv(keys)'
<1>1. /\ workflows' = [n \in DOMAIN workflows \ {name} |-> workflows[n]]
      /\ UNCHANGED <<heap, draft, sessions, checks, crashed, edits>>
  BY DEF DropWorkflow, KeepOn
<1>2. DOMAIN workflows' \subseteq DOMAIN workflows
      /\ \A n \in DOMAIN workflows' : workflows'[n] = workflows[n]
  BY <1>1
<1>3. {workflows'[n] : n \in DOMAIN workflows'} \subseteq {workflows[n] : n \in DOMAIN workflows}
  BY <1>2
<1>4. TypeOK'
  BY <1>1, <1>2, <1>3 DEF TypeInv, TypeOK
<1> QED BY <1>1, <1>4 DEF TypeInv, Opened, Counted

LEMMA OpenSessionIs ==
    ASSUME NEW s, NEW r, OpenSession(s, r)
    PROVE  /\ s \notin DOMAIN sessions
           /\ r.workflow \in DOMAIN workflows
           /\ DOMAIN sessions' = DOMAIN sessions \cup {s}
           /\ sessions'[s] = [of |-> workflows[r.workflow], own |-> r.bypass]
           /\ \A t \in DOMAIN sessions : sessions'[t] = sessions[t]
           /\ UNCHANGED <<heap, workflows, draft, checks, crashed, edits>>
<1> DEFINE e == [of |-> workflows[r.workflow], own |-> r.bypass]
<1>1. /\ s \notin DOMAIN sessions /\ r.workflow \in DOMAIN workflows
      /\ sessions' = Entry(s, e) ++ sessions
      /\ UNCHANGED <<heap, workflows, draft, checks, crashed, edits>>
  BY DEF OpenSession, KeepOn
<1> HIDE DEF e
<1>2. /\ DOMAIN sessions' = DOMAIN sessions \cup {s} /\ sessions'[s] = e
      /\ \A t \in DOMAIN sessions : sessions'[t] = sessions[t]
  BY <1>1 DEF ++, Entry
<1> QED BY <1>1, <1>2 DEF e

LEMMA OpenSessionTyped ==
    ASSUME NEW keys, TypeInv(keys), NEW s \in Sessions, NEW r, OpenSession(s, r)
    PROVE  TypeInv(keys)'
<1> DEFINE at == workflows[r.workflow]
           own == r.bypass
<1>1. /\ DOMAIN sessions' = DOMAIN sessions \cup {s}
      /\ sessions'[s] = [of |-> at, own |-> own]
      /\ r.workflow \in DOMAIN workflows
      /\ \A t \in DOMAIN sessions : sessions'[t] = sessions[t]
      /\ UNCHANGED <<heap, workflows, draft, checks, crashed, edits>>
  BY OpenSessionIs
<1>2. at \in DOMAIN heap \ draft
  BY <1>1 DEF TypeInv, TypeOK
<1> HIDE DEF at, own
<1>3. sessions'[s].of = at /\ sessions'[s].own = own
  BY <1>1
<1>4. \A t \in DOMAIN sessions' : /\ sessions'[t].of \in DOMAIN heap \ draft
                                 /\ sessions'[t] = [of |-> sessions'[t].of, own |-> sessions'[t].own]
  BY <1>1, <1>2, <1>3 DEF TypeInv, TypeOK, Opened
<1>5. TypeOK'
  BY <1>1, <1>4 DEF TypeInv, TypeOK
<1> QED BY <1>1, <1>4, <1>5 DEF TypeInv, Opened, Counted

\* What a session holds for an action, once it is marked.
MarkedOwn(s, a, name) ==
    LET own == sessions[s].own
    IN  Entry(a, Set(IF a \in DOMAIN own THEN own[a] ELSE Unguarded, "string", Mark, name)) ++ own

LEMMA WithMarkIs ==
    ASSUME Opened, NEW s \in DOMAIN sessions, NEW a, NEW name
    PROVE  LET ss == WithMark(s, a, name)
           IN  /\ DOMAIN ss = DOMAIN sessions
               /\ ss[s] = [of |-> sessions[s].of, own |-> MarkedOwn(s, a, name)]
               /\ \A t \in DOMAIN sessions \ {s} : ss[t] = sessions[t]
<1> DEFINE ss == WithMark(s, a, name)
           x == MarkedOwn(s, a, name)
           r == sessions[s]
<1>1. ss = [sessions EXCEPT ![s].own = x]
  <2> DEFINE own == sessions[s].own
             e == Entry(a, Set(IF a \in DOMAIN own THEN own[a] ELSE Unguarded, "string", Mark, name))
  <2>1. x = e ++ own
    BY DEF MarkedOwn
  <2>2. ss = [sessions EXCEPT ![s].own = e ++ @]
    BY DEF WithMark
  <2> HIDE DEF e, x, ss
  <2>3. [sessions EXCEPT ![s].own = e ++ @] = [sessions EXCEPT ![s].own = e ++ own]
    OBVIOUS
  <2> QED BY <2>1, <2>2, <2>3
<1>2. r = [of |-> r.of, own |-> r.own]
  BY DEF Opened
<1> HIDE DEF x, ss
<1>3. [r EXCEPT !.own = x] = [of |-> r.of, own |-> x]
  BY <1>2
<1>4. ss = [sessions EXCEPT ![s] = [of |-> r.of, own |-> x]]
  BY <1>1, <1>3
<1>5. /\ DOMAIN ss = DOMAIN sessions /\ ss[s] = [of |-> r.of, own |-> x]
      /\ \A t \in DOMAIN sessions \ {s} : ss[t] = sessions[t]
  BY <1>4
<1> QED BY <1>5 DEF ss, x

\* checkInputs: it leaves the action as it is, or prepares it anew, or fails.
LEMMA CheckIs ==
    ASSUME NEW keys, TypeInv(keys), NEW s \in DOMAIN sessions,
           NEW a \in Callers(heap[sessions[s].of]), Check(s, a)
    PROVE  LET o == sessions[s].of
               name == Callee(LayersOf(s, a))
           IN  /\ o \in DOMAIN heap \ draft
               /\ Touched(heap, heap', o, keys)
               /\ OnlyAct(heap[o], heap'[o], a)
               /\ crashed' \in BOOLEAN
               /\ UNCHANGED <<workflows, draft, edits>>
               /\ \/ /\ StillPrepared(s, a)
                     /\ checks' = Append(checks, <<s, a>>)
                     /\ UNCHANGED <<heap, sessions>>
                  \/ /\ ~StillPrepared(s, a)
                     /\ name \in DOMAIN workflows
                     /\ Agrees(heap, heap', o, a, workflows[name])
                     /\ heap'[o].acts[a].prepared
                     /\ sessions' = WithMark(s, a, name)
                     /\ checks' = Append(checks, <<s, a>>)
                  \/ /\ ~StillPrepared(s, a)
                     /\ UNCHANGED <<sessions, checks>>
<1> DEFINE o == sessions[s].of
           name == Callee(LayersOf(s, a))
           p == Prepare(heap, workflows, o, a, name)
<1>1. o \in DOMAIN heap \ draft
  BY DEF TypeInv, TypeOK
<1>2. /\ UNCHANGED <<workflows, draft, edits>>
      /\ IF StillPrepared(s, a)
         THEN checks' = Append(checks, <<s, a>>) /\ UNCHANGED <<heap, sessions, crashed>>
         ELSE /\ heap' = p.heap
              /\ crashed' = p.thrown
              /\ sessions' = IF p.ok THEN WithMark(s, a, name) ELSE sessions
              /\ checks' = IF p.ok THEN Append(checks, <<s, a>>) ELSE checks
  BY DEF Check, KeepOn
<1>3. /\ Touched(heap, p.heap, o, keys)
      /\ OnlyAct(heap[o], p.heap[o], a)
      /\ p.ok \in BOOLEAN /\ p.thrown \in BOOLEAN
      /\ p.ok => /\ ~p.thrown
                 /\ name \in DOMAIN workflows
                 /\ Agrees(heap, p.heap, o, a, workflows[name])
                 /\ p.heap[o].acts[a].prepared
  <2> DEFINE n == name
             q == Prepare(heap, workflows, o, a, n)
  <2> HIDE DEF n
  <2>1. /\ Touched(heap, q.heap, o, keys)
        /\ OnlyAct(heap[o], q.heap[o], a)
        /\ q.ok \in BOOLEAN /\ q.thrown \in BOOLEAN
        /\ q.ok => /\ ~q.thrown
                   /\ n \in DOMAIN workflows
                   /\ Agrees(heap, q.heap, o, a, workflows[n])
                   /\ q.heap[o].acts[a].prepared
    BY <1>1, KnownThere, PrepareIs DEF TypeInv
  <2> QED BY <2>1 DEF n
<1>4. CASE StillPrepared(s, a)
  <2>1. IsWorkflow(heap[o])
    BY <1>1, MadeIsShaped DEF TypeInv, HeapMade, Shaped
  <2>2. heap' = heap /\ sessions' = sessions /\ crashed' = crashed
        /\ checks' = Append(checks, <<s, a>>)
    BY <1>2, <1>4
  <2>3. Touched(heap, heap, o, keys) /\ OnlyAct(heap[o], heap[o], a)
    BY <1>1, <2>1, TouchedReflexive DEF OnlyAct
  <2>4. crashed \in BOOLEAN
    BY DEF TypeInv, TypeOK
  <2> HIDE DEF name, p
  <2>5. Touched(heap, heap', o, keys) /\ OnlyAct(heap[o], heap'[o], a)
    BY <2>2, <2>3
  <2> QED BY <1>1, <1>2, <1>4, <2>2, <2>4, <2>5
<1>5. CASE ~StillPrepared(s, a)
  <2> HIDE DEF name, p
  <2> QED BY <1>1, <1>2, <1>3, <1>5 DEF name
<1> QED BY <1>4, <1>5

LEMMA CheckTyped ==
    ASSUME NEW keys, TypeInv(keys), NEW s \in DOMAIN sessions,
           NEW a \in Callers(heap[sessions[s].of]), Check(s, a)
    PROVE  TypeInv(keys)'
<1> DEFINE o == sessions[s].of
           name == Callee(LayersOf(s, a))
<1>1. /\ o \in DOMAIN heap \ draft
      /\ Touched(heap, heap', o, keys)
      /\ crashed' \in BOOLEAN
      /\ UNCHANGED <<workflows, draft, edits>>
      /\ sessions' = sessions \/ sessions' = WithMark(s, a, name)
      /\ checks' = checks \/ checks' = Append(checks, <<s, a>>)
  BY CheckIs
<1> HIDE DEF name
<1>2. /\ DOMAIN heap' = DOMAIN heap
      /\ HeapMade(heap', keys)
      /\ \A x \in DOMAIN heap' : heap'[x].name \in KnownNames /\ Made(heap'[x])
      /\ Counted'
  BY <1>1, TouchedTyped
<1>3. /\ DOMAIN sessions' = DOMAIN sessions
      /\ \A t \in DOMAIN sessions : /\ sessions'[t].of = sessions[t].of
                                    /\ sessions'[t] = [of |-> sessions'[t].of, own |-> sessions'[t].own]
  <2>1. CASE sessions' = sessions
    BY <2>1 DEF TypeInv, Opened
  <2>2. CASE sessions' = WithMark(s, a, name)
    <3> DEFINE x == MarkedOwn(s, a, name)
    <3>1. /\ DOMAIN sessions' = DOMAIN sessions
          /\ sessions'[s] = [of |-> o, own |-> x]
          /\ \A t \in DOMAIN sessions \ {s} : sessions'[t] = sessions[t]
      BY <2>2, WithMarkIs DEF TypeInv
    <3> HIDE DEF x
    <3>2. sessions'[s].of = o /\ sessions'[s].own = x
      BY <3>1
    <3>3. \A t \in DOMAIN sessions : sessions[t] = [of |-> sessions[t].of, own |-> sessions[t].own]
      BY DEF TypeInv, Opened
    <3>4. ASSUME NEW t \in DOMAIN sessions
          PROVE  /\ sessions'[t].of = sessions[t].of
                 /\ sessions'[t] = [of |-> sessions'[t].of, own |-> sessions'[t].own]
      <4>1. CASE t = s
        BY <3>1, <3>2, <4>1
      <4>2. CASE t # s
        BY <3>1, <3>3, <4>2
      <4> QED BY <4>1, <4>2
    <3> QED BY <3>1, <3>4
  <2> QED BY <1>1, <2>1, <2>2
<1>4. checks' \in Seq(Sessions \X (Wrapped \cup Nat))
  <2>1. a \in DOMAIN heap[o].acts
    BY DEF Callers
  <2>2. a \in Wrapped \cup Nat /\ s \in Sessions
    BY <1>1, <2>1 DEF TypeInv, TypeOK, Made
  <2> DEFINE S == Sessions \X (Wrapped \cup Nat)
             e == <<s, a>>
  <2>3. e \in S /\ checks \in Seq(S)
    BY <2>2 DEF TypeInv, TypeOK
  <2> HIDE DEF S, e
  <2>4. Append(checks, e) \in Seq(S)
    BY <2>3
  <2>5. checks' = checks \/ checks' = Append(checks, e)
    BY <1>1 DEF e
  <2>6. checks' \in Seq(S)
    BY <2>3, <2>4, <2>5
  <2> QED BY <2>6 DEF S
<1>5. TypeOK'
  BY <1>1, <1>2, <1>3, <1>4 DEF TypeInv, TypeOK
<1>6. Opened'
  BY <1>3 DEF Opened
<1> QED BY <1>2, <1>5, <1>6 DEF TypeInv

\* The edits are those of an author.
LEMMA EditIs ==
    ASSUME NEW o \in draft,
           \/ \E part \in Parts : AddAction(o, part)
           \/ \E starter \in Inputs : AddInput(o, starter)
           \/ \E x \in Shown : Expose(o, x) \/ UnexposeAlias(o, x)
           \/ \E id \in DOMAIN heap[o].exposed : Unexpose(o, id)
    PROVE  \E w : Change(o, w) /\ Edited(heap[o], w)
  BY DEF AddAction, AddInput, Expose, UnexposeAlias, Unexpose, Edited

LEMMA NextTyped ==
    ASSUME NEW keys, Hidden(keys), TypeInv(keys), [Next]_vars
    PROVE  TypeInv(keys)'
<1>1. CASE UNCHANGED vars
  BY <1>1 DEF vars, TypeInv, TypeOK, Opened, Counted
<1>2. ASSUME NEW name \in Names, StartDraft(name) \/ DropWorkflow(name)
      PROVE  TypeInv(keys)'
  BY <1>2, StartDraftTyped, DropWorkflowTyped
<1>3. ASSUME NEW o \in draft, AddWorkflow(o)
      PROVE  TypeInv(keys)'
  BY <1>3, AddWorkflowTyped
<1>4. ASSUME NEW o \in draft,
             \/ \E part \in Parts : AddAction(o, part)
             \/ \E starter \in Inputs : AddInput(o, starter)
             \/ \E x \in Shown : Expose(o, x) \/ UnexposeAlias(o, x)
             \/ \E id \in DOMAIN heap[o].exposed : Unexpose(o, id)
      PROVE  TypeInv(keys)'
  <2>1. PICK w : Change(o, w) /\ Edited(heap[o], w)
    BY <1>4, EditIs
  <2>2. Made(heap[o]) /\ Hides(heap[o], keys)
    BY DEF TypeInv, TypeOK, HeapMade
  <2>3. Follows(heap[o], w) /\ Hides(w, keys)
    BY <2>1, <2>2, EditedMade
  <2> QED BY <2>1, <2>3, ChangeTyped
<1>5. ASSUME NEW o \in DOMAIN heap, SaveLoad(o)
      PROVE  TypeInv(keys)'
  BY <1>5, SaveLoadTyped
<1>6. ASSUME NEW s \in Sessions, NEW r \in Requests, OpenSession(s, r)
      PROVE  TypeInv(keys)'
  BY <1>6, OpenSessionTyped
<1>7. ASSUME NEW s \in DOMAIN sessions, NEW a \in Callers(heap[sessions[s].of]), Check(s, a)
      PROVE  TypeInv(keys)'
  BY <1>7, CheckTyped
<1> QED BY <1>1, <1>2, <1>3, <1>4, <1>5, <1>6, <1>7 DEF Next

\* Whatever authors, the controller and the sessions do, the workflows stay well
\* made, and nothing refers to an object that is not there or still worked at.
THEOREM TypeCorrect == Spec => []TypeOK
<1>1. Init => TypeInv({})
  BY InitTyped, NothingHidden
<1>2. TypeInv({}) /\ [Next]_vars => TypeInv({})'
  BY NextTyped, NothingHidden
<1>3. TypeInv({}) => TypeOK
  BY DEF TypeInv
<1> QED BY <1>1, <1>2, <1>3, PTL DEF Spec

\* What a step makes of the workflows there are, and which new ones there may be.
Becomes(x, keys) ==
    \/ /\ x \in DOMAIN heap
       /\ \/ heap'[x] = heap[x]
          \/ Edited(heap[x], heap'[x])
          \/ Retouched(heap[x], heap'[x], keys)
    \/ /\ x \notin DOMAIN heap
       /\ \/ \E name : heap'[x] = NewWorkflow(name)
          \/ \E y \in DOMAIN heap : heap'[x] = Copy(heap[y])

LEMMA NextBecomes ==
    ASSUME NEW keys, Hidden(keys), TypeInv(keys), [Next]_vars, NEW x \in DOMAIN heap'
    PROVE  Becomes(x, keys)
<1>1. ASSUME UNCHANGED heap PROVE Becomes(x, keys)
  BY <1>1 DEF Becomes
<1>2. ASSUME NEW o \in DOMAIN heap, Touched(heap, heap', o, keys) PROVE Becomes(x, keys)
  <2>1. x \in DOMAIN heap
    BY <1>2 DEF Touched
  <2>2. x = o => Retouched(heap[x], heap'[x], keys)
    BY <1>2 DEF Touched
  <2>3. x # o => heap'[x] = heap[x]
    BY <1>2, <2>1 DEF Touched
  <2> QED BY <2>1, <2>2, <2>3 DEF Becomes
<1>3. ASSUME NEW w, Make(w), (\E name : w = NewWorkflow(name)) \/ (\E y \in DOMAIN heap : w = Copy(heap[y]))
      PROVE  Becomes(x, keys)
  <2>1. PICK o \in Objects :
          /\ o \notin DOMAIN heap
          /\ DOMAIN heap' = DOMAIN heap \cup {o}
          /\ heap'[o] = w
          /\ \A z \in DOMAIN heap : heap'[z] = heap[z]
    BY <1>3, MakeIs
  <2> QED BY <1>3, <2>1 DEF Becomes
<1>4. ASSUME NEW o \in draft, NEW w, Change(o, w), Edited(heap[o], w) PROVE Becomes(x, keys)
  <2>1. heap' = [heap EXCEPT ![o] = w] /\ o \in DOMAIN heap
    BY <1>4 DEF Change, TypeInv, TypeOK
  <2>2. x \in DOMAIN heap /\ heap'[x] = IF x = o THEN w ELSE heap[x]
    BY <2>1
  <2> QED BY <1>4, <2>2 DEF Becomes
<1>5. ASSUME NEW name \in Names, StartDraft(name) \/ DropWorkflow(name) PROVE Becomes(x, keys)
  <2>1. DropWorkflow(name) => UNCHANGED heap
    BY DEF DropWorkflow
  <2>2. StartDraft(name) => Make(NewWorkflow(name))
    BY DEF StartDraft
  <2> QED BY <1>1, <1>3, <1>5, <2>1, <2>2
<1>6. ASSUME NEW o \in draft, AddWorkflow(o) PROVE Becomes(x, keys)
  BY <1>2, <1>6, AddWorkflowIs
<1>7. ASSUME NEW o \in draft,
             \/ \E part \in Parts : AddAction(o, part)
             \/ \E starter \in Inputs : AddInput(o, starter)
             \/ \E z \in Shown : Expose(o, z) \/ UnexposeAlias(o, z)
             \/ \E id \in DOMAIN heap[o].exposed : Unexpose(o, id)
      PROVE  Becomes(x, keys)
  <2>1. PICK w : Change(o, w) /\ Edited(heap[o], w)
    BY <1>7, EditIs
  <2> QED BY <1>4, <2>1
<1>8. ASSUME NEW o \in DOMAIN heap, SaveLoad(o) PROVE Becomes(x, keys)
  <2>1. Make(Copy(heap[o]))
    BY <1>8 DEF SaveLoad, Copy
  <2> QED BY <1>3, <2>1
<1>9. ASSUME NEW s \in Sessions, NEW r \in Requests, OpenSession(s, r) PROVE Becomes(x, keys)
  BY <1>1, <1>9 DEF OpenSession
<1>10. ASSUME NEW s \in DOMAIN sessions, NEW a \in Callers(heap[sessions[s].of]), Check(s, a)
       PROVE  Becomes(x, keys)
  <2> DEFINE o == sessions[s].of
  <2>1. o \in DOMAIN heap /\ Touched(heap, heap', o, keys)
    BY <1>10, CheckIs
  <2> QED BY <1>2, <2>1
<1>11. CASE UNCHANGED vars
  BY <1>1, <1>11 DEF vars
<1> QED BY <1>5, <1>6, <1>7, <1>8, <1>9, <1>10, <1>11 DEF Next

-----------------------------------------------------------------------------
(* The copy by way of JSON.  A factory makes an action again when it knows   *)
(* its type and gives it no property the action lacks: load adds to what the *)
(* factory gives, so such a property would be new.                           *)

FactoryFits(act) == DOMAIN Types[act.type].props.props \subseteq DOMAIN act.props.props

\* An action comes back as it is made again, or as init makes the first one.
Restores(w, a) ==
    \/ w.acts[a].type \in DOMAIN Types /\ (a \notin Wrapped => FactoryFits(w.acts[a]))
    \/ /\ a = Initialisation
       /\ w.acts[a] = FirstAction
       /\ w.outputs[a] = <<Binding("", Finish, "")>>
Restorable(w) == \A a \in DOMAIN w.acts : Restores(w, a)

\* The factory knows the types of all that authors and the stock bring, and the
\* one of the steps that init adds.
FactoryKnows ==
    /\ \A t \in DOMAIN Types : Types[t].type = t
    /\ DefaultNextAction.type \in DOMAIN Types
    /\ FirstAction.type \in DOMAIN Types => FactoryFits(FirstAction)
    /\ \A part \in Parts : /\ part.act.type \in DOMAIN Types
                           /\ part.id \notin Wrapped => FactoryFits(part.act)
    /\ \A i \in 1 .. Len(Stock) : Restorable(Stock[i])

LEMMA NewWorkflowRestorable ==
    ASSUME FactoryKnows, NEW name
    PROVE  Restorable(NewWorkflow(name))
<1> DEFINE w == NewWorkflow(name)
<1>1. /\ DOMAIN w.acts = FirstSteps
      /\ w.acts[Initialisation] = FirstAction
      /\ w.outputs[Initialisation] = <<Binding("", Finish, "")>>
      /\ \A a \in FirstSteps \ {Initialisation} : w.acts[a] = DefaultNextAction
  BY NewWorkflowMade
<1> HIDE DEF w
<1>2. \A a \in FirstSteps \ {Initialisation} : a \in Wrapped
  BY DEF FirstSteps, Wrapped
<1>3. ASSUME NEW a \in DOMAIN w.acts PROVE Restores(w, a)
  <2>1. CASE a = Initialisation
    BY <1>1, <2>1 DEF Restores
  <2>2. CASE a # Initialisation
    <3>1. w.acts[a].type = DefaultNextAction.type
      BY <1>1, <2>2
    <3> QED BY <1>1, <1>2, <2>2, <3>1 DEF Restores, FactoryKnows
  <2> QED BY <2>1, <2>2
<1> QED BY <1>3 DEF Restorable, w

LEMMA RemadeProps ==
    ASSUME NEW w, Made(w), NEW a \in KnownActs(w)
    PROVE  LET ps == SavedProps(w, a)
               qs == Remade(w, a).props
           IN  /\ DOMAIN qs.props = DOMAIN ps.props \cup DOMAIN Types[w.acts[a].type].props.props
               /\ \A k \in DOMAIN ps.props : qs.props[k] = ReloadedValue(k[1], ps.props[k])
<1> DEFINE ps == SavedProps(w, a)
           ts == Types[w.acts[a].type].props
           qs == Remade(w, a).props
           new == [k \in DOMAIN ps.props |-> ReloadedValue(k[1], ps.props[k])]
<1>1. qs = Reloaded(ts, ps)
  BY RemadeIs
<1>2. Reloaded(ts, ps).props = new ++ ts.props
  BY DEF Reloaded
<1>3. DOMAIN new = DOMAIN ps.props
      /\ \A k \in DOMAIN ps.props : new[k] = ReloadedValue(k[1], ps.props[k])
  OBVIOUS
<1> HIDE DEF new, qs, ps, ts
<1>4. qs.props = new ++ ts.props
  BY <1>1, <1>2
<1>5. DOMAIN qs.props = DOMAIN new \cup DOMAIN ts.props
      /\ \A k \in DOMAIN new : qs.props[k] = new[k]
  <2> DEFINE old == ts.props
  <2> HIDE DEF old
  <2>1. /\ DOMAIN (new ++ old) = DOMAIN new \cup DOMAIN old
        /\ \A k \in DOMAIN new : (new ++ old)[k] = new[k]
    BY Combined
  <2> QED BY <1>4, <2>1 DEF old
<1>6. DOMAIN qs.props = DOMAIN ps.props \cup DOMAIN ts.props
      /\ \A k \in DOMAIN ps.props : qs.props[k] = ReloadedValue(k[1], ps.props[k])
  BY <1>3, <1>5
<1> QED BY <1>6 DEF qs, ps, ts

LEMMA CopyRestorable ==
    ASSUME FactoryKnows, NEW w, Made(w)
    PROVE  Restorable(Copy(w))
<1> DEFINE l == Copy(w)
           n == NewWorkflow(w.name)
<1>1. /\ DOMAIN l.acts = KnownActs(w) \cup FirstSteps
      /\ \A a \in KnownActs(w) : l.acts[a] = Remade(w, a) /\ l.outputs[a] = w.outputs[a]
      /\ \A a \in FirstSteps \ KnownActs(w) :
            l.acts[a] = n.acts[a] /\ l.outputs[a] = n.outputs[a]
  BY CopyIs
<1>2. Restorable(n) /\ DOMAIN n.acts = FirstSteps
  BY NewWorkflowRestorable, NewWorkflowMade
<1> HIDE DEF l, n
<1>3. ASSUME NEW a \in DOMAIN l.acts PROVE Restores(l, a)
  <2>1. CASE a \in KnownActs(w)
    <3> DEFINE t == w.acts[a].type
    <3>1. t \in DOMAIN Types /\ Remade(w, a).type = Types[t].type
      BY <2>1, RemadeIs DEF KnownActs
    <3>2. l.acts[a].type = t
      BY <1>1, <2>1, <3>1 DEF FactoryKnows
    <3>3. DOMAIN Types[t].props.props \subseteq DOMAIN l.acts[a].props.props
      BY <1>1, <2>1, RemadeProps
    <3> HIDE DEF t
    <3> QED BY <3>1, <3>2, <3>3 DEF Restores, FactoryFits
  <2>2. CASE a \notin KnownActs(w)
    <3>1. a \in DOMAIN n.acts /\ l.acts[a] = n.acts[a] /\ l.outputs[a] = n.outputs[a]
      BY <1>1, <1>2, <2>2
    <3> QED BY <1>2, <3>1 DEF Restorable, Restores
  <2> QED BY <2>1, <2>2
<1> QED BY <1>3 DEF Restorable, l

\* An action of an edited workflow was there or is one of the parts.
Descends(w, u, a) ==
    \/ a \in DOMAIN w.acts /\ u.acts[a] = w.acts[a] /\ u.outputs[a] = w.outputs[a]
    \/ \E part \in Parts : a = part.id /\ u.acts[a] = part.act

LEMMA EditedDescends ==
    ASSUME NEW w, Made(w), NEW u, Edited(w, u), NEW a \in DOMAIN u.acts
    PROVE  Descends(w, u, a)
<1>1. ASSUME NEW part \in Parts, u = WithAction(w, part.id, part.act, part.bindings)
      PROVE  Descends(w, u, a)
  <2> DEFINE id == part.id
             act == part.act
             bindings == part.bindings
             acts == Entry(id, act)
             outs == Entry(id, bindings)
             v == WithActions(w, acts, outs)
  <2>1. id \in Int /\ IsAction(act) /\ bindings \in Seq(BindingSet)
    BY PartsAssumption DEF PartsAssumption
  <2>2. u = WithAction(w, id, act, bindings)
    BY <1>1
  <2>3. \E p \in Parts : id = p.id /\ act = p.act
    OBVIOUS
  <2> HIDE DEF id, act, bindings
  <2>4. CASE ~Accepts(id)
    <3>1. u = w
      BY <2>2, <2>4 DEF WithAction
    <3> QED BY <3>1 DEF Descends
  <2>5. CASE Accepts(id)
    <3>1. u = v /\ id \in Wrapped \cup Nat
      BY <2>1, <2>2, <2>5 DEF WithAction, Accepts
    <3>2. DOMAIN acts = {id} /\ acts[id] = act /\ DOMAIN outs = {id} /\ outs[id] = bindings
      BY EntryIs
    <3>3. IsFiniteSet({id})
      BY FS_Singleton
    <3> HIDE DEF acts, outs
    <3>4. AreActions(acts, outs)
      BY <2>1, <3>1, <3>2, <3>3 DEF AreActions
    <3>5. Shaped(w)
      BY MadeIsShaped
    <3>6. v.acts = acts ++ w.acts /\ v.outputs = outs ++ w.outputs
      BY <3>4, <3>5, WithActionsShaped
    <3> HIDE DEF v
    <3>7. DOMAIN w.outputs = DOMAIN w.acts
      BY <3>5 DEF Shaped
    <3>8. DOMAIN v.acts = {id} \cup DOMAIN w.acts /\ v.acts[id] = act
      BY <3>2, <3>6 DEF ++
    <3>9. CASE a = id
      BY <2>3, <3>1, <3>8, <3>9 DEF Descends
    <3>10. CASE a # id
      <4>1. a \in DOMAIN w.acts
        BY <3>1, <3>8, <3>10
      <4>2. v.acts[a] = w.acts[a]
        BY <3>2, <3>6, <3>10, <4>1 DEF ++
      <4>3. v.outputs[a] = w.outputs[a]
        BY <3>2, <3>6, <3>7, <3>10, <4>1 DEF ++
      <4> QED BY <3>1, <4>1, <4>2, <4>3 DEF Descends
    <3> QED BY <3>9, <3>10
  <2> QED BY <2>4, <2>5
<1>2. ASSUME u.acts = w.acts, u.outputs = w.outputs PROVE Descends(w, u, a)
  BY <1>2 DEF Descends
<1>3. ASSUME NEW starter \in Inputs, u = WithInput(w, starter) PROVE Descends(w, u, a)
  <2>1. starter \in StarterSet
    BY PartsAssumption DEF PartsAssumption
  <2>2. u.acts = w.acts /\ u.outputs = w.outputs
    BY <1>3, <2>1, WithInputMade
  <2> QED BY <1>2, <2>2
<1>4. ASSUME NEW x \in Shown, u = Exposing(w, x.id, x.key, x.alias) PROVE Descends(w, u, a)
  <2>1. u.acts = w.acts /\ u.outputs = w.outputs
    BY <1>4, ExposingMade
  <2> QED BY <1>2, <2>1
<1>5. ASSUME NEW x \in Shown, u = UnexposingAlias(w, x.id, x.alias) PROVE Descends(w, u, a)
  <2>1. u.acts = w.acts /\ u.outputs = w.outputs
    BY <1>5, UnexposingAliasMade
  <2> QED BY <1>2, <2>1
<1>6. ASSUME NEW id, u = Unexposing(w, id) PROVE Descends(w, u, a)
  <2>1. u.acts = w.acts /\ u.outputs = w.outputs
    BY <1>6, UnexposingMade
  <2> QED BY <1>2, <2>1
<1> QED BY <1>1, <1>3, <1>4, <1>5, <1>6 DEF Edited

LEMMA EditedRestorable ==
    ASSUME FactoryKnows, NEW w, Made(w), Restorable(w), NEW u, Edited(w, u)
    PROVE  Restorable(u)
<1>1. ASSUME NEW a \in DOMAIN u.acts PROVE Restores(u, a)
  <2>1. Descends(w, u, a)
    BY EditedDescends
  <2>2. CASE a \in DOMAIN w.acts /\ u.acts[a] = w.acts[a] /\ u.outputs[a] = w.outputs[a]
    BY <2>2 DEF Restorable, Restores
  <2>3. ASSUME NEW part \in Parts, a = part.id, u.acts[a] = part.act PROVE Restores(u, a)
    BY <2>3 DEF FactoryKnows, Restores
  <2> QED BY <2>1, <2>2, <2>3 DEF Descends
<1> QED BY <1>1 DEF Restorable

LEMMA RetouchedRestorable ==
    ASSUME NEW w, NEW u, NEW keys, Retouched(w, u, keys), Restorable(w)
    PROVE  Restorable(u)
<1>1. DOMAIN u.acts = DOMAIN w.acts /\ u.outputs = w.outputs
  BY RetouchedIs
<1>2. ASSUME NEW a \in DOMAIN w.acts PROVE Restores(u, a)
  <2> DEFINE act == w.acts[a]
             bct == u.acts[a]
  <2>1. Reworked(act, bct, keys) /\ Restores(w, a)
    BY DEF Retouched, Restorable
  <2> HIDE DEF act, bct
  <2>2. CASE bct = act
    BY <1>1, <2>1, <2>2 DEF Restores, act, bct
  <2>3. CASE bct # act
    <3>1. /\ act.type = "ExecuteWorkflow" /\ bct.type = act.type
          /\ DOMAIN act.props.props \subseteq DOMAIN bct.props.props
      BY <2>1, <2>3 DEF Reworked, Keeps
    <3>2. act # FirstAction
      <4>1. FirstAction.type # "ExecuteWorkflow"
        BY DEF FirstAction, Action
      <4> QED BY <3>1, <4>1
    <3>3. act.type \in DOMAIN Types /\ (a \notin Wrapped => FactoryFits(act))
      BY <2>1, <3>2 DEF Restores, act
    <3>4. bct.type \in DOMAIN Types /\ (a \notin Wrapped => FactoryFits(bct))
      BY <3>1, <3>3 DEF FactoryFits
    <3> QED BY <3>4 DEF Restores, bct
  <2> QED BY <2>2, <2>3
<1> QED BY <1>1, <1>2 DEF Restorable

\* What the copy owes to the original.
ComesBack(w) ==
    LET l == Copy(w)
        shown == {i \in DOMAIN w.exposed : DOMAIN w.exposed[i] # {}}
    IN  /\ DOMAIN l.acts = DOMAIN w.acts
        /\ \A a \in DOMAIN w.acts : Survives(w, l, a)
        /\ \A a \in DOMAIN w.outputs : l.outputs[a] = w.outputs[a]
        /\ \A b \in DOMAIN w.producers \cup DOMAIN l.producers :
            l.producers[b] = w.producers[b]
        /\ l.starters = w.starters
        /\ DOMAIN l.exposed = shown
        /\ \A i \in shown : l.exposed[i] = w.exposed[i]

LEMMA RestorableComesBack ==
    ASSUME FactoryKnows, NEW w, Made(w), Indexed(w), Restorable(w)
    PROVE  ComesBack(w)
<1> DEFINE l == Copy(w)
           n == NewWorkflow(w.name)
           shown == {i \in DOMAIN w.exposed : DOMAIN w.exposed[i] # {}}
<1>1. /\ Made(l) /\ Indexed(l)
      /\ DOMAIN l.acts = KnownActs(w) \cup FirstSteps
      /\ \A a \in KnownActs(w) : l.acts[a] = Remade(w, a) /\ l.outputs[a] = w.outputs[a]
      /\ \A a \in FirstSteps \ KnownActs(w) :
            l.acts[a] = n.acts[a] /\ l.outputs[a] = n.outputs[a]
      /\ l.starters = w.starters
      /\ l.exposed = [i \in shown |-> w.exposed[i]]
  BY CopyIs
<1>2. /\ n.acts[Initialisation] = FirstAction
      /\ n.outputs[Initialisation] = <<Binding("", Finish, "")>>
  BY NewWorkflowMade
<1>3. /\ FirstSteps \subseteq DOMAIN w.acts /\ KnownActs(w) \subseteq DOMAIN w.acts
      /\ w.outputs \in [DOMAIN w.acts -> Seq(BindingSet)]
      /\ l.outputs \in [DOMAIN l.acts -> Seq(BindingSet)]
      /\ Initialisation \in FirstSteps
  BY <1>1 DEF Made, KnownActs, FirstSteps
<1> HIDE DEF l, n
<1>4. ASSUME NEW a \in DOMAIN w.acts, a \notin KnownActs(w)
      PROVE  /\ a = Initialisation
             /\ w.acts[a] = FirstAction
             /\ w.outputs[a] = <<Binding("", Finish, "")>>
  BY <1>4 DEF Restorable, Restores, KnownActs
<1>5. DOMAIN l.acts = DOMAIN w.acts
  BY <1>1, <1>3, <1>4
<1>6. ASSUME NEW a \in DOMAIN w.acts
      PROVE  Survives(w, l, a) /\ l.outputs[a] = w.outputs[a]
  <2>1. CASE a \notin KnownActs(w)
    <3>1. l.acts[a] = w.acts[a] /\ l.outputs[a] = w.outputs[a]
      BY <1>1, <1>2, <1>3, <1>4, <2>1
    <3> QED BY <3>1 DEF Survives
  <2>2. CASE a \in KnownActs(w)
    <3> DEFINE t == w.acts[a].type
               ps == w.acts[a].props
               qs == l.acts[a].props
    <3>1. l.acts[a] = Remade(w, a) /\ l.outputs[a] = w.outputs[a] /\ t \in DOMAIN Types
      BY <1>1, <2>2 DEF KnownActs
    <3>2. l.acts[a].type = t
      <4>1. Remade(w, a).type = Types[t].type
        BY <2>2, RemadeIs
      <4> QED BY <3>1, <4>1 DEF FactoryKnows
    <3>3. ASSUME a \notin Wrapped
          PROVE  /\ DOMAIN qs.props = DOMAIN ps.props
                 /\ \A k \in DOMAIN ps.props : k[1] # "custom" => qs.props[k] = ps.props[k]
      <4>1. FactoryFits(w.acts[a])
        <5>1. CASE w.acts[a] = FirstAction
          BY <3>1, <5>1 DEF FactoryKnows
        <5>2. CASE w.acts[a] # FirstAction
          BY <3>3, <5>2 DEF Restorable, Restores
        <5> QED BY <5>1, <5>2
      <4>2. SavedProps(w, a) = ps
        BY <3>3 DEF SavedProps
      <4>3. /\ DOMAIN qs.props = DOMAIN ps.props \cup DOMAIN Types[t].props.props
            /\ \A k \in DOMAIN ps.props : qs.props[k] = ReloadedValue(k[1], ps.props[k])
        BY <2>2, <3>1, <4>2, RemadeProps
      <4>4. DOMAIN Types[t].props.props \subseteq DOMAIN ps.props
        BY <4>1 DEF FactoryFits
      <4>5. \A k \in DOMAIN ps.props :
                k[1] # "custom" => ReloadedValue(k[1], ps.props[k]) = ps.props[k]
        BY DEF ReloadedValue
      <4> HIDE DEF ps, qs, t
      <4> QED BY <4>3, <4>4, <4>5
    <3> QED BY <3>1, <3>2, <3>3 DEF Survives
  <2> QED BY <2>1, <2>2
<1>7. l.outputs = w.outputs
  BY <1>3, <1>5, <1>6
<1>8. l.producers = w.producers
  BY <1>1, <1>7 DEF Indexed
<1>9. DOMAIN l.exposed = shown /\ \A i \in shown : l.exposed[i] = w.exposed[i]
  BY <1>1
<1> QED BY <1>1, <1>5, <1>6, <1>7, <1>8, <1>9 DEF ComesBack, l

JsonInv == \A o \in DOMAIN heap : Indexed(heap[o]) /\ Restorable(heap[o])

LEMMA JsonInit ==
    ASSUME StockIndexed, FactoryKnows, Init
    PROVE  JsonInv
<1> DEFINE c == Stocked
           N == Len(Stock)
<1>1. Shelved(c, N, {}) /\ heap = c.heap
  BY StockedIs, NothingHidden DEF Hidden, Init
<1> HIDE DEF c
<1>2. ASSUME NEW o \in DOMAIN heap
      PROVE  Indexed(heap[o]) /\ Restorable(heap[o])
  <2> DEFINE w == Stock[o]
             u == heap[o]
  <2>1. o \in 1 .. N /\ Retouched(w, u, {})
    BY <1>1 DEF Shelved
  <2>2. Made(w) /\ Indexed(w) /\ Restorable(w)
    BY <2>1, StockAssumption DEF StockAssumption, StockIndexed, FactoryKnows
  <2> HIDE DEF w, u
  <2>3. Indexed(u)
    BY <2>1, <2>2, RetouchedMade DEF Follows
  <2>4. Restorable(u)
    BY <2>1, <2>2, RetouchedRestorable
  <2> QED BY <2>3, <2>4 DEF u
<1> QED BY <1>2 DEF JsonInv

LEMMA JsonNext ==
    ASSUME FactoryKnows, TypeInv({}), JsonInv, [Next]_vars
    PROVE  JsonInv'
<1> SUFFICES ASSUME NEW x \in DOMAIN heap'
             PROVE  Indexed(heap'[x]) /\ Restorable(heap'[x])
  BY DEF JsonInv
<1> DEFINE u == heap'[x]
<1>1. Becomes(x, {})
  BY NextBecomes, NothingHidden
<1>2. CASE x \in DOMAIN heap
  <2> DEFINE w == heap[x]
  <2>1. Made(w) /\ Indexed(w) /\ Restorable(w) /\ Hides(w, {})
    BY <1>2 DEF TypeInv, TypeOK, JsonInv, Hides
  <2>2. u = w \/ Edited(w, u) \/ Retouched(w, u, {})
    BY <1>1, <1>2 DEF Becomes
  <2> HIDE DEF w, u
  <2>3. ASSUME Edited(w, u) PROVE Indexed(u) /\ Restorable(u)
    <3>1. Follows(w, u)
      BY <2>1, <2>3, EditedMade, NothingHidden
    <3>2. Restorable(u)
      BY <2>1, <2>3, EditedRestorable
    <3> QED BY <2>1, <3>1, <3>2 DEF Follows
  <2>4. ASSUME Retouched(w, u, {}) PROVE Indexed(u) /\ Restorable(u)
    <3>1. Follows(w, u)
      BY <2>1, <2>4, RetouchedMade
    <3>2. Restorable(u)
      BY <2>1, <2>4, RetouchedRestorable
    <3> QED BY <2>1, <3>1, <3>2 DEF Follows
  <2> QED BY <2>1, <2>2, <2>3, <2>4 DEF u
<1>3. CASE x \notin DOMAIN heap
  <2>1. CASE \E name : u = NewWorkflow(name)
    BY <2>1, NewWorkflowMade, NewWorkflowRestorable
  <2>2. CASE \E y \in DOMAIN heap : u = Copy(heap[y])
    <3>1. PICK y \in DOMAIN heap : u = Copy(heap[y])
      BY <2>2
    <3> DEFINE w == heap[y]
    <3>2. Made(w)
      BY DEF TypeInv, TypeOK
    <3> HIDE DEF w, u
    <3>3. u = Copy(w)
      BY <3>1 DEF w
    <3>4. Indexed(Copy(w)) /\ Restorable(Copy(w))
      BY <3>2, CopyIs, CopyRestorable
    <3> QED BY <3>3, <3>4 DEF u
  <2> QED BY <1>1, <1>3, <2>1, <2>2 DEF Becomes
<1> QED BY <1>2, <1>3

\* A factory that knows what authors use makes a workflow again from what was
\* saved of it: actions, bindings, joins, starters and exposed properties.
THEOREM RoundTripRestores ==
    ASSUME StockIndexed, FactoryKnows
    PROVE  Spec => []RoundTrip
<1>1. Init => TypeInv({}) /\ JsonInv
  BY InitTyped, NothingHidden, JsonInit
<1>2. TypeInv({}) /\ JsonInv /\ [Next]_vars => (TypeInv({}) /\ JsonInv)'
  BY NextTyped, NothingHidden, JsonNext
<1>3. TypeInv({}) /\ JsonInv => RoundTrip
  <2> SUFFICES ASSUME TypeInv({}), JsonInv PROVE RoundTrip
    OBVIOUS
  <2>1. \A o \in DOMAIN heap : ComesBack(heap[o])
    BY RestorableComesBack DEF TypeInv, TypeOK, JsonInv
  <2>2. draft \cup {workflows[n] : n \in DOMAIN workflows} \subseteq DOMAIN heap
    BY DEF TypeInv, TypeOK
  <2>3. \A o \in draft \cup {workflows[n] : n \in DOMAIN workflows} : ComesBack(heap[o])
    BY <2>1, <2>2
  <2> QED BY <2>3 DEF RoundTrip, ComesBack, Copy
<1> QED BY <1>1, <1>2, <1>3, PTL DEF Spec

-----------------------------------------------------------------------------
(* The stock stays sound.  A call nobody may make dynamic from outside is     *)
(* prepared once and for all, so what validate has found of it stays true.    *)

LEMMA TwoLayers ==
    ASSUME NEW p, NEW q, NEW kind, NEW key, NEW default
    PROVE  Read(<<p, q>>, kind, key, default)
           = IF Has(p, key) THEN Get(p, kind, key, default) ELSE Read(<<q>>, kind, key, default)
<1> DEFINE both == <<p, q>>
           having == {i \in 1 .. Len(both) : Has(both[i], key)}
<1>0. Len(both) = 2 /\ both[1] = p /\ both[2] = q
  OBVIOUS
<1>1. CASE Has(p, key)
  <2>1. 1 \in having /\ \A j \in having : 1 <= j
    BY <1>0, <1>1
  <2>2. \A i \in having : (\A j \in having : i <= j) => i = 1
    BY <2>1
  <2>3. (CHOOSE i \in having : \A j \in having : i <= j) = 1
    <3> HIDE DEF having
    <3> QED BY <2>1, <2>2
  <2>4. FirstLayer(both, key) = p
    BY <1>0, <2>1, <2>3 DEF FirstLayer
  <2> QED BY <1>1, <2>4 DEF Read
<1>2. CASE ~Has(p, key) /\ Has(q, key)
  <2>1. having = {2}
    BY <1>0, <1>2
  <2>2. (CHOOSE i \in having : \A j \in having : i <= j) = 2
    BY <2>1
  <2>3. FirstLayer(both, key) = q
    BY <1>0, <2>1, <2>2 DEF FirstLayer
  <2>4. Read(both, kind, key, default) = Get(q, kind, key, default)
    BY <2>3 DEF Read
  <2> QED BY <1>2, <2>4, OwnRead
<1>3. CASE ~Has(p, key) /\ ~Has(q, key)
  <2>1. having = {}
    BY <1>0, <1>3
  <2>2. FirstLayer(both, key) = Unguarded
    BY <2>1 DEF FirstLayer
  <2>3. Read(both, kind, key, default) = Get(Unguarded, kind, key, default)
    BY <2>2 DEF Read
  <2> QED BY <1>3, <2>3, OwnRead
<1> QED BY <1>1, <1>2, <1>3

\* What a session reads for an action, its own layer first.
LEMMA LayersRead ==
    ASSUME NEW s, NEW a, NEW kind, NEW key, NEW default
    PROVE  LET own == sessions[s].own
               w == heap[sessions[s].of]
           IN  Read(LayersOf(s, a), kind, key, default)
               = IF a \in DOMAIN own /\ Has(own[a], key) THEN Get(own[a], kind, key, default)
                 ELSE Read(OwnLayers(w, a), kind, key, default)
<1> DEFINE own == sessions[s].own
           q == heap[sessions[s].of].acts[a].props
<1>1. CASE a \in DOMAIN own
  <2> DEFINE p == own[a]
  <2>1. LayersOf(s, a) = <<p, q>>
    BY <1>1 DEF LayersOf
  <2> HIDE DEF p, q
  <2>2. Read(LayersOf(s, a), kind, key, default)
        = IF Has(p, key) THEN Get(p, kind, key, default) ELSE Read(<<q>>, kind, key, default)
    BY <2>1, TwoLayers
  <2> QED BY <1>1, <2>2 DEF OwnLayers, p, q
<1>2. CASE a \notin DOMAIN own
  <2>1. LayersOf(s, a) = OwnLayers(heap[sessions[s].of], a)
    BY <1>2 DEF LayersOf
  <2> QED BY <1>2, <2>1
<1> QED BY <1>1, <1>2

\* Setting a property adds no other.
OneSet(ps, qs, at) ==
    /\ IsProps(qs)
    /\ DOMAIN qs.props \in {DOMAIN ps.props, DOMAIN ps.props \cup {at}}
    /\ \A k \in DOMAIN ps.props \ {at} : qs.props[k] = ps.props[k]

LEMMA SetIs ==
    ASSUME NEW ps, IsProps(ps), NEW kind, NEW key, NEW value
    PROVE  OneSet(ps, Set(ps, kind, key, value), <<kind, key>>)
<1> DEFINE qs == Set(ps, kind, key, value)
           g == ps.guarded
           old == ps.props
           at == <<kind, key>>
<1>1. ps = [guarded |-> g, props |-> old]
  BY DEF IsProps
<1>2. CASE Holds(ps, kind, key)
  <2> DEFINE new == [old EXCEPT ![at].value = value]
  <2>1. qs = [ps EXCEPT !.props[at].value = value]
    BY <1>2 DEF Set
  <2>2. at \in DOMAIN old
    BY <1>2 DEF Holds
  <2> HIDE DEF qs, at, g, old
  <2>3. [ps EXCEPT !.props[at].value = value] = [guarded |-> g, props |-> new]
    BY <1>1
  <2>4. DOMAIN new = DOMAIN old /\ \A k \in DOMAIN old \ {at} : new[k] = old[k]
    OBVIOUS
  <2> HIDE DEF new
  <2>5. qs.guarded = g /\ qs.props = new /\ IsProps(qs)
    BY <2>1, <2>3 DEF IsProps
  <2> QED BY <2>4, <2>5 DEF OneSet, qs, at, old
<1>3. CASE ~Holds(ps, kind, key) /\ ps.guarded
  BY <1>3 DEF Set, OneSet
<1>4. CASE ~Holds(ps, kind, key) /\ ~ps.guarded
  <2> DEFINE e == Entry(at, Property(value, FALSE))
             new == e ++ old
  <2>1. qs = [ps EXCEPT !.props = new]
    BY <1>4 DEF Set, Define, Take
  <2> HIDE DEF e
  <2>2. DOMAIN e = {at}
    BY EntryIs DEF e
  <2> HIDE DEF qs, at, g, old
  <2>3. DOMAIN new = {at} \cup DOMAIN old /\ \A k \in DOMAIN old \ {at} : new[k] = old[k]
    BY <2>2 DEF ++
  <2> HIDE DEF new
  <2>4. [ps EXCEPT !.props = new] = [guarded |-> g, props |-> new]
    BY <1>1
  <2>5. qs.guarded = g /\ qs.props = new /\ IsProps(qs)
    BY <2>1, <2>4 DEF IsProps
  <2>6. DOMAIN qs.props = DOMAIN old \cup {at} /\ \A k \in DOMAIN old \ {at} : qs.props[k] = old[k]
    BY <2>3, <2>5
  <2> QED BY <2>5, <2>6 DEF OneSet, qs, at, old
<1> QED BY <1>2, <1>3, <1>4

LEMMA SetHas ==
    ASSUME NEW ps, IsProps(ps), NEW kind, NEW key, NEW value, NEW other, other # key
    PROVE  Has(Set(ps, kind, key, value), other) <=> Has(ps, other)
<1> DEFINE qs == Set(ps, kind, key, value)
<1>1. DOMAIN qs.props \in {DOMAIN ps.props, DOMAIN ps.props \cup {<<kind, key>>}}
  BY SetIs DEF OneSet
<1> HIDE DEF qs
<1>2. ASSUME NEW k PROVE <<k, other>> # <<kind, key>>
  OBVIOUS
<1>3. ASSUME NEW k PROVE Holds(qs, k, other) <=> Holds(ps, k, other)
  BY <1>1, <1>2 DEF Holds
<1> QED BY <1>3 DEF Has, qs

\* No request makes a call dynamic or not.
Reserved == {"dynamic"}
NoneDynamic == \A r \in Requests : \A a \in DOMAIN r.bypass : ~Has(r.bypass[a], "dynamic")

OwnProps == \A s \in DOMAIN sessions : \A a \in DOMAIN sessions[s].own : IsProps(sessions[s].own[a])
OwnQuiet ==
    \A s \in DOMAIN sessions : \A a \in DOMAIN sessions[s].own : ~Has(sessions[s].own[a], "dynamic")
AllIndexed == \A o \in DOMAIN heap : Indexed(heap[o])
AllSound == \A n \in DOMAIN workflows : Sound(heap[workflows[n]])
SoundInv == OwnProps /\ OwnQuiet /\ AllIndexed /\ AllSound

\* What is held for a session is what it came with, and marks.
Owned(t, b) == IF b \in DOMAIN sessions[t].own THEN sessions[t].own[b] ELSE Unguarded
Signed(ps, name) == Set(ps, "string", Mark, name)

OneSigned(x, s, a, name) ==
    /\ DOMAIN x = DOMAIN sessions[s].own \cup {a}
    /\ x[a] = Signed(Owned(s, a), name)
    /\ IsProps(Owned(s, a))
    /\ \A b \in DOMAIN sessions[s].own \ {a} : x[b] = sessions[s].own[b]

LEMMA MarkedOwnIs ==
    ASSUME OwnProps, NEW s \in DOMAIN sessions, NEW a, NEW name
    PROVE  OneSigned(MarkedOwn(s, a, name), s, a, name)
<1> DEFINE own == sessions[s].own
           own2 == MarkedOwn(s, a, name)
           old == Owned(s, a)
           new == Signed(old, name)
<1>1. IsProps(old)
  BY DEF OwnProps, IsProps, Unguarded, Owned
<1>2. own2 = Entry(a, new) ++ own
  BY DEF MarkedOwn, Owned, Signed
<1> HIDE DEF own2, new, own, old
<1>3. /\ DOMAIN own2 = DOMAIN own \cup {a} /\ own2[a] = new
      /\ \A b \in DOMAIN own \ {a} : own2[b] = own[b]
  BY <1>2 DEF ++, Entry
<1> QED BY <1>1, <1>3 DEF OneSigned, own2, new, own, old

LEMMA CheckSteady ==
    ASSUME OwnQuiet, NEW keys, TypeInv(keys), NEW s \in DOMAIN sessions,
           NEW a \in Callers(heap[sessions[s].of]), Check(s, a)
    PROVE  Steady(heap[sessions[s].of], heap'[sessions[s].of])
<1> DEFINE o == sessions[s].of
           w == heap[o]
           u == heap'[o]
<1>1. /\ OnlyAct(w, u, a)
      /\ (StillPrepared(s, a) /\ heap' = heap) \/ ~StillPrepared(s, a)
  BY CheckIs
<1>2. CASE heap' = heap
  BY <1>2 DEF Steady
<1>3. CASE ~StillPrepared(s, a)
  <2>1. Dynamic(LayersOf(s, a)) = Dynamic(OwnLayers(w, a))
    <3> DEFINE kind == "bool"
               key == "dynamic"
               no == FALSE
               own == sessions[s].own
    <3>1. ~(a \in DOMAIN own /\ Has(own[a], key))
      BY DEF OwnQuiet
    <3> HIDE DEF kind, key, no, own
    <3>2. Read(LayersOf(s, a), kind, key, no) = Read(OwnLayers(w, a), kind, key, no)
      BY <3>1, LayersRead DEF own
    <3> QED BY <3>2 DEF Dynamic, kind, key, no
  <2>2. ~(w.acts[a].prepared /\ ~Dynamic(OwnLayers(w, a)))
    BY <1>3, <2>1 DEF StillPrepared
  <2> HIDE DEF w, u
  <2>3. Steady(w, u)
    BY <1>1, <2>2 DEF OnlyAct, Steady
  <2> QED BY <2>3 DEF w, u
<1> QED BY <1>1, <1>2, <1>3

LEMMA SoundInit ==
    ASSUME Hidden(Reserved), StockIndexed, Init
    PROVE  SoundInv
<1> DEFINE c == Stocked
           N == Len(Stock)
           keys == Reserved
<1>1. Shelved(c, N, keys) /\ heap = c.heap /\ workflows = c.known /\ "dynamic" \in keys
  BY StockedIs DEF Hidden, Init, Reserved
<1>2. DOMAIN sessions = {}
  BY DEF Init
<1> HIDE DEF c, keys
<1>3. AllSound
  BY <1>1 DEF AllSound, Shelved
<1>4. ASSUME NEW o \in DOMAIN heap
      PROVE  Indexed(heap[o])
  <2> DEFINE w == Stock[o]
             u == heap[o]
  <2>1. o \in 1 .. N /\ Retouched(w, u, keys)
    BY <1>1 DEF Shelved
  <2>2. Made(w) /\ Indexed(w)
    BY <2>1, StockAssumption DEF StockAssumption, StockIndexed
  <2> HIDE DEF w, u
  <2>3. Indexed(u)
    BY <2>1, <2>2, RetouchedMade DEF Follows
  <2> QED BY <2>3 DEF u
<1> QED BY <1>2, <1>3, <1>4 DEF SoundInv, OwnProps, OwnQuiet, AllIndexed

LEMMA IndexedNext ==
    ASSUME NEW keys, Hidden(keys), TypeInv(keys), AllIndexed, [Next]_vars
    PROVE  AllIndexed'
<1> SUFFICES ASSUME NEW x \in DOMAIN heap'
             PROVE  Indexed(heap'[x])
  BY DEF AllIndexed
<1> DEFINE u == heap'[x]
<1>1. Becomes(x, keys)
  BY NextBecomes
<1>2. CASE x \in DOMAIN heap
  <2> DEFINE w == heap[x]
  <2>1. Made(w) /\ Indexed(w) /\ Hides(w, keys)
    BY <1>2 DEF TypeInv, HeapMade, AllIndexed
  <2>2. u = w \/ Edited(w, u) \/ Retouched(w, u, keys)
    BY <1>1, <1>2 DEF Becomes
  <2> HIDE DEF w, u
  <2>3. ASSUME Edited(w, u) PROVE Indexed(u)
    <3>1. Follows(w, u)
      BY <2>1, <2>3, EditedMade
    <3> QED BY <2>1, <3>1 DEF Follows
  <2>4. ASSUME Retouched(w, u, keys) PROVE Indexed(u)
    <3>1. Follows(w, u)
      BY <2>1, <2>4, RetouchedMade
    <3> QED BY <2>1, <3>1 DEF Follows
  <2> QED BY <2>1, <2>2, <2>3, <2>4 DEF u
<1>3. CASE x \notin DOMAIN heap
  <2>1. CASE \E name : u = NewWorkflow(name)
    BY <2>1, NewWorkflowMade
  <2>2. CASE \E y \in DOMAIN heap : u = Copy(heap[y])
    <3>1. PICK y \in DOMAIN heap : u = Copy(heap[y])
      BY <2>2
    <3> DEFINE w == heap[y]
    <3>2. Made(w)
      BY DEF TypeInv, TypeOK
    <3> HIDE DEF w, u
    <3>3. u = Copy(w) /\ Indexed(Copy(w))
      BY <3>1, <3>2, CopyIs DEF w
    <3> QED BY <3>3 DEF u
  <2> QED BY <1>1, <1>3, <2>1, <2>2 DEF Becomes
<1> QED BY <1>2, <1>3

\* What the controller has, sessions alone retouch.
Holdfast(x) ==
    heap'[x] = heap[x] \/ (Retouched(heap[x], heap'[x], Reserved) /\ Steady(heap[x], heap'[x]))

LEMMA NextHoldsFast ==
    ASSUME OwnQuiet, TypeInv(Reserved), [Next]_vars, NEW x \in DOMAIN heap \ draft
    PROVE  Holdfast(x)
<1>1. ASSUME UNCHANGED heap PROVE Holdfast(x)
  BY <1>1 DEF Holdfast
<1>2. ASSUME NEW w, Make(w) PROVE Holdfast(x)
  BY <1>2, MakeIs DEF Holdfast
<1>3. ASSUME NEW name \in Names, StartDraft(name) \/ DropWorkflow(name) PROVE Holdfast(x)
  <2>1. DropWorkflow(name) => UNCHANGED heap
    BY DEF DropWorkflow
  <2>2. StartDraft(name) => Make(NewWorkflow(name))
    BY DEF StartDraft
  <2> QED BY <1>1, <1>2, <1>3, <2>1, <2>2
<1>4. ASSUME NEW o \in draft, AddWorkflow(o) PROVE Holdfast(x)
  <2>1. Touched(heap, heap', o, Reserved)
    BY <1>4, AddWorkflowIs
  <2> QED BY <1>4, <2>1 DEF Touched, Holdfast
<1>5. ASSUME NEW o \in draft,
             \/ \E part \in Parts : AddAction(o, part)
             \/ \E starter \in Inputs : AddInput(o, starter)
             \/ \E z \in Shown : Expose(o, z) \/ UnexposeAlias(o, z)
             \/ \E id \in DOMAIN heap[o].exposed : Unexpose(o, id)
      PROVE  Holdfast(x)
  <2>1. PICK w : Change(o, w) /\ Edited(heap[o], w)
    BY <1>5, EditIs
  <2>2. heap' = [heap EXCEPT ![o] = w] /\ o # x
    BY <2>1, <1>5 DEF Change
  <2> QED BY <2>2 DEF Holdfast
<1>6. ASSUME NEW o \in DOMAIN heap, SaveLoad(o) PROVE Holdfast(x)
  BY <1>2, <1>6 DEF SaveLoad
<1>7. ASSUME NEW s \in Sessions, NEW r \in Requests, OpenSession(s, r) PROVE Holdfast(x)
  BY <1>1, <1>7 DEF OpenSession
<1>8. ASSUME NEW s \in DOMAIN sessions, NEW a \in Callers(heap[sessions[s].of]), Check(s, a)
      PROVE  Holdfast(x)
  <2> DEFINE o == sessions[s].of
  <2>1. Touched(heap, heap', o, Reserved)
    BY <1>8, CheckIs
  <2>2. Steady(heap[o], heap'[o])
    BY <1>8, CheckSteady
  <2> HIDE DEF o
  <2> QED BY <2>1, <2>2 DEF Touched, Holdfast
<1>9. CASE UNCHANGED vars
  BY <1>1, <1>9 DEF vars
<1> QED BY <1>3, <1>4, <1>5, <1>6, <1>7, <1>8, <1>9 DEF Next

\* A name the controller has after a step is an accepted draft's or was there.
LEMMA NextWorkflows ==
    ASSUME NEW keys, Hidden(keys), "dynamic" \in keys, TypeInv(keys), [Next]_vars,
           NEW n \in DOMAIN workflows'
    PROVE  \/ n \in DOMAIN workflows /\ workflows'[n] = workflows[n]
           \/ /\ workflows'[n] \in draft
              /\ Sound(heap'[workflows'[n]])
<1> DEFINE Stays == n \in DOMAIN workflows /\ workflows'[n] = workflows[n]
<1>1. UNCHANGED workflows => Stays
  OBVIOUS
<1>2. ASSUME NEW name, DropWorkflow(name) PROVE Stays
  BY <1>2 DEF DropWorkflow
<1>3. ASSUME NEW o \in draft, AddWorkflow(o)
      PROVE  Stays \/ (workflows'[n] \in draft /\ Sound(heap'[workflows'[n]]))
  <2>1. \/ UNCHANGED workflows
        \/ workflows' = With(workflows, heap[o].name, o) /\ Sound(heap'[o])
    BY <1>3, AddWorkflowIs
  <2>2. CASE workflows' = With(workflows, heap[o].name, o) /\ Sound(heap'[o])
    <3>1. workflows' = Entry(heap[o].name, o) ++ workflows
      BY <2>2 DEF With
    <3>2. CASE n = heap[o].name
      <4>1. workflows'[n] = o
        BY <3>1, <3>2 DEF ++, Entry
      <4> QED BY <2>2, <4>1
    <3>3. CASE n # heap[o].name
      BY <3>1, <3>3 DEF ++, Entry
    <3> QED BY <3>2, <3>3
  <2> QED BY <1>1, <2>1, <2>2
<1>4. ASSUME NEW s \in DOMAIN sessions, NEW a \in Callers(heap[sessions[s].of]), Check(s, a)
      PROVE  UNCHANGED workflows
  BY <1>4, CheckIs
<1>5. ASSUME NEW o \in draft,
             \/ \E part \in Parts : AddAction(o, part)
             \/ \E starter \in Inputs : AddInput(o, starter)
             \/ \E z \in Shown : Expose(o, z) \/ UnexposeAlias(o, z)
             \/ \E id \in DOMAIN heap[o].exposed : Unexpose(o, id)
      PROVE  UNCHANGED workflows
  BY <1>5, EditIs DEF Change
<1>6. ASSUME NEW name \in Names, StartDraft(name) PROVE UNCHANGED workflows
  BY <1>6 DEF StartDraft
<1>7. ASSUME NEW o \in DOMAIN heap, SaveLoad(o) PROVE UNCHANGED workflows
  BY <1>7 DEF SaveLoad
<1>8. ASSUME NEW s \in Sessions, NEW r \in Requests, OpenSession(s, r)
      PROVE  UNCHANGED workflows
  BY <1>8 DEF OpenSession
<1>9. CASE UNCHANGED vars
  BY <1>9 DEF vars
<1> QED BY <1>1, <1>2, <1>3, <1>4, <1>5, <1>6, <1>7, <1>8, <1>9 DEF Next

LEMMA SoundNext ==
    ASSUME Hidden(Reserved), OwnQuiet, AllSound, TypeInv(Reserved), [Next]_vars
    PROVE  AllSound'
<1> SUFFICES ASSUME NEW n \in DOMAIN workflows'
             PROVE  Sound(heap'[workflows'[n]])
  BY DEF AllSound
<1>0. "dynamic" \in Reserved
  BY DEF Reserved
<1>1. CASE Sound(heap'[workflows'[n]])
  BY <1>1
<1>2. CASE n \in DOMAIN workflows /\ workflows'[n] = workflows[n]
  <2> DEFINE x == workflows[n]
             w == heap[x]
             u == heap'[x]
  <2>1. x \in DOMAIN heap \ draft /\ Sound(w) /\ Made(w)
    BY <1>2 DEF TypeInv, TypeOK, AllSound
  <2>2. u = w \/ (Retouched(w, u, Reserved) /\ Steady(w, u))
    BY <2>1, NextHoldsFast DEF Holdfast
  <2> HIDE DEF w, u
  <2>3. Sound(u)
    BY <1>0, <2>1, <2>2, SoundStays
  <2> QED BY <1>2, <2>3 DEF u
<1> QED BY <1>0, <1>1, <1>2, NextWorkflows

\* What the sessions hold: what their requests brought, and marks of the calls
\* found fit.
Brought(t, b) ==
    LET x == sessions'[t].own[b]
    IN  \/ /\ t \in DOMAIN sessions /\ b \in DOMAIN sessions[t].own
           /\ x = sessions[t].own[b]
        \/ \E r \in Requests : b \in DOMAIN r.bypass /\ x = r.bypass[b]
        \/ /\ t \in DOMAIN sessions
           /\ IsProps(Owned(t, b))
           /\ \E name : x = Signed(Owned(t, b), name)
           /\ checks' = Append(checks, <<t, b>>)

LEMMA NextBrought ==
    ASSUME OwnProps, NEW keys, TypeInv(keys), [Next]_vars,
           NEW t \in DOMAIN sessions', NEW b \in DOMAIN sessions'[t].own
    PROVE  Brought(t, b)
<1>1. ASSUME UNCHANGED sessions PROVE Brought(t, b)
  BY <1>1 DEF Brought
<1>2. ASSUME NEW s \in Sessions, NEW r \in Requests, OpenSession(s, r)
      PROVE  Brought(t, b)
  <2> DEFINE at == workflows[r.workflow]
             own == r.bypass
  <2>1. /\ DOMAIN sessions' = DOMAIN sessions \cup {s}
        /\ sessions'[s] = [of |-> at, own |-> own]
        /\ \A u \in DOMAIN sessions : sessions'[u] = sessions[u]
    BY <1>2, OpenSessionIs
  <2> HIDE DEF at, own
  <2>2. sessions'[s].own = own
    BY <2>1
  <2>3. CASE t = s
    BY <2>2, <2>3 DEF Brought, own
  <2>4. CASE t # s
    BY <2>1, <2>4 DEF Brought
  <2> QED BY <2>3, <2>4
<1>3. ASSUME NEW s \in DOMAIN sessions, NEW a \in Callers(heap[sessions[s].of]), Check(s, a)
      PROVE  Brought(t, b)
  <2> DEFINE name == Callee(LayersOf(s, a))
  <2>1. \/ sessions' = sessions
        \/ sessions' = WithMark(s, a, name) /\ checks' = Append(checks, <<s, a>>)
    BY <1>3, CheckIs
  <2> HIDE DEF name
  <2>2. CASE sessions' = WithMark(s, a, name) /\ checks' = Append(checks, <<s, a>>)
    <3> DEFINE x == MarkedOwn(s, a, name)
               at == sessions[s].of
    <3>1. /\ DOMAIN sessions' = DOMAIN sessions
          /\ sessions'[s] = [of |-> at, own |-> x]
          /\ \A u \in DOMAIN sessions \ {s} : sessions'[u] = sessions[u]
      BY <2>2, WithMarkIs DEF TypeInv
    <3>2. OneSigned(x, s, a, name)
      BY MarkedOwnIs
    <3> HIDE DEF x, at
    <3>3. sessions'[s].own = x
      BY <3>1
    <3>4. CASE t = s /\ b = a
      BY <2>2, <3>2, <3>3, <3>4 DEF Brought, OneSigned
    <3>5. CASE t = s /\ b # a
      BY <3>1, <3>2, <3>3, <3>5 DEF Brought, OneSigned
    <3>6. CASE t # s
      BY <3>1, <3>6 DEF Brought
    <3> QED BY <3>4, <3>5, <3>6
  <2> QED BY <1>1, <2>1, <2>2
<1>4. ASSUME NEW o \in draft,
             \/ \E part \in Parts : AddAction(o, part)
             \/ \E starter \in Inputs : AddInput(o, starter)
             \/ \E z \in Shown : Expose(o, z) \/ UnexposeAlias(o, z)
             \/ \E id \in DOMAIN heap[o].exposed : Unexpose(o, id)
      PROVE  UNCHANGED sessions
  BY <1>4, EditIs DEF Change
<1>5. ASSUME NEW o \in draft, AddWorkflow(o) PROVE UNCHANGED sessions
  BY <1>5 DEF AddWorkflow
<1>6. ASSUME NEW name \in Names, StartDraft(name) \/ DropWorkflow(name) PROVE UNCHANGED sessions
  BY <1>6 DEF StartDraft, DropWorkflow
<1>7. ASSUME NEW o \in DOMAIN heap, SaveLoad(o) PROVE UNCHANGED sessions
  BY <1>7 DEF SaveLoad
<1>8. CASE UNCHANGED vars
  BY <1>1, <1>8 DEF vars
<1> QED BY <1>1, <1>2, <1>3, <1>4, <1>5, <1>6, <1>7, <1>8 DEF Next

LEMMA OwnPropsNext ==
    ASSUME OwnProps, NEW keys, TypeInv(keys), [Next]_vars
    PROVE  OwnProps'
<1> SUFFICES ASSUME NEW t \in DOMAIN sessions', NEW b \in DOMAIN sessions'[t].own
             PROVE  IsProps(sessions'[t].own[b])
  BY DEF OwnProps
<1> DEFINE x == sessions'[t].own[b]
<1>1. Brought(t, b)
  BY NextBrought
<1>2. CASE t \in DOMAIN sessions /\ b \in DOMAIN sessions[t].own /\ x = sessions[t].own[b]
  BY <1>2 DEF OwnProps
<1>3. CASE \E r \in Requests : b \in DOMAIN r.bypass /\ x = r.bypass[b]
  BY <1>3, PartsAssumption DEF PartsAssumption
<1>4. ASSUME NEW name, IsProps(Owned(t, b)), x = Signed(Owned(t, b), name)
      PROVE  IsProps(x)
  <2> DEFINE old == Owned(t, b)
             kind == "string"
             mark == Mark
  <2> HIDE DEF old, kind, mark
  <2>1. IsProps(Set(old, kind, mark, name))
    BY <1>4, SetIs DEF OneSet, old
  <2> QED BY <1>4, <2>1 DEF old, kind, mark, Signed
<1> QED BY <1>1, <1>2, <1>3, <1>4 DEF Brought

LEMMA OwnQuietNext ==
    ASSUME NoneDynamic, OwnProps, OwnQuiet, NEW keys, TypeInv(keys), [Next]_vars
    PROVE  OwnQuiet'
<1> DEFINE key == "dynamic"
           mark == Mark
           kind == "string"
<1>0. key # mark
  BY DEF Mark
<1> SUFFICES ASSUME NEW t \in DOMAIN sessions', NEW b \in DOMAIN sessions'[t].own
             PROVE  ~Has(sessions'[t].own[b], key)
  BY DEF OwnQuiet
<1> DEFINE x == sessions'[t].own[b]
<1>1. Brought(t, b)
  BY NextBrought
<1>2. CASE t \in DOMAIN sessions /\ b \in DOMAIN sessions[t].own /\ x = sessions[t].own[b]
  BY <1>2 DEF OwnQuiet
<1>3. CASE \E r \in Requests : b \in DOMAIN r.bypass /\ x = r.bypass[b]
  BY <1>3 DEF NoneDynamic
<1>4. ASSUME t \in DOMAIN sessions, NEW name, IsProps(Owned(t, b)),
             x = Signed(Owned(t, b), name)
      PROVE  ~Has(x, key)
  <2> DEFINE old == Owned(t, b)
  <2>1. ~Has(old, key)
    <3>1. ~Has(Unguarded, key)
      BY EmptyFunction DEF Has, Holds, Unguarded
    <3> QED BY <1>4, <3>1 DEF Owned, OwnQuiet
  <2>3. x = Set(old, kind, mark, name)
    BY <1>4 DEF Signed
  <2> HIDE DEF old, x, key, mark, kind
  <2>2. Has(Set(old, kind, mark, name), key) <=> Has(old, key)
    BY <1>0, <1>4, SetHas DEF old
  <2> QED BY <2>1, <2>2, <2>3
<1> QED BY <1>1, <1>2, <1>3, <1>4 DEF Brought

LEMMA SoundIsStockSound ==
    ASSUME NEW w, Made(w), Indexed(w), Sound(w)
    PROVE  /\ \A i \in DOMAIN w.starters : w.starters[i].act \in DOMAIN w.acts
           /\ \A a \in DOMAIN w.outputs, b \in DOMAIN w.acts :
                (b \in DOMAIN w.producers /\ a \in w.producers[b]) <=> b \in Targets(w.outputs[a])
           /\ \A a \in DOMAIN w.outputs : \A i \in DOMAIN w.outputs[a] :
                LET b == w.outputs[a][i]
                IN  /\ b.to \in DOMAIN w.acts \cup {Die}
                    /\ b.from \in DOMAIN Offers(w, a) \cup {""} \/ Open(w, a)
                    /\ \/ b.to \in {Die, Finish}
                       \/ b.in \in DOMAIN Takes(w, b.to) \cup {""}
                       \/ Open(w, b.to)
<1>1. \A i \in DOMAIN w.starters : w.starters[i].act \in DOMAIN w.acts
  BY DEF Sound, StartersFit
<1>2. ASSUME NEW a \in DOMAIN w.outputs, NEW b
      PROVE  (b \in DOMAIN w.producers /\ a \in w.producers[b]) <=> b \in Targets(w.outputs[a])
  <2> DEFINE outs == w.outputs
             prs == w.producers
  <2>1. prs = ProducersOf(<< >>, outs)
    BY DEF Indexed
  <2> HIDE DEF outs, prs
  <2>2. /\ DOMAIN prs = UNION {Targets(outs[c]) : c \in DOMAIN outs}
        /\ \A to \in DOMAIN prs : prs[to] = {c \in DOMAIN outs : to \in Targets(outs[c])}
    BY <2>1 DEF ProducersOf
  <2> QED BY <2>2 DEF outs, prs
<1>3. ASSUME NEW a \in DOMAIN w.outputs, NEW i \in DOMAIN w.outputs[a]
      PROVE  LET b == w.outputs[a][i]
             IN  /\ b.to \in DOMAIN w.acts \cup {Die}
                 /\ b.from \in DOMAIN Offers(w, a) \cup {""} \/ Open(w, a)
                 /\ \/ b.to \in {Die, Finish}
                    \/ b.in \in DOMAIN Takes(w, b.to) \cup {""}
                    \/ Open(w, b.to)
  <2> DEFINE b == w.outputs[a][i]
             p == <<a, i>>
  <2>1. p \in Places(w) /\ p[1] = a /\ p[2] = i
    BY DEF Places
  <2> HIDE DEF p
  <2>2. Bound(w, p)
    BY <2>1 DEF Sound
  <2>3. /\ b.to \in DOMAIN w.acts \cup {Die}
        /\ Met(w, a, "output", b.from)
        /\ b.to \in {Die, Finish} \/ Met(w, b.to, "input", b.in)
    BY <2>1, <2>2 DEF Bound
  <2> HIDE DEF b
  <2>4. Met(w, a, "output", b.from) => b.from \in DOMAIN Offers(w, a) \cup {""} \/ Open(w, a)
    BY DEF Met, PutsOf
  <2>5. Met(w, b.to, "input", b.in) => b.in \in DOMAIN Takes(w, b.to) \cup {""} \/ Open(w, b.to)
    BY DEF Met, PutsOf
  <2> QED BY <2>3, <2>4, <2>5 DEF b
<1> QED BY <1>1, <1>2, <1>3

\* Whatever is edited, copied, dropped or prepared by sessions afterwards, a
\* workflow the controller has accepted stays as validate found it, if nobody but
\* its author says whether its calls are dynamic.
THEOREM AcceptedStaysSound ==
    ASSUME Hidden(Reserved), StockIndexed, NoneDynamic
    PROVE  Spec => []StockSound
<1>1. Init => TypeInv(Reserved) /\ SoundInv
  BY InitTyped, SoundInit
<1>2. TypeInv(Reserved) /\ SoundInv /\ [Next]_vars => (TypeInv(Reserved) /\ SoundInv)'
  <2> SUFFICES ASSUME TypeInv(Reserved), SoundInv, [Next]_vars
               PROVE  TypeInv(Reserved)' /\ SoundInv'
    OBVIOUS
  <2>1. OwnProps /\ OwnQuiet /\ AllIndexed /\ AllSound
    BY DEF SoundInv
  <2>2. TypeInv(Reserved)'
    BY NextTyped
  <2>3. OwnProps' /\ OwnQuiet'
    BY <2>1, OwnPropsNext, OwnQuietNext
  <2>4. AllIndexed'
    BY <2>1, IndexedNext
  <2>5. AllSound'
    BY <2>1, SoundNext
  <2> QED BY <2>2, <2>3, <2>4, <2>5 DEF SoundInv
<1>3. TypeInv(Reserved) /\ SoundInv => StockSound
  <2> SUFFICES ASSUME TypeInv(Reserved), SoundInv, NEW n \in DOMAIN workflows
               PROVE  LET w == heap[workflows[n]]
                      IN  Made(w) /\ Indexed(w) /\ Sound(w)
    BY SoundIsStockSound DEF StockSound, Open
  <2>1. workflows[n] \in DOMAIN heap
    BY DEF TypeInv, TypeOK
  <2> QED BY <2>1 DEF TypeInv, TypeOK, SoundInv, AllIndexed, AllSound
<1> QED BY <1>1, <1>2, <1>3, PTL DEF Spec

-----------------------------------------------------------------------------
(* The contract of a call.  A callee that does not throw while the contract  *)
(* is cleared takes and offers the same once it is set, even if it is the    *)
(* caller itself: the starters and enders of the call would have thrown.     *)

LEMMA StartingIs ==
    ASSUME NEW w, Len(w.starters) \in Nat
    PROVE  LET C == Starting(w)
               N == Len(w.starters)
           IN  /\ C[0] = [takes |-> << >>, thrown |-> FALSE]
               /\ \A n \in 1 .. N : C[n] = WithStarter(w, C[n - 1], w.starters[n])
<1> DEFINE N == Len(w.starters)
           None == [takes |-> << >>, thrown |-> FALSE]
           Run(v, m) == v = [n \in 0 .. m |-> IF n = 0 THEN None
                                              ELSE WithStarter(w, v[n - 1], w.starters[n])]
           T == {m \in Nat : \E v : Run(v, m)}
<1>0. N \in Nat
  OBVIOUS
<1>1. 0 \in T
  <2>1. Run([n \in 0 .. 0 |-> None], 0)
    OBVIOUS
  <2> QED BY <2>1
<1>2. ASSUME NEW m \in 1 .. N, m - 1 \in T PROVE m \in T
  <2>1. PICK v : Run(v, m - 1)
    BY <1>2
  <2> DEFINE u == [n \in 0 .. m |-> IF n = m THEN WithStarter(w, v[n - 1], w.starters[n]) ELSE v[n]]
  <2>2. \A n \in 0 .. m - 1 : u[n] = v[n]
    OBVIOUS
  <2> HIDE DEF None
  <2>3. \A n \in 0 .. m : u[n] = IF n = 0 THEN None ELSE WithStarter(w, u[n - 1], w.starters[n])
    BY <2>1, <2>2
  <2>4. u = [n \in 0 .. m |-> u[n]]
    OBVIOUS
  <2>5. Run(u, m)
    <3> HIDE DEF u
    <3> DEFINE g == [n \in 0 .. m |-> IF n = 0 THEN None
                                   ELSE WithStarter(w, u[n - 1], w.starters[n])]
    <3>1. DOMAIN g = DOMAIN u /\ \A n \in DOMAIN u : u[n] = g[n]
      BY <2>3, <2>4
    <3>2. u = g
      BY <2>4, <3>1
    <3> QED BY <3>2
  <2> HIDE DEF Run, u
  <2> QED BY <2>5
<1>3. N \in T
  <2> HIDE DEF T, N
  <2>1. 0 .. N \subseteq T
    BY <1>0, <1>1, <1>2, UpTo
  <2> QED BY <1>0, <2>1
<1>4. Run(Starting(w), N)
  <2>1. \E v : Run(v, N)
    BY <1>3
  <2>2. Run(CHOOSE v : Run(v, N), N)
    BY <2>1
  <2> QED BY <2>2 DEF Starting
<1> DEFINE C == Starting(w)
<1>5. C = [n \in 0 .. N |-> IF n = 0 THEN None ELSE WithStarter(w, C[n - 1], w.starters[n])]
  BY <1>4
<1> HIDE DEF C, N, None
<1>6. C[0] = None /\ \A n \in 1 .. N : C[n] = WithStarter(w, C[n - 1], w.starters[n])
  BY <1>0, <1>5
<1> QED BY <1>6 DEF C, N, None

\* A starter of the cleared call itself finds no input there.
LEMMA SameStart ==
    ASSUME NEW w, NEW u, NEW a, OnlyAct(w, u, a), DOMAIN u.acts = DOMAIN w.acts,
           w.acts[a].takes = << >>, NEW call, NEW s
    PROVE  WithStarter(w, call, s).thrown \/ WithStarter(u, call, s) = WithStarter(w, call, s)
<1>1. CASE call.thrown
  BY <1>1 DEF WithStarter
<1>2. CASE s.act \notin DOMAIN w.acts
  BY <1>2 DEF WithStarter
<1>3. CASE ~call.thrown /\ s.act \in DOMAIN w.acts \ {a}
  <2>1. Takes(u, s.act) = Takes(w, s.act)
    BY <1>3 DEF OnlyAct, Takes
  <2> QED BY <1>3, <2>1 DEF WithStarter
<1>4. CASE ~call.thrown /\ s.act \in DOMAIN w.acts /\ s.act = a
  <2>1. DOMAIN Takes(w, s.act) = {}
    BY <1>4, EmptyFunction DEF Takes
  <2> QED BY <1>4, <2>1 DEF WithStarter
<1> QED BY <1>1, <1>2, <1>3, <1>4

LEMMA SameContract ==
    ASSUME NEW w, Made(w), NEW u, u.starters = w.starters, u.outputs = w.outputs,
           DOMAIN u.acts = DOMAIN w.acts, NEW a, OnlyAct(w, u, a),
           w.acts[a].takes = << >>, w.acts[a].offers = << >>, ~CallThrows(w)
    PROVE  InputsOf(u) = InputsOf(w) /\ OutputsOf(u) = OutputsOf(w)
<1>1. InputsOf(u) = InputsOf(w)
  <2> DEFINE N == Len(w.starters)
             C == Starting(w)
             D == Starting(u)
             T == {n \in 0 .. N : C[n].thrown \/ D[n] = C[n]}
  <2>1. N \in Nat
    BY DEF Made
  <2>2. /\ C[0] = D[0]
        /\ \A n \in 1 .. N : C[n] = WithStarter(w, C[n - 1], w.starters[n])
        /\ \A n \in 1 .. N : D[n] = WithStarter(u, D[n - 1], w.starters[n])
    BY <2>1, StartingIs
  <2> HIDE DEF C, D, N
  <2>3. 0 \in T
    BY <2>1, <2>2
  <2>4. ASSUME NEW n \in 1 .. N, n - 1 \in T PROVE n \in T
    <3> DEFINE c == C[n - 1]
               s == w.starters[n]
    <3>1. /\ C[n] = WithStarter(w, c, s) /\ D[n] = WithStarter(u, D[n - 1], s)
          /\ c.thrown \/ D[n - 1] = c
          /\ n \in 0 .. N
      BY <2>1, <2>2, <2>4
    <3> HIDE DEF c, s
    <3>2. CASE c.thrown
      <4>1. WithStarter(w, c, s) = c
        BY <3>2 DEF WithStarter
      <4> QED BY <3>1, <3>2, <4>1
    <3>3. CASE D[n - 1] = c
      <4>1. WithStarter(w, c, s).thrown \/ WithStarter(u, c, s) = WithStarter(w, c, s)
        BY SameStart
      <4> QED BY <3>1, <3>3, <4>1
    <3> QED BY <3>1, <3>2, <3>3
  <2>5. N \in T
    <3> HIDE DEF T
    <3>1. 0 .. N \subseteq T
      BY <2>1, <2>3, <2>4, UpTo
    <3> QED BY <2>1, <3>1
  <2>6. CallOf(w) = C[N] /\ CallOf(u) = D[N]
    BY DEF CallOf, C, D, N
  <2>7. ~C[N].thrown
    BY <2>6 DEF CallThrows
  <2> QED BY <2>5, <2>6, <2>7 DEF InputsOf
<1>2. OutputsOf(u) = OutputsOf(w)
  <2> DEFINE E == Enders(w)
             defs(name) == {Offers(w, e.act)[name] : e \in {x \in E : x.put = name}}
             uefs(name) == {Offers(u, e.act)[name] : e \in {x \in E : x.put = name}}
  <2>1. Enders(u) = E
    BY DEF Enders
  <2>2. ASSUME NEW e \in E
        PROVE  Offers(u, e.act) = Offers(w, e.act)
    <3>1. e.act \in DOMAIN w.acts
      <4>1. PICK b \in DOMAIN w.outputs :
              e \in {[act |-> b, put |-> w.outputs[b][i].from] :
                        i \in {j \in DOMAIN w.outputs[b] : w.outputs[b][j].to = Finish}}
        BY DEF Enders
      <4>2. e.act = b
        BY <4>1
      <4> QED BY <4>2 DEF Made
    <3>2. e.put \in DOMAIN Offers(w, e.act)
      BY DEF CallThrows
    <3>3. CASE e.act = a
      <4>1. DOMAIN Offers(w, e.act) = {}
        BY <3>3, EmptyFunction DEF Offers
      <4> QED BY <3>2, <4>1
    <3>4. CASE e.act # a
      BY <3>1, <3>4 DEF OnlyAct, Offers
    <3> QED BY <3>3, <3>4
  <2> HIDE DEF E
  <2>3. \A name : uefs(name) = defs(name)
    BY <2>2
  <2>4. OutputsOf(w) = [name \in {e.put : e \in E} |->
                          [must  |-> \E d \in defs(name) : d.must,
                           skip  |-> \E d \in defs(name) : d.skip,
                           empty |-> \E d \in defs(name) : d.empty,
                           checked |-> TRUE]]
    BY DEF OutputsOf, E
  <2>5. OutputsOf(u) = [name \in {e.put : e \in E} |->
                          [must  |-> \E d \in uefs(name) : d.must,
                           skip  |-> \E d \in uefs(name) : d.skip,
                           empty |-> \E d \in uefs(name) : d.empty,
                           checked |-> TRUE]]
    BY <2>1 DEF OutputsOf
  <2> HIDE DEF defs, uefs
  <2> QED BY <2>3, <2>4, <2>5
<1> QED BY <1>1, <1>2

\* So what prepare has copied is the contract its callee has afterwards.
LEMMA AgreesIsFresh ==
    ASSUME NEW hp, NEW keys, HeapMade(hp, keys), NEW o \in DOMAIN hp,
           NEW a \in Callers(hp[o]), NEW hq, Touched(hp, hq, o, keys),
           OnlyAct(hp[o], hq[o], a), NEW c \in DOMAIN hp, Agrees(hp, hq, o, a, c)
    PROVE  hq[o].acts[a].takes = InputsOf(hq[c]) /\ hq[o].acts[a].offers = OutputsOf(hq[c])
<1> DEFINE act == hp[o].acts[a]
           hc == WithAct(hp, o, a, Bare(act))
           w == hc[c]
           u == hq[c]
<1>1. a \in DOMAIN hp[o].acts /\ IsCall(act) /\ IsWorkflow(hp[o])
  BY CallersAre DEF HeapMade
<1>2. Reworked(act, Bare(act), keys)
  BY <1>1, BareIs
<1>3. /\ Touched(hp, hc, o, keys) /\ OnlyAct(hp[o], hc[o], a)
      /\ hc[o].acts[a] = Bare(act)
  BY <1>1, <1>2, WithActIs
<1>4. Bare(act).takes = << >> /\ Bare(act).offers = << >>
  <2>1. act = [type |-> act.type, takes |-> act.takes, offers |-> act.offers,
               props |-> act.props, prepared |-> act.prepared]
    BY <1>1 DEF IsCall, IsAction
  <2> HIDE DEF act
  <2> QED BY <2>1 DEF Bare
<1>5. /\ ~CallThrows(w) /\ hq[o].acts[a].takes = InputsOf(w)
      /\ hq[o].acts[a].offers = OutputsOf(w)
  BY DEF Agrees, Cleared
<1> HIDE DEF act, hc
<1>6. CASE c # o
  <2>1. w = u
    BY <1>3, <1>6 DEF Touched
  <2> QED BY <1>5, <2>1
<1>7. CASE c = o
  <2>1. Made(w)
    <3>1. HeapMade(hc, keys) /\ DOMAIN hc = DOMAIN hp
      BY <1>3, TouchedMade DEF Touched
    <3> QED BY <3>1 DEF HeapMade
  <2>2. /\ w.starters = hp[o].starters /\ w.outputs = hp[o].outputs
        /\ DOMAIN w.acts = DOMAIN hp[o].acts
    BY <1>3, <1>7, RetouchedIs DEF Touched
  <2>3. /\ u.starters = hp[o].starters /\ u.outputs = hp[o].outputs
        /\ DOMAIN u.acts = DOMAIN hp[o].acts
    BY <1>7, RetouchedIs DEF Touched
  <2>4. OnlyAct(w, u, a)
    BY <1>3, <1>7, <2>2, <2>3 DEF OnlyAct
  <2>5. w.acts[a].takes = << >> /\ w.acts[a].offers = << >>
    BY <1>3, <1>4, <1>7
  <2> HIDE DEF w, u
  <2>6. InputsOf(u) = InputsOf(w) /\ OutputsOf(u) = OutputsOf(w)
    BY <1>5, <2>1, <2>2, <2>3, <2>4, <2>5, SameContract
  <2> QED BY <1>5, <2>6 DEF u
<1> QED BY <1>6, <1>7

-----------------------------------------------------------------------------
(* The first check of a session.  A dynamic call that is prepared is left as  *)
(* it is only for a session that has marked it, and a mark is the name of a    *)
(* callee.  So every call has to name one: what a session has not marked reads *)
(* as "", which is then the name of none.                                      *)

Named(ps) ==
    Holds(ps, "string", "workflow") /\ ps.props[<<"string", "workflow">>].value # ""

\* Its calls name their callees, and none is a step: a step is saved without its
\* properties.
Addressed(w) == \A a \in Callers(w) : a \notin Wrapped /\ Named(w.acts[a].props)

\* Authors, the stock and requests name what they call, and marks are the call's own.
CallsNamed ==
    /\ \A t \in DOMAIN Types : Types[t].type = t
    /\ \A part \in Parts : part.act.type = "ExecuteWorkflow" =>
                               part.id \notin Wrapped /\ Named(part.act.props)
    /\ \A i \in 1 .. Len(Stock) : Addressed(Stock[i])
    /\ \A r \in Requests : \A a \in DOMAIN r.bypass :
        /\ ~Has(r.bypass[a], Mark)
        /\ Has(r.bypass[a], "workflow") => Named(r.bypass[a])

Address == {"workflow"}

AllAddressed == \A o \in DOMAIN heap : Addressed(heap[o])
OwnNamed ==
    \A s \in DOMAIN sessions : \A a \in DOMAIN sessions[s].own :
        Has(sessions[s].own[a], "workflow") => Named(sessions[s].own[a])
Inscribed(ps) == Get(ps, "string", Mark, "")
MarksChecked ==
    \A s \in DOMAIN sessions : \A a \in DOMAIN sessions[s].own :
        Inscribed(sessions[s].own[a]) # "" => <<s, a>> \in Range(checks)
FreshInv == OwnProps /\ OwnNamed /\ AllAddressed /\ MarksChecked

LEMMA NamedKept ==
    ASSUME NEW ps, Named(ps), NEW qs, Keeps(ps, qs, Address)
    PROVE  Named(qs)
<1> DEFINE kind == "string"
           key == "workflow"
           k == <<kind, key>>
<1>1. key \in Address /\ k[2] = key /\ k \in DOMAIN ps.props /\ ps.props[k].value # ""
  BY DEF Named, Holds, Address
<1> HIDE DEF kind, key, k
<1>2. k \in DOMAIN qs.props /\ qs.props[k].value # ""
  BY <1>1 DEF Keeps
<1> QED BY <1>2 DEF Named, Holds, k, kind, key

LEMMA RetouchedAddressed ==
    ASSUME NEW w, NEW u, Retouched(w, u, Address), Addressed(w)
    PROVE  Addressed(u)
<1> SUFFICES ASSUME NEW a \in Callers(u) PROVE a \notin Wrapped /\ Named(u.acts[a].props)
  BY DEF Addressed
<1>1. a \in Callers(w)
  BY RetouchedIs DEF Callers
<1>2. a \notin Wrapped /\ Named(w.acts[a].props) /\ a \in DOMAIN w.acts
  BY <1>1 DEF Addressed, Callers
<1>3. u.acts[a] = w.acts[a] \/ Keeps(w.acts[a].props, u.acts[a].props, Address)
  BY <1>2 DEF Retouched, Reworked
<1> QED BY <1>2, <1>3, NamedKept

LEMMA EditedAddressed ==
    ASSUME CallsNamed, NEW w, Made(w), Addressed(w), NEW u, Edited(w, u)
    PROVE  Addressed(u)
<1> SUFFICES ASSUME NEW a \in Callers(u) PROVE a \notin Wrapped /\ Named(u.acts[a].props)
  BY DEF Addressed
<1>1. a \in DOMAIN u.acts /\ u.acts[a].type = "ExecuteWorkflow" /\ Descends(w, u, a)
  BY EditedDescends DEF Callers
<1>2. CASE a \in DOMAIN w.acts /\ u.acts[a] = w.acts[a]
  <2>1. a \in Callers(w)
    BY <1>1, <1>2 DEF Callers
  <2> QED BY <1>2, <2>1 DEF Addressed
<1>3. ASSUME NEW part \in Parts, a = part.id, u.acts[a] = part.act
      PROVE  a \notin Wrapped /\ Named(u.acts[a].props)
  BY <1>1, <1>3 DEF CallsNamed
<1> QED BY <1>1, <1>2, <1>3 DEF Descends

LEMMA NewWorkflowAddressed == \A name : Callers(NewWorkflow(name)) = {}
<1> SUFFICES ASSUME NEW name PROVE Callers(NewWorkflow(name)) = {}
  OBVIOUS
<1> DEFINE w == NewWorkflow(name)
<1>1. \A a \in DOMAIN w.acts : w.acts[a] \in {FirstAction, DefaultNextAction}
  BY NewWorkflowMade
<1>2. /\ FirstAction.type # "ExecuteWorkflow"
      /\ DefaultNextAction.type # "ExecuteWorkflow"
  BY DEF FirstAction, DefaultNextAction, Action
<1> HIDE DEF w
<1>3. \A a \in DOMAIN w.acts : w.acts[a].type # "ExecuteWorkflow"
  BY <1>1, <1>2
<1> QED BY <1>3 DEF Callers, w

LEMMA CopyAddressed ==
    ASSUME CallsNamed, NEW w, Made(w), Addressed(w)
    PROVE  Addressed(Copy(w))
<1> DEFINE l == Copy(w)
           n == NewWorkflow(w.name)
<1> SUFFICES ASSUME NEW a \in Callers(l) PROVE a \notin Wrapped /\ Named(l.acts[a].props)
  BY DEF Addressed
<1>1. /\ DOMAIN l.acts = KnownActs(w) \cup FirstSteps
      /\ \A b \in KnownActs(w) : l.acts[b] = Remade(w, b)
      /\ \A b \in FirstSteps \ KnownActs(w) : l.acts[b] = n.acts[b]
  BY CopyIs
<1>2. DOMAIN n.acts = FirstSteps /\ Callers(n) = {}
  BY NewWorkflowMade, NewWorkflowAddressed
<1> HIDE DEF l, n
<1>3. a \in DOMAIN l.acts /\ l.acts[a].type = "ExecuteWorkflow"
  BY DEF Callers
<1>4. a \in KnownActs(w)
  <2>1. CASE a \in FirstSteps \ KnownActs(w)
    BY <1>1, <1>2, <1>3, <2>1 DEF Callers
  <2> QED BY <1>1, <1>3, <2>1
<1>5. w.acts[a].type = l.acts[a].type /\ a \in DOMAIN w.acts
  <2> DEFINE t == w.acts[a].type
  <2>1. t \in DOMAIN Types /\ Remade(w, a).type = Types[t].type /\ a \in DOMAIN w.acts
    BY <1>4, RemadeIs DEF KnownActs
  <2> HIDE DEF t
  <2>2. Types[t].type = t
    BY <2>1 DEF CallsNamed
  <2> QED BY <1>1, <1>4, <2>1, <2>2 DEF t
<1>6. a \notin Wrapped /\ Named(w.acts[a].props)
  BY <1>3, <1>5 DEF Addressed, Callers
<1>7. Named(l.acts[a].props)
  <2> DEFINE ps == w.acts[a].props
             qs == l.acts[a].props
             kind == "string"
             key == "workflow"
             k == <<kind, key>>
  <2>1. SavedProps(w, a) = ps
    BY <1>6 DEF SavedProps
  <2>2. /\ DOMAIN ps.props \subseteq DOMAIN qs.props
        /\ \A p \in DOMAIN ps.props : qs.props[p] = ReloadedValue(p[1], ps.props[p])
    BY <1>1, <1>4, <2>1, RemadeProps
  <2>3. k \in DOMAIN ps.props /\ ps.props[k].value # "" /\ k[1] = kind
    BY <1>6 DEF Named, Holds
  <2>4. ReloadedValue(kind, ps.props[k]) = ps.props[k]
    BY DEF ReloadedValue
  <2> HIDE DEF ps, qs, kind, key, k
  <2>5. k \in DOMAIN qs.props /\ qs.props[k].value # ""
    BY <2>2, <2>3, <2>4
  <2> QED BY <2>5 DEF Named, Holds, qs, k, kind, key
<1> QED BY <1>6, <1>7

LEMMA AddressedNext ==
    ASSUME CallsNamed, Hidden(Address), TypeInv(Address), AllAddressed, [Next]_vars
    PROVE  AllAddressed'
<1> SUFFICES ASSUME NEW x \in DOMAIN heap' PROVE Addressed(heap'[x])
  BY DEF AllAddressed
<1> DEFINE u == heap'[x]
<1>1. Becomes(x, Address)
  BY NextBecomes
<1>2. CASE x \in DOMAIN heap
  <2> DEFINE w == heap[x]
  <2>1. Made(w) /\ Addressed(w)
    BY <1>2 DEF TypeInv, TypeOK, AllAddressed
  <2>2. u = w \/ Edited(w, u) \/ Retouched(w, u, Address)
    BY <1>1, <1>2 DEF Becomes
  <2> HIDE DEF w, u
  <2>3. Addressed(u)
    BY <2>1, <2>2, EditedAddressed, RetouchedAddressed
  <2> QED BY <2>3 DEF u
<1>3. CASE x \notin DOMAIN heap
  <2>1. CASE \E name : u = NewWorkflow(name)
    BY <2>1, NewWorkflowAddressed DEF Addressed
  <2>2. CASE \E y \in DOMAIN heap : u = Copy(heap[y])
    <3>1. PICK y \in DOMAIN heap : u = Copy(heap[y])
      BY <2>2
    <3>2. Made(heap[y]) /\ Addressed(heap[y])
      BY DEF TypeInv, TypeOK, AllAddressed
    <3> QED BY <3>1, <3>2, CopyAddressed
  <2> QED BY <1>1, <1>3, <2>1, <2>2 DEF Becomes
<1> QED BY <1>2, <1>3

LEMMA FreshInit ==
    ASSUME Hidden(Address), CallsNamed, Init
    PROVE  FreshInv
<1> DEFINE c == Stocked
           N == Len(Stock)
<1>1. Shelved(c, N, Address) /\ heap = c.heap
  BY StockedIs DEF Hidden, Init
<1>2. DOMAIN sessions = {}
  BY DEF Init
<1> HIDE DEF c
<1>3. ASSUME NEW o \in DOMAIN heap PROVE Addressed(heap[o])
  <2> DEFINE w == Stock[o]
             u == heap[o]
  <2>1. o \in 1 .. N /\ Retouched(w, u, Address)
    BY <1>1 DEF Shelved
  <2>2. Addressed(w)
    BY <2>1 DEF CallsNamed
  <2> HIDE DEF w, u
  <2>3. Addressed(u)
    BY <2>1, <2>2, RetouchedAddressed
  <2> QED BY <2>3 DEF u
<1> QED BY <1>2, <1>3 DEF FreshInv, OwnProps, OwnNamed, AllAddressed, MarksChecked

\* Marking a call leaves the callee that is named.
LEMMA SignedNamed ==
    ASSUME NEW ps, IsProps(ps), NEW name
    PROVE  /\ Has(Signed(ps, name), "workflow") <=> Has(ps, "workflow")
           /\ Named(ps) => Named(Signed(ps, name))
<1> DEFINE kind == "string"
           key == "workflow"
           mark == Mark
           k == <<kind, key>>
           qs == Signed(ps, name)
<1>1. key # mark
  BY DEF Mark
<1>2. qs = Set(ps, kind, mark, name)
  BY DEF Signed
<1> HIDE DEF kind, key, mark, qs
<1>3. Has(qs, key) <=> Has(ps, key)
  BY <1>1, <1>2, SetHas
<1>4. k # <<kind, mark>>
  BY <1>1
<1> HIDE DEF k
<1>5. k \in DOMAIN ps.props => k \in DOMAIN qs.props /\ qs.props[k] = ps.props[k]
  <2> DEFINE at == <<kind, mark>>
             rs == Set(ps, kind, mark, name)
  <2>1. OneSet(ps, rs, at)
    BY SetIs
  <2>2. k # at
    BY <1>4
  <2> HIDE DEF at, rs
  <2>3. k \in DOMAIN ps.props => k \in DOMAIN rs.props /\ rs.props[k] = ps.props[k]
    BY <2>1, <2>2 DEF OneSet
  <2> QED BY <1>2, <2>3 DEF rs
<1>6. Named(ps) => Named(qs)
  BY <1>5 DEF Named, Holds, k, kind, key
<1> QED BY <1>3, <1>6 DEF key, qs

LEMMA OwnNamedNext ==
    ASSUME CallsNamed, OwnProps, OwnNamed, NEW keys, TypeInv(keys), [Next]_vars
    PROVE  OwnNamed'
<1> SUFFICES ASSUME NEW t \in DOMAIN sessions', NEW b \in DOMAIN sessions'[t].own,
                    Has(sessions'[t].own[b], "workflow")
             PROVE  Named(sessions'[t].own[b])
  BY DEF OwnNamed
<1> DEFINE x == sessions'[t].own[b]
<1>1. Brought(t, b)
  BY NextBrought
<1>2. CASE t \in DOMAIN sessions /\ b \in DOMAIN sessions[t].own /\ x = sessions[t].own[b]
  BY <1>2 DEF OwnNamed
<1>3. CASE \E r \in Requests : b \in DOMAIN r.bypass /\ x = r.bypass[b]
  BY <1>3 DEF CallsNamed
<1>4. ASSUME t \in DOMAIN sessions, NEW name, IsProps(Owned(t, b)), x = Signed(Owned(t, b), name)
      PROVE  Named(x)
  <2>1. Has(Owned(t, b), "workflow")
    BY <1>4, SignedNamed
  <2>2. ~Has(Unguarded, "workflow")
    BY EmptyFunction DEF Has, Holds, Unguarded
  <2>3. Named(Owned(t, b))
    BY <1>4, <2>1, <2>2 DEF Owned, OwnNamed
  <2> QED BY <1>4, <2>3, SignedNamed
<1> QED BY <1>1, <1>2, <1>3, <1>4 DEF Brought

\* Calls are found fit by being checked, one at a time.
LEMMA ChecksBecome ==
    ASSUME [Next]_vars
    PROVE  \/ UNCHANGED checks
           \/ \E s \in DOMAIN sessions : \E a \in Callers(heap[sessions[s].of]) :
                Check(s, a) /\ checks' = Append(checks, <<s, a>>)
<1>1. ASSUME NEW s \in DOMAIN sessions, NEW a \in Callers(heap[sessions[s].of]), Check(s, a)
      PROVE  UNCHANGED checks \/ checks' = Append(checks, <<s, a>>)
  BY <1>1 DEF Check
<1>2. ASSUME NEW o \in draft,
             \/ \E part \in Parts : AddAction(o, part)
             \/ \E starter \in Inputs : AddInput(o, starter)
             \/ \E z \in Shown : Expose(o, z) \/ UnexposeAlias(o, z)
             \/ \E id \in DOMAIN heap[o].exposed : Unexpose(o, id)
      PROVE  UNCHANGED checks
  BY <1>2, EditIs DEF Change
<1>3. ASSUME NEW o \in draft, AddWorkflow(o) PROVE UNCHANGED checks
  BY <1>3 DEF AddWorkflow
<1>4. ASSUME NEW name \in Names, StartDraft(name) \/ DropWorkflow(name) PROVE UNCHANGED checks
  BY <1>4 DEF StartDraft, DropWorkflow
<1>5. ASSUME NEW o \in DOMAIN heap, SaveLoad(o) PROVE UNCHANGED checks
  BY <1>5 DEF SaveLoad
<1>6. ASSUME NEW s \in Sessions, NEW r \in Requests, OpenSession(s, r) PROVE UNCHANGED checks
  BY <1>6 DEF OpenSession
<1>7. CASE UNCHANGED vars
  BY <1>7 DEF vars
<1> QED BY <1>1, <1>2, <1>3, <1>4, <1>5, <1>6, <1>7 DEF Next

LEMMA AppendIs ==
    ASSUME NEW S, NEW q \in Seq(S), NEW e
    PROVE  Range(Append(q, e)) = Range(q) \cup {e} /\ Append(q, e) # q
<1> DEFINE r == Append(q, e)
<1>1. /\ Len(q) \in Nat /\ DOMAIN q = 1 .. Len(q) /\ DOMAIN r = 1 .. Len(q) + 1
      /\ \A i \in 1 .. Len(q) : r[i] = q[i]
      /\ r[Len(q) + 1] = e
  OBVIOUS
<1> HIDE DEF r
<1>2. DOMAIN r = DOMAIN q \cup {Len(q) + 1} /\ Len(q) + 1 \notin DOMAIN q
  BY <1>1
<1>3. Range(r) = Range(q) \cup {e}
  BY <1>1, <1>2 DEF Range
<1> QED BY <1>2, <1>3 DEF r

LEMMA MarksNext ==
    ASSUME CallsNamed, OwnProps, MarksChecked, NEW keys, TypeInv(keys), [Next]_vars
    PROVE  MarksChecked'
<1>0. \E S : checks \in Seq(S)
  BY DEF TypeInv, TypeOK
<1>1. Range(checks) \subseteq Range(checks')
  <2>1. ASSUME NEW e, checks' = Append(checks, e)
        PROVE  Range(checks) \subseteq Range(checks')
    BY <1>0, <2>1, AppendIs
  <2> QED BY <2>1, ChecksBecome
<1> SUFFICES ASSUME NEW t \in DOMAIN sessions', NEW b \in DOMAIN sessions'[t].own,
                    Inscribed(sessions'[t].own[b]) # ""
             PROVE  <<t, b>> \in Range(checks')
  BY DEF MarksChecked
<1> DEFINE x == sessions'[t].own[b]
<1>2. Brought(t, b)
  BY NextBrought
<1>3. CASE t \in DOMAIN sessions /\ b \in DOMAIN sessions[t].own /\ x = sessions[t].own[b]
  BY <1>1, <1>3 DEF MarksChecked
<1>4. CASE \E r \in Requests : b \in DOMAIN r.bypass /\ x = r.bypass[b]
  <2>1. ~Has(x, Mark)
    BY <1>4 DEF CallsNamed
  <2>2. Inscribed(x) = ""
    <3> DEFINE mark == Mark
    <3> HIDE DEF mark
    <3>1. ~Holds(x, "string", mark)
      BY <2>1 DEF Has, Kind, mark
    <3> QED BY <3>1 DEF Inscribed, Get, mark
  <2> QED BY <2>2
<1>5. CASE t \in DOMAIN sessions /\ checks' = Append(checks, <<t, b>>)
  <2> DEFINE e == <<t, b>>
  <2>1. checks' = Append(checks, e)
    BY <1>5
  <2> HIDE DEF e
  <2>2. e \in Range(checks')
    <3>1. PICK S : checks \in Seq(S)
      BY <1>0
    <3>2. Range(Append(checks, e)) = Range(checks) \cup {e}
      BY <3>1, AppendIs
    <3> QED BY <2>1, <3>2
  <2> QED BY <2>2 DEF e
<1> QED BY <1>2, <1>3, <1>4, <1>5 DEF Brought

\* What a session reads as the callee of a call is a name.
LEMMA CalleeNamed ==
    ASSUME OwnNamed, NEW s \in DOMAIN sessions, NEW a,
           Named(heap[sessions[s].of].acts[a].props)
    PROVE  Callee(LayersOf(s, a)) # ""
<1> DEFINE kind == "string"
           key == "workflow"
           none == ""
           own == sessions[s].own
           w == heap[sessions[s].of]
<1>1. ASSUME NEW ps, Named(ps) PROVE Has(ps, key) /\ Get(ps, kind, key, none) # none
  BY <1>1 DEF Named, Has, Holds, Get, Kind
<1>2. a \in DOMAIN own /\ Has(own[a], key) => Named(own[a])
  BY DEF OwnNamed
<1>3. Callee(LayersOf(s, a)) = Read(LayersOf(s, a), kind, key, none)
  BY DEF Callee
<1> HIDE DEF kind, key, none
<1>4. Read(LayersOf(s, a), kind, key, none)
      = IF a \in DOMAIN own /\ Has(own[a], key) THEN Get(own[a], kind, key, none)
        ELSE Read(OwnLayers(w, a), kind, key, none)
  BY LayersRead
<1>5. Read(OwnLayers(w, a), kind, key, none) # none
  <2> DEFINE ps == w.acts[a].props
  <2>1. OwnLayers(w, a) = <<ps>> /\ Named(ps)
    BY DEF OwnLayers
  <2> HIDE DEF ps
  <2>2. Read(<<ps>>, kind, key, none)
        = IF Has(ps, key) THEN Get(ps, kind, key, none) ELSE Get(Unguarded, kind, key, none)
    BY OwnRead
  <2> QED BY <1>1, <2>1, <2>2
<1> HIDE DEF own, w
<1>6. Read(LayersOf(s, a), kind, key, none) # none
  BY <1>1, <1>2, <1>4, <1>5
<1> QED BY <1>3, <1>6 DEF none

LEMMA CheckFresh ==
    ASSUME TypeInv(Address), FreshInv, NEW s \in DOMAIN sessions,
           NEW a \in Callers(heap[sessions[s].of]), Check(s, a), Checked(s, a),
           <<s, a>> \notin Range(checks)
    PROVE  Refreshed(s, a)
<1> DEFINE o == sessions[s].of
           name == Callee(LayersOf(s, a))
           c == workflows[name]
<1> SUFFICES ASSUME Dynamic(LayersOf(s, a))
             PROVE  name \in DOMAIN workflows /\ Fresh(heap', o, a, name)
  BY DEF Refreshed
<1>1. /\ o \in DOMAIN heap
      /\ Touched(heap, heap', o, Address)
      /\ OnlyAct(heap[o], heap'[o], a)
      /\ UNCHANGED workflows
      /\ \/ StillPrepared(s, a)
         \/ name \in DOMAIN workflows /\ Agrees(heap, heap', o, a, c)
         \/ UNCHANGED checks
  BY CheckIs
<1>2. checks' # checks
  <2>1. PICK S : checks \in Seq(S)
    BY DEF TypeInv, TypeOK
  <2> DEFINE e == <<s, a>>
  <2>2. checks' = Append(checks, e)
    BY DEF Checked
  <2> HIDE DEF e
  <2> QED BY <2>1, <2>2, AppendIs
<1>3. ~StillPrepared(s, a)
  <2>1. Marked(s, a) = ""
    <3>1. CASE a \in DOMAIN sessions[s].own
      <4>1. Inscribed(sessions[s].own[a]) = ""
        BY <3>1 DEF FreshInv, MarksChecked
      <4> QED BY <3>1, <4>1 DEF Marked, Inscribed
    <3>2. CASE a \notin DOMAIN sessions[s].own
      BY <3>2 DEF Marked
    <3> QED BY <3>1, <3>2
  <2>2. name # ""
    <3>1. Named(heap[o].acts[a].props)
      BY <1>1 DEF FreshInv, AllAddressed, Addressed
    <3> QED BY <3>1, CalleeNamed DEF FreshInv
  <2> QED BY <2>1, <2>2 DEF StillPrepared
<1>4. name \in DOMAIN workflows /\ Agrees(heap, heap', o, a, c)
  BY <1>1, <1>2, <1>3
<1>5. c \in DOMAIN heap /\ HeapMade(heap, Address)
  BY <1>4 DEF TypeInv, TypeOK
<1> HIDE DEF o, name, c
<1>6. heap'[o].acts[a].takes = InputsOf(heap'[c]) /\ heap'[o].acts[a].offers = OutputsOf(heap'[c])
  <2>1. a \in Callers(heap[o])
    BY DEF o
  <2> QED BY <1>1, <1>4, <1>5, <2>1, AgreesIsFresh
<1> QED BY <1>4, <1>6 DEF Fresh, c

LEMMA FirstFresh ==
    ASSUME TypeInv(Address), FreshInv, [Next]_vars, NEW s \in DOMAIN sessions,
           NEW a \in Callers(heap[sessions[s].of]), Checked(s, a), <<s, a>> \notin Range(checks)
    PROVE  Refreshed(s, a)
<1>1. PICK S : checks \in Seq(S)
  BY DEF TypeInv, TypeOK
<1>2. checks' # checks
  <2> DEFINE e == <<s, a>>
  <2>1. checks' = Append(checks, e)
    BY DEF Checked
  <2> HIDE DEF e
  <2> QED BY <1>1, <2>1, AppendIs
<1>3. PICK t \in DOMAIN sessions :
        \E b \in Callers(heap[sessions[t].of]) : Check(t, b) /\ checks' = Append(checks, <<t, b>>)
  BY <1>2, ChecksBecome
<1>4. PICK b \in Callers(heap[sessions[t].of]) :
        Check(t, b) /\ checks' = Append(checks, <<t, b>>)
  BY <1>3
<1>5. <<t, b>> = <<s, a>>
  <2> DEFINE e == <<s, a>>
             f == <<t, b>>
  <2>1. checks' = Append(checks, e) /\ checks' = Append(checks, f)
    BY <1>4 DEF Checked
  <2> HIDE DEF e, f
  <2>2. Append(checks, e)[Len(checks) + 1] = e /\ Append(checks, f)[Len(checks) + 1] = f
    BY <1>1
  <2>3. e = f
    BY <2>1, <2>2
  <2> QED BY <2>3 DEF e, f
<1>6. t = s /\ b = a
  BY <1>5
<1> QED BY <1>4, <1>6, CheckFresh

\* The first time a session checks a dynamic call it goes by what its callee takes
\* and offers at that time, even if callees are replaced and other sessions ask
\* the same call for others, as long as every call names its callee.
THEOREM FirstCheckIsFresh ==
    ASSUME Hidden(Address), CallsNamed
    PROVE  Spec => FirstCheckFresh
<1>1. Init => TypeInv(Address) /\ FreshInv
  BY InitTyped, FreshInit
<1>2. TypeInv(Address) /\ FreshInv /\ [Next]_vars => (TypeInv(Address) /\ FreshInv)'
  <2> SUFFICES ASSUME TypeInv(Address), FreshInv, [Next]_vars
               PROVE  TypeInv(Address)' /\ FreshInv'
    OBVIOUS
  <2>1. OwnProps /\ OwnNamed /\ AllAddressed /\ MarksChecked
    BY DEF FreshInv
  <2>2. TypeInv(Address)'
    BY NextTyped
  <2>3. OwnProps' /\ OwnNamed' /\ MarksChecked'
    BY <2>1, OwnPropsNext, OwnNamedNext, MarksNext
  <2>4. AllAddressed'
    BY <2>1, AddressedNext
  <2> QED BY <2>2, <2>3, <2>4 DEF FreshInv
<1>3. TypeInv(Address) /\ FreshInv /\ [Next]_vars
      => [\A s \in DOMAIN sessions : \A a \in Callers(heap[sessions[s].of]) :
            Checked(s, a) /\ <<s, a>> \notin Range(checks) => Refreshed(s, a)]_vars
  BY FirstFresh
<1> QED BY <1>1, <1>2, <1>3, PTL DEF Spec, FirstCheckFresh

=============================================================================
