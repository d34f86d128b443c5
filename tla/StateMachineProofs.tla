------------------------- MODULE StateMachineProofs -------------------------
(***************************************************************************)
(* What StateMachine promises for every workflow, every set of threads and *)
(* every bound.                                                            *)
(***************************************************************************)
EXTENDS StateMachine, TLAPS, WellFoundedInduction, FiniteSetTheorems

-----------------------------------------------------------------------------
(* A set of ids has a least member: the walk over std::set<int32_t> finds  *)
(* one.                                                                    *)

Below == {ss \in Nat \X Nat : ss[1] < ss[2]}

LEMMA NatLeast ==
    ASSUME NEW T, T \subseteq Nat, T # {}
    PROVE  \E x \in T : \A y \in T : x <= y
<1>1. IsWellFoundedOn(Below, Nat)
  BY NatLessThanWellFounded DEF OpToRel, Below
<1>2. PICK x \in T : \A y \in T : ~ (<<y, x>> \in Below)
  BY <1>1, WFMin
<1>3. \A y \in T : x <= y
  <2>1. TAKE y \in T
  <2>2. x \in Nat /\ y \in Nat
    OBVIOUS
  <2>3. ~ (y < x)
    BY <1>2, <2>2 DEF Below
  <2> QED BY <2>2, <2>3
<1> QED BY <1>3

LEMMA IdsInt == \A a \in Ids : a \in Int /\ a + 1666 \in Nat
<1>1. ASSUME NEW a \in UserIds PROVE a \in Int /\ a + 1666 \in Nat
  <2>1. a \in Nat
    BY ConstantsAssumption DEF ConstantsAssumption
  <2> QED BY <2>1
<1>2. \A a \in StepIds : a \in Int /\ a + 1666 \in Nat
  BY DEF StepIds, Die, Cleanup, Error, Finish, Interrupt
<1> QED BY <1>1, <1>2 DEF Ids

LEMMA LeastId ==
    ASSUME NEW S, S \subseteq Ids, S # {}
    PROVE  /\ Least(S) \in S
           /\ \A y \in S : Least(S) <= y
<1> DEFINE T == {x + 1666 : x \in S}
<1>1. T \subseteq Nat /\ T # {}
  BY IdsInt
<1>2. PICK m \in T : \A y \in T : m <= y
  BY <1>1, NatLeast
<1>3. PICK x \in S : m = x + 1666
  BY <1>2
<1>4. \A y \in S : x <= y
  <2>1. TAKE y \in S
  <2>2. x \in Int /\ y \in Int /\ x + 1666 <= y + 1666
    BY <1>2, <1>3, IdsInt
  <2> QED BY <2>2
<1>5. \E z \in S : \A y \in S : z <= y
  BY <1>3, <1>4
<1> QED BY <1>5 DEF Least

\* getNext and getNextPending return a member of the set they walk.
LEMMA FirstOfIn ==
    ASSUME NEW S, S \subseteq Ids, S # {}
    PROVE  FirstOf(S) \in S
<1>1. Least(S) \in S
  BY LeastId
<1>2. ASSUME S # {Least(S)} PROVE Least(S \ {Least(S)}) \in S
  <2>1. S \ {Least(S)} # {} /\ S \ {Least(S)} \subseteq Ids
    BY <1>1, <1>2
  <2>2. Least(S \ {Least(S)}) \in S \ {Least(S)}
    BY <2>1, LeastId
  <2> QED BY <2>2
<1> QED BY <1>1, <1>2 DEF FirstOf

-----------------------------------------------------------------------------
(* Type correctness. *)

\* A thread that runs or binds an action has one, and counts from 1.
Walks ==
    \A t \in Threads :
        /\ ctl[t].at \in {"exec", "result", "bind"} => ctl[t].act \in Ids
        /\ ctl[t].at \in {"start", "bind"} => ctl[t].n >= 1

TypeInv == TypeOK /\ Walks

LEMMA StepsAreIds ==
    /\ {Die, Cleanup, Error, Finish, Interrupt} \subseteq Ids
    /\ UserIds \subseteq Ids
  BY DEF Ids, StepIds

LEMMA Layout == TypeOK => LayoutOK(wf)
  BY LayoutsAssumption DEF LayoutsAssumption, TypeOK

LEMMA AtIsControl ==
    ASSUME NEW place \in Places, NEW a \in Ids \cup {None}
    PROVE  /\ At(place, a) \in Control
           /\ At(place, a).at = place /\ At(place, a).act = a
  BY DEF At, Control, Results

\* Moving one thread to a well-formed place keeps every thread well-formed.
LEMMA GoKeepsWalks ==
    ASSUME TypeInv, NEW t \in Threads, NEW c \in Control, Go(t, c),
           c.at \in {"exec", "result", "bind"} => c.act \in Ids,
           c.at \in {"start", "bind"} => c.n >= 1
    PROVE  ctl' \in [Threads -> Control] /\ Walks'
<1>1. ctl' = [ctl EXCEPT ![t] = c] /\ ctl \in [Threads -> Control]
  BY DEF Go, TypeInv, TypeOK
<1>2. ctl' \in [Threads -> Control]
  BY <1>1
<1>3. ASSUME NEW u \in Threads
      PROVE  /\ ctl'[u].at \in {"exec", "result", "bind"} => ctl'[u].act \in Ids
             /\ ctl'[u].at \in {"start", "bind"} => ctl'[u].n >= 1
  <2>1. CASE u = t
    BY <1>1, <2>1
  <2>2. CASE u # t
    <3>1. ctl'[u] = ctl[u]
      BY <1>1, <2>2
    <3> QED BY <3>1 DEF TypeInv, Walks
  <2> QED BY <2>1, <2>2
<1> QED BY <1>2, <1>3 DEF Walks

LEMMA AllUnplannedType == TypeOK => AllUnplanned \in [Ids -> Statuses]
  BY DEF AllUnplanned, Statuses

LEMMA OverlayType ==
    ASSUME TypeOK, NEW a \in Ids, NEW y \in wf.yields[a]
    PROVE  Overlay(a, y) \in [Ids -> [Puts -> Values]]
<1>1. PICK P \in SUBSET Puts : y \in [P -> Values]
  BY Layout DEF LayoutOK
<1>2. [p \in Puts |-> IF p \in DOMAIN y THEN y[p] ELSE outputs[a][p]] \in [Puts -> Values]
  BY <1>1 DEF TypeOK
<1> QED BY <1>2 DEF Overlay, TypeOK

LEMMA LaunchType ==
    ASSUME TypeOK, NEW a \in Ids, NEW r, NEW lvl \in Nat,
           NEW rest, rest \subseteq Sub, NEW restAsync, restAsync \subseteq Operation,
           Launch(a, r, lvl, rest, restAsync)
    PROVE  launched' \in Nat /\ subs' \subseteq Sub /\ asyncs' \subseteq Operation
<1>1. launched' \in Nat
  BY DEF Launch, TypeOK
<1>2. AnswersPerSub \in Nat
  BY ConstantsAssumption DEF ConstantsAssumption
<1>3. subs' \subseteq Sub
  BY <1>1, <1>2 DEF Launch, Sub
<1>4. asyncs' \subseteq Operation
  BY <1>1 DEF Launch, Operation
<1> QED BY <1>1, <1>3, <1>4

LEMMA SpentType ==
    ASSUME TypeOK, NEW s \in subs
    PROVE  Spent(s) \subseteq Sub
<1>1. s \in Sub /\ subs \subseteq Sub
  BY DEF TypeOK
<1>2. ASSUME s.left > 1 PROVE [s EXCEPT !.left = @ - 1] \in Sub
  BY <1>1, <1>2 DEF Sub
<1> QED BY <1>1, <1>2 DEF Spent

LEMMA ResumeType ==
    ASSUME TypeInv, NEW t \in Threads, NEW a \in Ids,
           NEW rest, rest \subseteq Sub, NEW restAsync, restAsync \subseteq Operation,
           Resume(t, a, rest, restAsync)
    PROVE  /\ outputs' \in [Ids -> [Puts -> Values]]
           /\ launched' \in Nat /\ subs' \subseteq Sub /\ asyncs' \subseteq Operation
           /\ ctl' \in [Threads -> Control] /\ Walks'
<1>1. PICK r \in wf.later[a], y \in wf.yields[a] :
        /\ outputs' = Overlay(a, y)
        /\ Launch(a, r, level, rest, restAsync)
        /\ Go(t, [At("result", a) EXCEPT !.res = r])
  BY DEF Resume
<1>2. outputs' \in [Ids -> [Puts -> Values]]
  BY <1>1, OverlayType DEF TypeInv
<1>3. launched' \in Nat /\ subs' \subseteq Sub /\ asyncs' \subseteq Operation
  BY <1>1, LaunchType DEF TypeInv, TypeOK
<1>4. r \in Results
  BY Layout DEF LayoutOK, TypeInv
<1> DEFINE c == [At("result", a) EXCEPT !.res = r]
<1>5. c \in Control /\ c.at = "result" /\ c.act = a
  BY <1>4 DEF At, Control, Places
<1> HIDE DEF c
<1>6. ctl' \in [Threads -> Control] /\ Walks'
  BY <1>1, <1>5, GoKeepsWalks DEF c
<1> QED BY <1>2, <1>3, <1>6

\* Every link of the chain of calls.
LEMMA StepKeepsType ==
    ASSUME TypeInv, NEW t \in Threads, Step(t)
    PROVE  TypeInv'
<1> USE DEF tables, puts, caller, work
<1>0. TypeOK /\ LayoutOK(wf) /\ ctl[t] \in Control
  BY Layout DEF TypeInv, TypeOK
<1>1. CASE ScheduleStarter(t)
  <2> DEFINE n == ctl[t].n
             c == [ctl[t] EXCEPT !.n = @ + 1]
  <2>1. n \in 1 .. Len(wf.starters)
    BY <1>0, <1>1 DEF ScheduleStarter, IsAt, TypeInv, Walks, Control
  <2>2. wf.starters[n].act \in Ids
    BY <1>0, <2>1 DEF LayoutOK, Starter, Ids
  <2>3. c \in Control /\ c.at = "start" /\ c.n >= 1
    BY <1>0, <1>1, <2>1 DEF ScheduleStarter, IsAt, Control
  <2>4. ctl' \in [Threads -> Control] /\ Walks'
    <3>1. Go(t, c)
      BY <1>1 DEF ScheduleStarter
    <3> HIDE DEF c
    <3> QED BY <2>3, <3>1, GoKeepsWalks
  <2>5. status' \in [Ids -> Statuses] /\ nexts' \subseteq Ids /\ pendings' \subseteq Ids
    BY <1>0, <1>1, <2>2 DEF ScheduleStarter, TypeOK, Statuses
  <2> QED BY <1>0, <1>1, <2>4, <2>5 DEF ScheduleStarter, TypeInv, TypeOK
<1>2. CASE StartersDone(t)
  <2>1. ctl' \in [Threads -> Control] /\ Walks'
    <3>1. Go(t, At("next", None))
      BY <1>2 DEF StartersDone
    <3> QED BY <3>1, AtIsControl, GoKeepsWalks DEF Places
  <2> QED BY <1>0, <1>2, <2>1 DEF StartersDone, TypeInv, TypeOK
<1>3. CASE Promote(t)
  <2>1. FirstOf(pendings) \in Ids
    BY <1>0, <1>3, FirstOfIn DEF Promote, Promotes, TypeOK
  <2>2. status' \in [Ids -> Statuses] /\ nexts' \subseteq Ids /\ pendings' \subseteq Ids
    BY <1>0, <1>3, <2>1 DEF Promote, TypeOK, Statuses
  <2> QED BY <1>0, <1>3, <2>2 DEF Promote, TypeInv, TypeOK, Walks
<1>4. CASE Pick(t)
  <2>1. FirstOf(nexts) \in Ids
    BY <1>0, <1>4, FirstOfIn DEF Pick, TypeOK
  <2>2. ctl' \in [Threads -> Control] /\ Walks'
    <3>1. Go(t, At("exec", FirstOf(nexts)))
      BY <1>4 DEF Pick
    <3> QED BY <2>1, <3>1, AtIsControl, GoKeepsWalks DEF Places
  <2> QED BY <1>0, <1>4, <2>2 DEF Pick, TypeInv, TypeOK
<1>5. CASE NothingToExecute(t)
  <2> DEFINE a == IF FinishReached THEN Finish ELSE Error
  <2>1. a \in Ids
    BY StepsAreIds
  <2>2. /\ nexts' = {a} /\ status' = [status EXCEPT ![a] = "Planned"]
        /\ Go(t, At("exec", a))
    BY <1>5 DEF NothingToExecute
  <2> HIDE DEF a
  <2>3. ctl' \in [Threads -> Control] /\ Walks'
    BY <2>1, <2>2, AtIsControl, GoKeepsWalks DEF Places
  <2>4. status' \in [Ids -> Statuses] /\ nexts' \subseteq Ids
    BY <1>0, <2>1, <2>2 DEF TypeOK, Statuses
  <2> QED BY <1>0, <1>5, <2>3, <2>4 DEF NothingToExecute, TypeInv, TypeOK
<1>6. CASE EndSession(t)
  <2>1. ctl' \in [Threads -> Control] /\ Walks'
    <3>1. Go(t, At("idle", None))
      BY <1>6 DEF EndSession, Idle
    <3> QED BY <3>1, AtIsControl, GoKeepsWalks DEF Places
  <2> QED BY <1>0, <1>6, <2>1 DEF EndSession, TypeInv, TypeOK
<1>7. CASE Execute(t)
  <2> DEFINE a == ctl[t].act
  <2>1. a \in Ids
    BY <1>7 DEF Execute, IsAt, TypeInv, Walks
  <2>2. PICK r \in wf.does[a], y \in wf.yields[a] :
          /\ outputs' = Overlay(a, y)
          /\ Launch(a, r, level', subs, asyncs)
          /\ Go(t, [At("result", a) EXCEPT !.res = r])
    BY <1>7 DEF Execute
  <2>3. level' \in Nat
    BY <1>0, <1>7 DEF Execute, TypeOK
  <2>4. status' \in [Ids -> Statuses] /\ nexts' \subseteq Ids /\ pendings' \subseteq Ids
    BY <1>0, <1>7, <2>1, AllUnplannedType DEF Execute, TypeOK, Statuses
  <2>5. answers' \in Seq({"Reply", "Error"})
    <3>1. Answer(a) \in Seq({"Reply", "Error"})
      <4>1. Answer(a) \in {<<"Reply">>, <<"Error">>, << >>}
        BY DEF Answer
      <4>2. {<<"Reply">>, <<"Error">>, << >>} \subseteq Seq({"Reply", "Error"})
        OBVIOUS
      <4> QED BY <4>1, <4>2
    <3>2. answers' = answers \o Answer(a) /\ answers \in Seq({"Reply", "Error"})
      BY <1>0, <1>7 DEF Execute, TypeOK
    <3> HIDE DEF a
    <3> QED BY <3>1, <3>2
  <2>6. outputs' \in [Ids -> [Puts -> Values]]
    BY <1>0, <2>1, <2>2, OverlayType
  <2>7. launched' \in Nat /\ subs' \subseteq Sub /\ asyncs' \subseteq Operation
    BY <1>0, <2>1, <2>2, <2>3, LaunchType DEF TypeOK
  <2> DEFINE c == [At("result", a) EXCEPT !.res = r]
  <2>8. c \in Control /\ c.at = "result" /\ c.act = a
    <3>1. r \in Results
      BY <1>0, <2>1, <2>2 DEF LayoutOK
    <3> QED BY <2>1, <3>1 DEF At, Control, Places
  <2>9. ctl' \in [Threads -> Control] /\ Walks'
    <3>1. Go(t, c)
      BY <2>2
    <3> HIDE DEF c
    <3> QED BY <2>1, <2>8, <3>1, GoKeepsWalks
  <2> QED BY <1>0, <1>7, <2>3, <2>4, <2>5, <2>6, <2>7, <2>9
         DEF Execute, TypeInv, TypeOK
<1>8. CASE ContractBroken(t) \/ ActionFails(t)
  <2>1. Go(t, At("exec", Error))
    BY <1>8 DEF ContractBroken, ActionFails
  <2>2. ctl' \in [Threads -> Control] /\ Walks'
    BY <2>1, AtIsControl, StepsAreIds, GoKeepsWalks DEF Places
  <2>3. status' \in [Ids -> Statuses]
    BY <1>0, <1>8 DEF ContractBroken, ActionFails, TypeOK, Statuses
  <2> QED BY <1>0, <1>8, <2>2, <2>3
         DEF ContractBroken, ActionFails, TypeInv, TypeOK
<1>9. CASE ActionDone(t)
  <2> DEFINE c == [ctl[t] EXCEPT !.at = "bind", !.n = 1]
  <2>1. c \in Control /\ c.act \in Ids /\ c.n = 1
    BY <1>0, <1>9 DEF ActionDone, IsAt, TypeInv, Walks, Control, Places
  <2>2. ctl' \in [Threads -> Control] /\ Walks'
    <3>1. Go(t, c)
      BY <1>9 DEF ActionDone
    <3> HIDE DEF c
    <3> QED BY <2>1, <3>1, GoKeepsWalks
  <2>3. status' \in [Ids -> Statuses]
    BY <1>0, <1>9 DEF ActionDone, TypeOK, Statuses
  <2> QED BY <1>0, <1>9, <2>2, <2>3 DEF ActionDone, TypeInv, TypeOK
<1>10. CASE ActionSuspends(t)
  <2>1. Go(t, At("idle", None))
    BY <1>10 DEF ActionSuspends, Idle
  <2>2. ctl' \in [Threads -> Control] /\ Walks'
    BY <2>1, AtIsControl, GoKeepsWalks DEF Places
  <2>3. status' \in [Ids -> Statuses]
    BY <1>0, <1>10 DEF ActionSuspends, TypeOK, Statuses
  <2> QED BY <1>0, <1>10, <2>2, <2>3 DEF ActionSuspends, TypeInv, TypeOK
<1>11. CASE Bind(t)
  <2> DEFINE a == ctl[t].act
             n == ctl[t].n
             b == wf.out[a][n]
             c == [ctl[t] EXCEPT !.n = @ + 1]
  <2>1. a \in Ids /\ n \in 1 .. Len(wf.out[a])
    <3>1. a \in Ids /\ n >= 1 /\ n <= Len(wf.out[a])
      BY <1>11 DEF Bind, IsAt, TypeInv, Walks
    <3>2. n \in Nat
      BY <1>0 DEF Control
    <3>3. Len(wf.out[a]) \in Nat
      BY <1>0, <3>1 DEF LayoutOK
    <3> QED BY <3>1, <3>2, <3>3
  <2>2. b \in Binding
    BY <1>0, <2>1 DEF LayoutOK
  <2>3. ctl' \in [Threads -> Control] /\ Walks'
    <3>1. Go(t, c)
      BY <1>11 DEF Bind
    <3>2. ctl[t].at = "bind" /\ n \in Nat
      BY <1>0, <1>11 DEF Bind, IsAt, Control
    <3>3. c \in Control /\ c.at = "bind" /\ c.act = a /\ c.n = n + 1
      BY <1>0, <3>2 DEF Control
    <3> HIDE DEF c, a, n
    <3> QED BY <2>1, <3>1, <3>2, <3>3, GoKeepsWalks
  <2>4. inputs' \in [Ids -> [Puts -> Values]]
    <3>1. outputs[a][b.from] \in Values /\ b.in \in Puts
      BY <1>0, <2>1, <2>2 DEF TypeOK, Binding
    <3>2. \/ inputs' = [inputs EXCEPT ![b.to][b.in] = outputs[a][b.from]]
          \/ inputs' = inputs
      BY <1>11 DEF Bind
    <3> HIDE DEF b
    <3>3. inputs \in [Ids -> [Puts -> Values]]
      BY <1>0 DEF TypeOK
    <3> DEFINE to == b.to
               in == b.in
               v == outputs[a][b.from]
    <3>4. in \in Puts /\ v \in Values
      BY <3>1
    <3>5. inputs' = [inputs EXCEPT ![to][in] = v] \/ inputs' = inputs
      BY <3>2
    <3> HIDE DEF to, in, v
    <3> QED BY <3>3, <3>4, <3>5
  <2>5. status' \in [Ids -> Statuses] /\ nexts' \subseteq Ids /\ pendings' \subseteq Ids
    <3>1. \E place \in {"Skipped", "Planned", "Pending", "Unplanned"} : Place(b.to, place)
      BY <1>11 DEF Bind, Verdicts
    <3> HIDE DEF b
    <3> QED BY <1>0, <2>2, <3>1 DEF Place, TypeOK, Statuses, Binding
  <2> QED BY <1>0, <1>11, <2>3, <2>4, <2>5 DEF Bind, TypeInv, TypeOK
<1>12. CASE BindDone(t)
  <2>1. Go(t, At("exec", Finish)) \/ Go(t, At("next", None))
    BY <1>12 DEF BindDone
  <2>2. ctl' \in [Threads -> Control] /\ Walks'
    BY <2>1, AtIsControl, StepsAreIds, GoKeepsWalks DEF Places
  <2> QED BY <1>0, <1>12, <2>2 DEF BindDone, TypeInv, TypeOK
<1> QED BY <1>1, <1>2, <1>3, <1>4, <1>5, <1>6, <1>7, <1>8, <1>9, <1>10, <1>11,
           <1>12 DEF Step

LEMMA ImposeType ==
    ASSUME TypeOK, NEW a \in Ids, Impose(a)
    PROVE  /\ status' \in [Ids -> Statuses] /\ nexts' \subseteq Ids
           /\ pendings' \subseteq Ids /\ late' \in BOOLEAN
           /\ answers' \in Seq({"Reply", "Error"}) /\ ended' \in BOOLEAN
<1>1. AllUnplanned \in [Ids -> Statuses] /\ "Planned" \in Statuses
  BY AllUnplannedType DEF Statuses
<1>2. status' \in [Ids -> Statuses]
  BY <1>1 DEF Impose
<1>3. nexts' \subseteq Ids /\ pendings' \subseteq Ids
  BY DEF Impose
<1>4. late' \in BOOLEAN
  BY DEF Impose, TypeOK
<1>5. answers' \in Seq({"Reply", "Error"}) /\ ended' \in BOOLEAN
  BY DEF Impose, TypeOK
<1> QED BY <1>2, <1>3, <1>4, <1>5

\* The request's context is taken under a name that a starter reads.
LEMMA StarterInputType ==
    ASSUME TypeOK, NEW a, NEW p, NEW given \in [Given -> Values]
    PROVE  /\ StarterInput(a, p, given) \in Values
           /\ a \notin UserIds => StarterInput(a, p, given) = "nil"
<1> DEFINE N == Len(wf.starters)
           hits == {i \in 1 .. N : /\ wf.starters[i].act = a /\ wf.starters[i].in = p
                                  /\ p # "" /\ wf.starters[i].from # ""}
           last == CHOOSE i \in hits : \A j \in hits : j <= i
<1>0. wf.starters \in Seq(Starter) /\ N \in Nat
  BY Layout DEF LayoutOK
<1>1. CASE hits = {}
  BY <1>1 DEF StarterInput, Values
<1>2. CASE hits # {}
  <2>0. /\ hits \subseteq 1 .. N
        /\ \A i \in hits : wf.starters[i].act = a
        /\ StarterInput(a, p, given) = given[wf.starters[last].from]
    BY <1>2 DEF StarterInput
  <2> HIDE DEF hits, N
  <2> DEFINE T == {N - i : i \in hits}
  <2>1. T \subseteq Nat /\ T # {}
    <3>1. ASSUME NEW i \in hits
          PROVE  N - i \in Nat
      <4>1. i \in 1 .. N
        BY <2>0
      <4>2. N \in Nat
        BY <1>0
      <4> HIDE DEF last, T
      <4> QED BY <4>1, <4>2
    <3> QED BY <1>2, <3>1
  <2>2. PICK m \in T : \A y \in T : m <= y
    BY <2>1, NatLeast
  <2>3. PICK i \in hits : m = N - i
    BY <2>2
  <2>4. \A j \in hits : j <= i
    <3>1. TAKE j \in hits
    <3>2. N - i <= N - j
      BY <2>2, <2>3
    <3>3. i \in 1 .. N /\ j \in 1 .. N
      BY <2>0
    <3> QED BY <1>0, <3>2, <3>3
  <2>5. last \in hits
    BY <2>3, <2>4
  <2> USE DEF N
  <2>7. wf.starters[last] \in Starter /\ wf.starters[last].act = a /\ last \in 1 .. N
    <3> HIDE DEF last
    <3> QED BY <1>0, <2>0, <2>5
  <2>8. wf.starters[last].from \in Given /\ a \in UserIds
    BY <2>7 DEF Given, Starter
  <2> QED BY <2>0, <2>8
<1> QED BY <1>1, <1>2

\* Requests from outside: every target, to every state of the session.
LEMMA RequestKeepsType ==
    ASSUME TypeInv, Begin \/ InterruptReceived \/ ErrorReceived \/ StatusReceived
    PROVE  TypeInv'
<1> USE DEF tables, puts, caller, work
<1>0. TypeOK /\ Handler \in Threads /\ StepIds \subseteq Ids
  BY DEF TypeInv, Threads, Ids
<1>1. asked' \in Seq({"DefaultAction", "Interrupt", "Error", "Status"})
  <2>1. asked \in Seq({"DefaultAction", "Interrupt", "Error", "Status"})
    BY <1>0 DEF TypeOK
  <2>2. PICK kind \in {"DefaultAction", "Interrupt", "Error", "Status"} :
          asked' = Append(asked, kind)
    BY DEF Begin, FirstCall, InterruptReceived, ErrorReceived, StatusReceived,
           Accepts
  <2> QED BY <2>1, <2>2
<1>2. CASE Begin
  <2>1. PICK kind \in {"DefaultAction", "Status"}, given \in [Given -> Values] :
          FirstCall(kind, given)
    BY <1>2 DEF Begin
  <2> DEFINE c == [At("start", None) EXCEPT !.n = 1]
  <2>2. c \in Control /\ c.at = "start" /\ c.n = 1
    BY DEF At, Control, Places, Results
  <2>3. Go(Handler, c)
    BY <2>1 DEF FirstCall
  <2>4. ctl' \in [Threads -> Control] /\ Walks'
    <3> HIDE DEF c
    <3> QED BY <1>0, <2>2, <2>3, GoKeepsWalks
  <2>5. status' \in [Ids -> Statuses]
    BY <1>0, <2>1, AllUnplannedType DEF FirstCall
  <2>6. inputs' \in [Ids -> [Puts -> Values]]
    <3>1. \A a \in Ids, p \in Puts : StarterInput(a, p, given) \in Values
      BY <1>0, <2>1, StarterInputType
    <3> QED BY <2>1, <3>1 DEF FirstCall
  <2> QED BY <1>0, <1>1, <2>1, <2>4, <2>5, <2>6 DEF FirstCall, TypeInv, TypeOK
<1>3. CASE InterruptReceived
  <2>1. /\ status' \in [Ids -> Statuses] /\ nexts' \subseteq Ids
        /\ pendings' \subseteq Ids /\ late' \in BOOLEAN
        /\ answers' \in Seq({"Reply", "Error"}) /\ ended' \in BOOLEAN
    BY <1>0, <1>3, ImposeType DEF InterruptReceived, StepIds
  <2>2. ctl' \in [Threads -> Control] /\ Walks'
    <3>1. CASE Go(Handler, At("exec", Interrupt))
      BY <1>0, <3>1, AtIsControl, GoKeepsWalks DEF Places, StepIds
    <3>2. CASE UNCHANGED ctl
      BY <1>0, <3>2 DEF TypeInv, TypeOK, Walks
    <3> QED BY <1>3, <3>1, <3>2 DEF InterruptReceived
  <2> QED BY <1>0, <1>1, <1>3, <2>1, <2>2
         DEF InterruptReceived, TypeInv, TypeOK
<1>4. CASE ErrorReceived
  <2>1. /\ status' \in [Ids -> Statuses] /\ nexts' \subseteq Ids
        /\ pendings' \subseteq Ids /\ late' \in BOOLEAN
        /\ answers' \in Seq({"Reply", "Error"}) /\ ended' \in BOOLEAN
    BY <1>0, <1>4, ImposeType DEF ErrorReceived, StepIds
  <2>2. ctl' \in [Threads -> Control] /\ Walks'
    <3>1. Go(Handler, At("exec", Error))
      BY <1>4 DEF ErrorReceived
    <3> QED BY <1>0, <3>1, AtIsControl, GoKeepsWalks DEF Places, StepIds
  <2> QED BY <1>0, <1>1, <1>4, <2>1, <2>2
         DEF ErrorReceived, TypeInv, TypeOK
<1>5. CASE StatusReceived
  BY <1>0, <1>1, <1>5 DEF StatusReceived, TypeInv, TypeOK, Walks
<1> QED BY <1>2, <1>3, <1>4, <1>5

\* Answers to sub-requests, and the ends of asynchronous operations.
LEMMA AnswerKeepsType ==
    ASSUME TypeInv, SubAnswered \/ OperationEnds
    PROVE  TypeInv'
<1> USE DEF tables, puts, caller, work
<1>0. /\ TypeOK /\ Handler \in Threads /\ StepIds \subseteq Ids
      /\ subs \subseteq Sub /\ asyncs \subseteq Operation
  BY DEF TypeInv, TypeOK, Threads, Ids
<1>1. ASSUME NEW s \in subs, ReplyTaken(s) \/ ErrorCaught(s)
      PROVE  TypeInv'
  <2>1. s.act \in Ids /\ Spent(s) \subseteq Sub
    BY <1>0, SpentType DEF Sub
  <2>2. Resume(Handler, s.act, Spent(s), asyncs)
    BY <1>1 DEF ReplyTaken, ErrorCaught
  <2>3. /\ outputs' \in [Ids -> [Puts -> Values]]
        /\ launched' \in Nat /\ subs' \subseteq Sub /\ asyncs' \subseteq Operation
        /\ ctl' \in [Threads -> Control] /\ Walks'
    BY <1>0, <2>1, <2>2, ResumeType
  <2>4. UNCHANGED <<wf, tables, inputs, level, caller, asked, crashed>>
    BY <1>1 DEF ReplyTaken, ErrorCaught
  <2> QED BY <1>0, <2>3, <2>4 DEF TypeInv, TypeOK
<1>2. ASSUME NEW s \in subs, ReplyIgnored(s)
      PROVE  TypeInv'
  <2>1. subs' \subseteq Sub
    BY <1>0, <1>2, SpentType DEF ReplyIgnored
  <2> QED BY <1>0, <1>2, <2>1 DEF ReplyIgnored, TypeInv, TypeOK, Walks
<1>3. ASSUME NEW s \in subs, ErrorForced(s)
      PROVE  TypeInv'
  <2>1. subs' \subseteq Sub
    BY <1>0, <1>3, SpentType DEF ErrorForced
  <2>2. /\ status' \in [Ids -> Statuses] /\ nexts' \subseteq Ids
        /\ pendings' \subseteq Ids /\ late' \in BOOLEAN
        /\ answers' \in Seq({"Reply", "Error"}) /\ ended' \in BOOLEAN
    BY <1>0, <1>3, ImposeType DEF ErrorForced, StepIds
  <2>3. ctl' \in [Threads -> Control] /\ Walks'
    <3>1. Go(Handler, At("exec", Error))
      BY <1>3 DEF ErrorForced
    <3> QED BY <1>0, <3>1, AtIsControl, GoKeepsWalks DEF Places, StepIds
  <2> QED BY <1>0, <1>3, <2>1, <2>2, <2>3 DEF ErrorForced, TypeInv, TypeOK
<1>4. ASSUME NEW t \in Workers, NEW o \in asyncs, AsyncFinished(t, o)
      PROVE  TypeInv'
  <2>1. t \in Threads /\ o.act \in Ids /\ asyncs \ {o} \subseteq Operation
    BY <1>0 DEF Operation, Threads
  <2>2. Resume(t, o.act, subs, asyncs \ {o})
    BY <1>4 DEF AsyncFinished
  <2>3. /\ outputs' \in [Ids -> [Puts -> Values]]
        /\ launched' \in Nat /\ subs' \subseteq Sub /\ asyncs' \subseteq Operation
        /\ ctl' \in [Threads -> Control] /\ Walks'
    BY <1>0, <2>1, <2>2, ResumeType
  <2>4. UNCHANGED <<wf, tables, inputs, level, caller, asked, crashed>>
    BY <1>4 DEF AsyncFinished
  <2> QED BY <1>0, <2>3, <2>4 DEF TypeInv, TypeOK
<1> QED BY <1>1, <1>2, <1>3, <1>4 DEF SubAnswered, OperationEnds

LEMMA InitType == Init => TypeInv
<1> SUFFICES ASSUME Init PROVE TypeInv
  OBVIOUS
<1>1. /\ Idle \in Control /\ Idle.at = "idle"
  BY AtIsControl DEF Idle, Places
<1>2. \A t \in Threads : ctl[t] = Idle
  BY DEF Init
<1>3. ctl \in [Threads -> Control] /\ Walks
  BY <1>1, <1>2 DEF Init, Walks
<1>4. answers \in Seq({"Reply", "Error"})
      /\ asked \in Seq({"DefaultAction", "Interrupt", "Error", "Status"})
  BY DEF Init
<1>5. /\ status \in [Ids -> Statuses] /\ inputs \in [Ids -> [Puts -> Values]]
      /\ outputs \in [Ids -> [Puts -> Values]]
  BY DEF Init, Statuses, Values
<1>6. wf \in Layouts /\ nexts \subseteq Ids /\ pendings \subseteq Ids
  BY DEF Init
<1>7. level \in Nat /\ ended \in BOOLEAN /\ late \in BOOLEAN /\ launched \in Nat
      /\ crashed \in BOOLEAN /\ subs \subseteq Sub /\ asyncs \subseteq Operation
  BY DEF Init
<1> QED BY <1>3, <1>4, <1>5, <1>6, <1>7 DEF TypeInv, TypeOK

LEMMA NextKeepsType == TypeInv /\ [Next]_vars => TypeInv'
<1> SUFFICES ASSUME TypeInv, [Next]_vars PROVE TypeInv'
  OBVIOUS
<1>1. CASE UNCHANGED vars
  BY <1>1 DEF vars, tables, puts, caller, work, TypeInv, TypeOK, Walks
<1>2. CASE \E t \in Threads : Step(t)
  BY <1>2, StepKeepsType
<1>3. CASE Begin \/ InterruptReceived \/ ErrorReceived \/ StatusReceived
  BY <1>3, RequestKeepsType
<1>4. CASE SubAnswered \/ OperationEnds
  BY <1>4, AnswerKeepsType
<1>5. CASE Rest
  BY <1>1, <1>5 DEF Rest
<1> QED BY <1>1, <1>2, <1>3, <1>4, <1>5 DEF Next

\* Every variable of the session keeps its type, whatever the workflow, the
\* threads and the requests are: state_machine.cpp never stores an id that is
\* no action of the workflow in nexts or pendings, and never binds an output
\* that does not exist.
THEOREM TypeCorrect == Spec => []TypeInv
  BY InitType, NextKeepsType, PTL DEF Spec

THEOREM TypeCorrectOK == Spec => []TypeOK
<1>1. TypeInv => TypeOK
  BY DEF TypeInv
<1> QED BY <1>1, TypeCorrect, PTL

-----------------------------------------------------------------------------
(* What is queued fits, whatever the threads do.                           *)

\* Before the first request there is nothing to run or to answer.
Fresh ==
    Uninitialised => /\ nexts = {} /\ pendings = {} /\ asyncs = {}
                     /\ \A t \in Threads : ctl[t].at = "idle"

\* The starters are scheduled by the handler alone, before anything is done.
StartsAlone ==
    \A t \in Threads : ctl[t].at = "start" =>
        /\ t = Handler /\ asyncs = {}
        /\ \A u \in Threads \ {t} : ctl[u].at = "idle"
        /\ \A a \in Ids : status[a] # "Done"

FitInv == TypeInv /\ Fresh /\ StartsAlone /\ QueuedFit

\* A session that has been started is never a fresh one again.
LEMMA StaysStarted ==
    ASSUME ~Uninitialised,
           NEW a, NEW v, v # "Absent", status' = [status EXCEPT ![a] = v],
           status \in [Ids -> Statuses]
    PROVE  ~Uninitialised'
<1>1. PICK b \in Ids : status[b] # "Absent"
  BY DEF Uninitialised
<1>2. status'[b] # "Absent"
  BY <1>1
<1> QED BY <1>2 DEF Uninitialised

LEMMA ResetStarts ==
    ASSUME TypeOK,
           \/ status' = AllUnplanned
           \/ \E a \in Ids : status' = [AllUnplanned EXCEPT ![a] = "Planned"]
    PROVE  ~Uninitialised'
<1>1. Finish \in Ids /\ AllUnplanned[Finish] = "Unplanned"
  BY Layout, StepsAreIds DEF LayoutOK, AllUnplanned
<1>2. status'[Finish] # "Absent"
  BY <1>1 DEF AllUnplanned
<1> QED BY <1>1, <1>2 DEF Uninitialised

\* The bindings of b to a that thread t has left, and its Error about to run.
Holds(t, b, a) ==
    \/ /\ ctl[t].at = "bind" /\ ctl[t].act = b
       /\ ~ \A i \in 1 .. Len(wf.out[b]) : wf.out[b][i].to = a => i < ctl[t].n
    \/ ctl[t].at = "exec" /\ ctl[t].act = Error

LEMMA HoldsUp ==
    ASSUME NEW a, NEW b
    PROVE  HasBound(b, a) <=> /\ status[b] = "Done"
                              /\ \A t \in Threads : ~Holds(t, b, a)
  BY DEF HasBound, Holds

\* A thread that held nothing up before its step has not bound what it had not.
LEMMA BoundBefore ==
    ASSUME NEW t \in Threads, NEW b, NEW a, HasBound(b, a)', status[b] = "Done",
           \A u \in Threads \ {t} : ctl'[u] = ctl[u], wf' = wf, ~Holds(t, b, a)
    PROVE  HasBound(b, a)
<1>1. \A u \in Threads \ {t} : ~Holds(u, b, a)
  BY DEF HasBound, Holds
<1> QED BY <1>1, HoldsUp

\* Queues that shrink, or grow by steps only, still hold what fits, when nothing
\* new has been bound.
LEMMA NothingQueued ==
    ASSUME QueuedFit, wf' = wf, inputs' = inputs,
           (nexts' \cup pendings') \cap UserIds \subseteq nexts \cup pendings,
           \A a \in (nexts' \cup pendings') \cap UserIds : \A b \in Producers(a) :
                HasBound(b, a)' => HasBound(b, a)
    PROVE  QueuedFit'
<1> SUFFICES ASSUME NEW a \in (nexts' \cup pendings') \cap UserIds
             PROVE  /\ InputsFit(inputs, a)'
                    /\ Skips(inputs, a)' => \A b \in Producers(a)' : ~HasBound(b, a)'
  BY DEF QueuedFit
<1>1. a \in (nexts \cup pendings) \cap UserIds
  OBVIOUS
<1>2. Producers(a)' = Producers(a)
  BY DEF Producers
<1>3. /\ InputsFit(inputs, a)' <=> InputsFit(inputs, a)
      /\ Skips(inputs, a)' <=> Skips(inputs, a)
  BY DEF InputsFit, Skips
<1>4. InputsFit(inputs, a) /\ (Skips(inputs, a) => \A b \in Producers(a) : ~HasBound(b, a))
  BY <1>1 DEF QueuedFit
<1> QED BY <1>2, <1>3, <1>4

LEMMA NoneQueued ==
    ASSUME (nexts' \cup pendings') \cap UserIds = {}
    PROVE  QueuedFit'
  BY DEF QueuedFit

LEMMA ProducersAreIds == ASSUME TypeOK, NEW a PROVE Producers(a) \subseteq Ids
  BY Layout DEF Producers, LayoutOK

LEMMA StepsAreNotUsers == StepIds \cap UserIds = {}
<1>1. UserIds \subseteq Nat
  BY ConstantsAssumption DEF ConstantsAssumption
<1> QED BY <1>1 DEF StepIds, Die, Cleanup, Error, Finish, Interrupt

\* Once the only thread that may be scheduling starters has moved on, none is.
LEMMA StartsAloneKept ==
    ASSUME ctl \in [Threads -> Control], NEW t \in Threads, NEW c, Go(t, c),
           c.at # "start", \A u \in Threads \ {t} : ctl[u].at # "start"
    PROVE  StartsAlone'
<1>1. SUFFICES ASSUME NEW u \in Threads, ctl'[u].at = "start" PROVE FALSE
  BY DEF StartsAlone
<1>2. CASE u = t
  BY <1>1, <1>2 DEF Go
<1>3. CASE u # t
  BY <1>1, <1>3 DEF Go
<1> QED BY <1>2, <1>3

\* No other thread schedules starters while one runs, or is about to.
LEMMA OthersDoNotStart ==
    ASSUME FitInv, NEW t \in Threads,
           \/ ctl[t].at # "idle" \/ t = Handler \/ asyncs # {}
    PROVE  \A u \in Threads \ {t} : ctl[u].at # "start"
  BY DEF FitInv, StartsAlone

\* No step of the chain of calls forgets that the session was started.
LEMMA StepStarted ==
    ASSUME FitInv, NEW t \in Threads, Step(t)
    PROVE  ctl[t].at # "idle" /\ ~Uninitialised /\ ~Uninitialised'
<1> USE DEF tables, puts, caller, work
<1>0. /\ TypeInv /\ TypeOK /\ LayoutOK(wf) /\ status \in [Ids -> Statuses]
  BY Layout DEF FitInv, TypeInv, TypeOK
<1>1. ctl[t].at # "idle" /\ ~Uninitialised
  <2>1. ctl[t].at # "idle"
    BY DEF Step, IsAt, ScheduleStarter, StartersDone, Promote, Pick,
           NothingToExecute, EndSession, Execute, ContractBroken, ActionDone,
           ActionSuspends, ActionFails, Bind, BindDone
  <2> QED BY <2>1 DEF FitInv, Fresh
<1>2. ~Uninitialised'
  <2>1. CASE status' = status
    BY <1>1, <2>1 DEF Uninitialised
  <2>2. CASE \E a, v : v # "Absent" /\ status' = [status EXCEPT ![a] = v]
    BY <1>0, <1>1, <2>2, StaysStarted
  <2>3. CASE Execute(t)
    <3>1. ctl[t].act \in Ids
      BY <1>0, <2>3 DEF Execute, IsAt, TypeInv, Walks
    <3> QED BY <1>0, <2>1, <2>3, <3>1, ResetStarts DEF Execute
  <2>4. CASE Bind(t)
    <3>1. \E a : \E place \in {"Skipped", "Planned", "Pending", "Unplanned"} :
             Place(a, place)
      BY <2>4 DEF Bind, Verdicts
    <3> QED BY <2>2, <3>1 DEF Place
  <2> QED BY <2>1, <2>2, <2>3, <2>4
         DEF Step, ScheduleStarter, StartersDone, Promote, Pick,
             NothingToExecute, EndSession, ContractBroken, ActionDone,
             ActionSuspends, ActionFails, BindDone
<1> QED BY <1>1, <1>2

\* A step that binds nothing completes no binding, unless it empties the queues.
LEMMA OthersBindNothing ==
    ASSUME FitInv, NEW t \in Threads, Step(t), ~ScheduleStarter(t), ~Bind(t),
           (nexts' \cup pendings') \cap UserIds # {},
           NEW a, NEW b \in Producers(a), HasBound(b, a)'
    PROVE  HasBound(b, a)
<1> USE DEF tables, puts, caller, work
<1>0. /\ TypeInv /\ TypeOK /\ LayoutOK(wf) /\ ctl \in [Threads -> Control]
      /\ status \in [Ids -> Statuses] /\ b \in Ids
  BY Layout, ProducersAreIds DEF FitInv, TypeInv, TypeOK
<1>1. wf' = wf /\ status'[b] = "Done" /\ \A u \in Threads \ {t} : ctl'[u] = ctl[u]
  BY <1>0 DEF Step, StartersDone, Promote, Pick, NothingToExecute, EndSession,
              Execute, ContractBroken, ActionDone, ActionSuspends, ActionFails,
              BindDone, Go, HasBound
<1>2. \E i \in 1 .. Len(wf.out[b]) : wf.out[b][i].to = a /\ i >= 1
  BY DEF Producers
<1>3. CASE StartersDone(t) \/ EndSession(t) \/ Pick(t) \/ BindDone(t)
  <2>1. status[b] = "Done"
    BY <1>1, <1>3 DEF StartersDone, EndSession, Pick, BindDone
  <2>2. ~Holds(t, b, a)
    <3>1. CASE BindDone(t)
      <4>1. ctl[t].at = "bind" /\ ctl[t].n > Len(wf.out[ctl[t].act])
            /\ ctl[t].act \in Ids /\ ctl[t].n \in Nat
        BY <1>0, <3>1 DEF BindDone, IsAt, TypeInv, Walks, Control
      <4>2. Len(wf.out[b]) \in Nat
        BY <1>0 DEF LayoutOK
      <4> QED BY <4>1, <4>2 DEF Holds
    <3> QED BY <1>3, <3>1 DEF Holds, StartersDone, EndSession, Pick, IsAt, Die, Error
  <2> QED BY <1>1, <2>1, <2>2, BoundBefore
<1>4. CASE Promote(t) \/ NothingToExecute(t) \/ ActionSuspends(t)
  <2>1. status[b] = "Done"
    <3>1. \E c, v : v # "Done" /\ status' = [status EXCEPT ![c] = v]
      BY <1>4 DEF Promote, NothingToExecute, ActionSuspends
    <3> QED BY <1>0, <1>1, <3>1
  <2>2. ~Holds(t, b, a)
    BY <1>4 DEF Holds, Promote, NothingToExecute, ActionSuspends, IsAt
  <2> QED BY <1>1, <2>1, <2>2, BoundBefore
<1>5. CASE Execute(t)
  <2>1. ~Restarts(ctl[t].act)
    BY <1>5 DEF Execute
  <2>2. status[b] = "Done"
    BY <1>1, <1>5, <2>1 DEF Execute
  <2>3. ~Holds(t, b, a)
    BY <1>5, <2>1 DEF Holds, Execute, IsAt, Restarts
  <2> QED BY <1>1, <2>2, <2>3, BoundBefore
<1>6. CASE ContractBroken(t) \/ ActionFails(t)
  <2>1. ctl'[t].at = "exec" /\ ctl'[t].act = Error
    BY <1>0, <1>6 DEF ContractBroken, ActionFails, Go, At
  <2> QED BY <2>1 DEF HasBound
<1>7. CASE ActionDone(t)
  <2> DEFINE c == [ctl[t] EXCEPT !.at = "bind", !.n = 1]
  <2>1. /\ c.at = "bind" /\ c.act = ctl[t].act /\ c.n = 1
        /\ ctl'[t] = c /\ ctl[t].at = "result"
    BY <1>0, <1>7 DEF ActionDone, Go, IsAt, Control
  <2>2. b # ctl[t].act
    <3>1. SUFFICES ASSUME b = ctl[t].act PROVE FALSE
      OBVIOUS
    <3>2. PICK i \in 1 .. Len(wf.out[b]) : wf.out[b][i].to = a /\ i >= 1
      BY <1>2
    <3>3. i < ctl'[t].n
      BY <1>1, <2>1, <3>1, <3>2 DEF HasBound
    <3> QED BY <2>1, <3>2, <3>3
  <2>3. status[b] = "Done"
    BY <1>0, <1>1, <1>7, <2>2 DEF ActionDone
  <2>4. ~Holds(t, b, a)
    BY <2>1 DEF Holds
  <2> QED BY <1>1, <2>3, <2>4, BoundBefore
<1> QED BY <1>3, <1>4, <1>5, <1>6, <1>7 DEF Step

LEMMA StepKeepsFit ==
    ASSUME FitInv, NEW t \in Threads, Step(t)
    PROVE  FitInv'
<1> USE DEF tables, puts, caller, work
<1>0. /\ TypeInv /\ TypeOK /\ LayoutOK(wf) /\ ctl \in [Threads -> Control]
      /\ status \in [Ids -> Statuses] /\ TypeInv'
  BY Layout, StepKeepsType DEF FitInv, TypeInv, TypeOK
<1>1. ctl[t].at # "idle" /\ ~Uninitialised
  BY StepStarted
<1>2. \A u \in Threads \ {t} : ctl[u].at # "start"
  BY <1>1, OthersDoNotStart
<1>3. ~Uninitialised'
  BY StepStarted
<1>4. Fresh'
  BY <1>3 DEF Fresh
<1>5. CASE ScheduleStarter(t)
  <2> DEFINE n == ctl[t].n
             a == wf.starters[n].act
  <2>1. /\ t = Handler /\ asyncs = {} /\ ctl[t].at = "start"
        /\ \A u \in Threads \ {t} : ctl[u].at = "idle"
        /\ \A b \in Ids : status[b] # "Done"
    BY <1>5 DEF ScheduleStarter, IsAt, FitInv, StartsAlone
  <2>2. /\ ctl' = [ctl EXCEPT ![t] = [ctl[t] EXCEPT !.n = @ + 1]]
        /\ inputs' = inputs /\ asyncs' = asyncs /\ wf' = wf
    BY <1>5 DEF ScheduleStarter, Go
  <2>9. \A b \in Ids : status'[b] # "Done"
    <3>1. \/ status' = status
          \/ \E v \in {"Planned", "Pending"} : status' = [status EXCEPT ![a] = v]
      BY <1>5 DEF ScheduleStarter
    <3> QED BY <1>0, <2>1, <3>1
  <2>3. StartsAlone'
    <3>1. ASSUME NEW u \in Threads, ctl'[u].at = "start" PROVE u = t
      BY <1>2, <2>2, <3>1
    <3>2. \A u \in Threads \ {t} : ctl'[u] = ctl[u]
      BY <2>2
    <3> QED BY <2>1, <2>2, <2>9, <3>1, <3>2 DEF StartsAlone
  <2>4. n \in 1 .. Len(wf.starters)
    <3>1. n \in Nat /\ n >= 1 /\ n <= Len(wf.starters)
      BY <1>0, <1>5 DEF ScheduleStarter, IsAt, TypeInv, Walks, Control
    <3>2. Len(wf.starters) \in Nat
      BY <1>0 DEF LayoutOK
    <3> QED BY <3>1, <3>2
  <2>5. a \in Ids
    BY <1>0, <2>4 DEF LayoutOK, Starter, Ids
  <2>6. \/ /\ InputsFit(inputs, a)
           /\ nexts' \cup pendings' = nexts \cup pendings \cup {a}
        \/ nexts' \cup pendings' = nexts \cup pendings
    BY <1>5 DEF ScheduleStarter, CanExecute, CanPend
  <2> HIDE DEF a, n
  <2>7. \A b \in (nexts' \cup pendings') \cap UserIds : InputsFit(inputs, b)'
    <3>1. \A b \in (nexts' \cup pendings') \cap UserIds : InputsFit(inputs, b)
      BY <2>6 DEF FitInv, QueuedFit
    <3> QED BY <2>2, <3>1 DEF InputsFit
  <2>8. QueuedFit'
    <3>1. \A b : Producers(b)' \subseteq Ids
      BY <1>0, ProducersAreIds, <2>2 DEF Producers
    <3> QED BY <2>7, <2>9, <3>1 DEF QueuedFit, HasBound
  <2> QED BY <1>0, <1>4, <2>3, <2>8 DEF FitInv
<1>6. CASE Bind(t)
  <2> DEFINE b == wf.out[ctl[t].act][ctl[t].n]
  <2>1. StartsAlone'
    <3>1. ctl[t].at = "bind" /\ Go(t, [ctl[t] EXCEPT !.n = @ + 1])
      BY <1>6 DEF Bind, IsAt
    <3>2. [ctl[t] EXCEPT !.n = @ + 1].at # "start"
      BY <1>0, <3>1 DEF Control
    <3> QED BY <1>0, <1>2, <3>1, <3>2, StartsAloneKept
  <2>2. wf' = wf
    BY <1>6 DEF Bind
\* Only what was bound to the target is bound more than before.
  <2>5. ASSUME NEW a, a # b.to, NEW c \in Producers(a), HasBound(c, a)'
        PROVE  HasBound(c, a)
    <3>1. c \in Ids
      BY <1>0, ProducersAreIds
    <3>2. status[c] = "Done"
      <4>1. \E place \in {"Skipped", "Planned", "Pending", "Unplanned"} :
               status' = [status EXCEPT ![b.to] = place]
        BY <1>6 DEF Bind, Verdicts, Place
      <4>2. status'[c] = "Done"
        BY <2>5 DEF HasBound
      <4> HIDE DEF b
      <4> QED BY <1>0, <3>1, <4>1, <4>2
    <3>3. /\ ctl[t].at = "bind" /\ ctl[t] \in Control
          /\ ctl' = [ctl EXCEPT ![t] = [ctl[t] EXCEPT !.n = @ + 1]]
      BY <1>0, <1>6 DEF Bind, IsAt, Go
    <3>4. ~Holds(t, c, a)
      <4>1. SUFFICES ASSUME c = ctl[t].act, NEW i \in 1 .. Len(wf.out[c]), wf.out[c][i].to = a
                     PROVE  i < ctl[t].n
        BY <3>3 DEF Holds
      <4>2. i < ctl'[t].n
        BY <2>2, <2>5, <3>3, <4>1 DEF HasBound, Control
      <4>3. i # ctl[t].n
        BY <2>5, <4>1
      <4>4. ctl'[t].n = ctl[t].n + 1 /\ ctl[t].n \in Nat
        BY <1>0, <3>3 DEF Control
      <4> QED BY <4>2, <4>3, <4>4
    <3> QED BY <1>0, <2>2, <2>5, <3>2, <3>3, <3>4, BoundBefore
  <2>3. CASE b.to \in wf.acts
    <3> DEFINE to == b.to
    <3>1. PICK place \in Verdicts(inputs', to) : Place(to, place)
      <4>1. Die \notin wf.acts
        BY <1>0 DEF LayoutOK
      <4> QED BY <1>6, <2>3, <4>1 DEF Bind
    <3>2. \A a \in Ids \ {to} : inputs'[a] = inputs[a]
      BY <1>6, <1>0, <2>3 DEF Bind, TypeOK
    <3> HIDE DEF to, b
    <3>3. /\ nexts' \subseteq nexts \cup {to} /\ pendings' \subseteq pendings \cup {to}
          /\ to \in nexts' \cup pendings' =>
                InputsFit(inputs', to) /\ ~Skips(inputs', to)
      <4>1. CASE Skips(inputs', to)
        BY <3>1, <4>1 DEF Verdicts, Place
      <4>2. CASE ~Skips(inputs', to)
        <5>1. CASE place \in {"Planned", "Pending"}
          <6>1. InputsFit(inputs', to)
            BY <3>1, <4>2, <5>1 DEF Verdicts, CanExecute, CanPend
          <6> QED BY <3>1, <4>2, <6>1 DEF Place
        <5>2. CASE place \notin {"Planned", "Pending"}
          BY <3>1, <5>2 DEF Place
        <5> QED BY <5>1, <5>2
      <4> QED BY <3>1, <4>1, <4>2 DEF Place
    <3>4. SUFFICES ASSUME NEW a \in (nexts' \cup pendings') \cap UserIds
          PROVE  /\ InputsFit(inputs, a)'
                 /\ Skips(inputs, a)' => \A c \in Producers(a)' : ~HasBound(c, a)'
      BY <1>0, <1>4, <2>1 DEF QueuedFit, FitInv
    <3>5. CASE a = to
      BY <2>2, <3>3, <3>5 DEF InputsFit, Skips
    <3>6. CASE a # to
      <4>1. a \in (nexts \cup pendings) \cap UserIds /\ inputs'[a] = inputs[a]
        BY <3>2, <3>3, <3>4, <3>6, StepsAreIds
      <4>2. /\ InputsFit(inputs, a)' <=> InputsFit(inputs, a)
            /\ Skips(inputs, a)' <=> Skips(inputs, a)
            /\ Producers(a)' = Producers(a)
        BY <2>2, <4>1 DEF InputsFit, Skips, Producers
      <4>3. ASSUME NEW c \in Producers(a), HasBound(c, a)' PROVE HasBound(c, a)
        BY <2>5, <3>6, <4>3 DEF to
      <4> QED BY <4>1, <4>2, <4>3 DEF FitInv, QueuedFit
    <3> QED BY <3>5, <3>6
  <2>4. CASE b.to \notin wf.acts
    <3>1. Place(Die, "Planned") /\ inputs' = inputs
      BY <1>6, <2>4 DEF Bind
    <3>2. (nexts' \cup pendings') \cap UserIds \subseteq nexts \cup pendings
      BY <3>1, StepsAreNotUsers DEF Place, StepIds
    <3>3. \A a \in UserIds : \A c \in Producers(a) : HasBound(c, a)' => HasBound(c, a)
      <4>1. b.to = Die
        BY <1>6, <2>4 DEF Bind
      <4> QED BY <2>5, <4>1, StepsAreNotUsers DEF StepIds
    <3>4. QueuedFit'
      BY <2>2, <3>1, <3>2, <3>3, NothingQueued DEF FitInv
    <3> QED BY <1>0, <1>4, <2>1, <3>4 DEF FitInv
  <2> QED BY <2>3, <2>4
<1>7. CASE ~ScheduleStarter(t) /\ ~Bind(t)
  <2>1. wf' = wf /\ inputs' = inputs
    BY <1>7 DEF Step, StartersDone, Promote, Pick, NothingToExecute, EndSession,
                Execute, ContractBroken, ActionDone, ActionSuspends, ActionFails,
                BindDone
  <2>2. (nexts' \cup pendings') \cap UserIds \subseteq nexts \cup pendings
    <3>1. CASE Promote(t)
      <4>1. FirstOf(pendings) \in pendings
        BY <1>0, <3>1, FirstOfIn DEF Promote, Promotes, TypeOK
      <4> QED BY <3>1, <4>1 DEF Promote
    <3>2. CASE NothingToExecute(t)
      BY <3>2, StepsAreNotUsers DEF NothingToExecute, StepIds
    <3>3. CASE Execute(t)
      BY <3>3 DEF Execute
    <3> QED BY <1>7, <3>1, <3>2, <3>3
           DEF Step, StartersDone, Pick, EndSession, ContractBroken, ActionDone,
               ActionSuspends, ActionFails, BindDone
  <2>3. QueuedFit'
    <3>1. CASE (nexts' \cup pendings') \cap UserIds = {}
      BY <3>1, NoneQueued
    <3>2. CASE (nexts' \cup pendings') \cap UserIds # {}
      BY <1>7, <2>1, <2>2, <3>2, OthersBindNothing, NothingQueued DEF FitInv
    <3> QED BY <3>1, <3>2
  <2>4. StartsAlone'
    <3>1. \/ UNCHANGED ctl /\ ctl[t].at # "start"
          \/ \E c : Go(t, c) /\ c.at # "start"
      <4>1. CASE Promote(t)
        BY <4>1 DEF Promote, IsAt
      <4>2. CASE Execute(t)
        BY <1>0, <4>2 DEF Execute, At
      <4>3. CASE ActionDone(t)
        <5>1. [ctl[t] EXCEPT !.at = "bind", !.n = 1].at = "bind"
          BY <1>0 DEF Control
        <5> QED BY <4>3, <5>1 DEF ActionDone
      <4> QED BY <1>7, <4>1, <4>2, <4>3
             DEF Step, StartersDone, Pick, NothingToExecute, EndSession,
                 ContractBroken, ActionSuspends, ActionFails, BindDone, Idle, At
    <3>2. CASE UNCHANGED ctl /\ ctl[t].at # "start"
      BY <1>2, <3>2 DEF StartsAlone
    <3> QED BY <1>0, <1>2, <3>1, <3>2, StartsAloneKept
  <2> QED BY <1>0, <1>4, <2>3, <2>4 DEF FitInv
<1> QED BY <1>5, <1>6, <1>7

LEMMA RequestKeepsFit ==
    ASSUME FitInv, Begin \/ InterruptReceived \/ ErrorReceived \/ StatusReceived
    PROVE  FitInv'
<1> USE DEF tables, puts, caller, work
<1>0. /\ TypeInv /\ TypeOK /\ LayoutOK(wf) /\ ctl \in [Threads -> Control]
      /\ Handler \in Threads /\ TypeInv' /\ ctl[Handler].at = "idle"
  BY Layout, RequestKeepsType
     DEF FitInv, TypeInv, TypeOK, Threads, Begin, FirstCall, InterruptReceived,
         ErrorReceived, StatusReceived, Accepts, IsAt
<1>1. \A u \in Threads : ctl[u].at # "start"
  BY <1>0 DEF FitInv, StartsAlone
<1>2. CASE Begin
  <2>1. PICK kind \in {"DefaultAction", "Status"}, given \in [Given -> Values] :
          FirstCall(kind, given)
    BY <1>2 DEF Begin
  <2>2. /\ nexts = {} /\ pendings = {} /\ asyncs = {}
        /\ \A t \in Threads : ctl[t].at = "idle"
    BY <2>1 DEF FirstCall, FitInv, Fresh
  <2>3. Fresh'
    BY <1>0, <2>1, ResetStarts DEF FirstCall, Fresh
  <2>4. \A a \in Ids : status'[a] # "Done"
    BY <2>1 DEF FirstCall, AllUnplanned
  <2>5. StartsAlone'
    <3>1. \A u \in Threads \ {Handler} : ctl'[u] = ctl[u]
      BY <1>0, <2>1 DEF FirstCall, Go
    <3>2. asyncs' = {}
      BY <2>1, <2>2 DEF FirstCall
    <3> QED BY <2>2, <2>4, <3>1, <3>2 DEF StartsAlone
  <2>6. QueuedFit'
    BY <2>1, <2>2 DEF FirstCall, QueuedFit
  <2> QED BY <1>0, <2>3, <2>5, <2>6 DEF FitInv
<1>3. CASE InterruptReceived \/ ErrorReceived
  <2>1. PICK a \in StepIds : Impose(a) /\ (Go(Handler, At("exec", a)) \/ UNCHANGED ctl)
    BY <1>3 DEF InterruptReceived, ErrorReceived, StepIds
  <2>2. wf' = wf /\ inputs' = inputs
    BY <1>3 DEF InterruptReceived, ErrorReceived
  <2>3. Fresh'
    BY <1>0, <2>1, ResetStarts DEF Impose, Fresh, Ids
  <2>4. StartsAlone'
    <3>1. CASE UNCHANGED ctl
      BY <1>1, <3>1 DEF StartsAlone
    <3>2. CASE Go(Handler, At("exec", a))
      BY <1>0, <1>1, <3>2, StartsAloneKept DEF At
    <3> QED BY <2>1, <3>1, <3>2
  <2>5. QueuedFit'
    <3>1. (nexts' \cup pendings') \cap UserIds = {}
      BY <2>1, StepsAreNotUsers DEF Impose
    <3> QED BY <3>1, NoneQueued
  <2> QED BY <1>0, <2>3, <2>4, <2>5 DEF FitInv
<1>4. CASE StatusReceived
  BY <1>0, <1>4 DEF StatusReceived, FitInv, Fresh, Uninitialised, StartsAlone,
                    QueuedFit, InputsFit, Skips, Producers, HasBound
<1> QED BY <1>2, <1>3, <1>4

LEMMA AnswerKeepsFit ==
    ASSUME FitInv, SubAnswered \/ OperationEnds
    PROVE  FitInv'
<1> USE DEF tables, puts, caller, work
<1>0. /\ TypeInv /\ TypeOK /\ LayoutOK(wf) /\ ctl \in [Threads -> Control]
      /\ Handler \in Threads /\ TypeInv'
  BY Layout, AnswerKeepsType DEF FitInv, TypeInv, TypeOK, Threads
\* An idle thread goes on with an action; the queues are left alone.
<1>1. ASSUME NEW t \in Threads, NEW a, NEW r, ctl[t].at = "idle",
             Go(t, [At("result", a) EXCEPT !.res = r]),
             \A u \in Threads : ctl[u].at # "start",
             UNCHANGED <<wf, tables, inputs>>, ~Uninitialised
      PROVE  FitInv'
  <2>1. Fresh'
    BY <1>1 DEF Fresh, Uninitialised
  <2>2. StartsAlone'
    <3>1. [At("result", a) EXCEPT !.res = r].at # "start"
      BY DEF At
    <3> QED BY <1>0, <1>1, <3>1, StartsAloneKept
  <2>3. QueuedFit'
    <3>1. ASSUME NEW c, NEW b, HasBound(b, c)' PROVE HasBound(b, c)
      <4>1. status[b] = "Done" /\ ~Holds(t, b, c) /\ wf' = wf
        BY <1>1, <3>1 DEF HasBound, Holds
      <4>2. \A u \in Threads \ {t} : ctl'[u] = ctl[u]
        BY <1>0, <1>1 DEF Go
      <4> QED BY <3>1, <4>1, <4>2, BoundBefore
    <3> QED BY <1>1, <3>1, NothingQueued DEF FitInv
  <2> QED BY <1>0, <2>1, <2>2, <2>3 DEF FitInv
<1>2. ASSUME NEW s \in subs, ReplyTaken(s) \/ ErrorCaught(s)
      PROVE  FitInv'
  <2>1. PICK r : Go(Handler, [At("result", s.act) EXCEPT !.res = r])
    BY <1>2 DEF ReplyTaken, ErrorCaught, Resume
  <2>2. ctl[Handler].at = "idle" /\ status[s.act] = "Waiting"
    BY <1>2 DEF ReplyTaken, ErrorCaught, IsAt, Expected, Catches
  <2>3. \A u \in Threads : ctl[u].at # "start"
    BY <2>2 DEF FitInv, StartsAlone
  <2>4. ~Uninitialised
    <3>1. s.act \in Ids
      BY <1>0 DEF TypeOK, Sub
    <3> QED BY <2>2, <3>1 DEF Uninitialised
  <2>5. UNCHANGED <<wf, tables, inputs>>
    BY <1>2 DEF ReplyTaken, ErrorCaught
  <2> QED BY <1>0, <1>1, <2>1, <2>2, <2>3, <2>4, <2>5
<1>3. ASSUME NEW s \in subs, ReplyIgnored(s)
      PROVE  FitInv'
  BY <1>0, <1>3 DEF ReplyIgnored, FitInv, Fresh, Uninitialised, StartsAlone,
                    QueuedFit, InputsFit, Skips, Producers, HasBound
<1>4. ASSUME NEW s \in subs, ErrorForced(s)
      PROVE  FitInv'
  <2>1. Fresh'
    BY <1>0, <1>4, ResetStarts, StepsAreIds DEF ErrorForced, Impose, Fresh
  <2>2. StartsAlone'
    <3>1. \A u \in Threads : ctl[u].at # "start"
      BY <1>0, <1>4 DEF ErrorForced, IsAt, FitInv, StartsAlone
    <3>2. Go(Handler, At("exec", Error)) /\ At("exec", Error).at # "start"
      BY <1>4 DEF ErrorForced, At
    <3> QED BY <1>0, <3>1, <3>2, StartsAloneKept
  <2>3. QueuedFit'
    <3>1. (nexts' \cup pendings') \cap UserIds = {}
      BY <1>4, StepsAreNotUsers DEF ErrorForced, Impose, StepIds
    <3> QED BY <3>1, NoneQueued
  <2> QED BY <1>0, <2>1, <2>2, <2>3 DEF FitInv
<1>5. ASSUME NEW t \in Workers, NEW o \in asyncs, AsyncFinished(t, o)
      PROVE  FitInv'
  <2>1. PICK r : Go(t, [At("result", o.act) EXCEPT !.res = r])
    BY <1>5 DEF AsyncFinished, Resume
  <2>2. \A u \in Threads : ctl[u].at # "start"
    BY DEF FitInv, StartsAlone
  <2>3. ~Uninitialised
    BY DEF FitInv, Fresh
  <2>4. UNCHANGED <<wf, tables, inputs>> /\ t \in Threads /\ ctl[t].at = "idle"
    BY <1>5 DEF AsyncFinished, IsAt, Threads
  <2> QED BY <1>1, <2>1, <2>2, <2>3, <2>4
<1> QED BY <1>2, <1>3, <1>4, <1>5 DEF SubAnswered, OperationEnds

LEMMA FitInit == Init => FitInv
<1> SUFFICES ASSUME Init PROVE FitInv
  OBVIOUS
<1>1. \A t \in Threads : ctl[t].at = "idle"
  BY DEF Init, Idle, At
<1> QED BY <1>1, InitType DEF Init, FitInv, Fresh, StartsAlone, QueuedFit

LEMMA FitNext == FitInv /\ [Next]_vars => FitInv'
<1> SUFFICES ASSUME FitInv, [Next]_vars PROVE FitInv'
  OBVIOUS
<1>1. CASE UNCHANGED vars
  <2>1. TypeInv'
    BY <1>1, NextKeepsType DEF FitInv
  <2> QED BY <1>1, <2>1
         DEF vars, tables, puts, caller, work, FitInv, Fresh, Uninitialised,
             StartsAlone, QueuedFit, InputsFit, Skips, Producers, HasBound
<1>2. CASE \E t \in Threads : Step(t)
  BY <1>2, StepKeepsFit
<1>3. CASE Begin \/ InterruptReceived \/ ErrorReceived \/ StatusReceived
  BY <1>3, RequestKeepsFit
<1>4. CASE SubAnswered \/ OperationEnds
  BY <1>4, AnswerKeepsFit
<1> QED BY <1>1, <1>2, <1>3, <1>4 DEF Next, Rest

\* An action in nexts or pendings has inputs its definition accepts, and none
\* skipped once an action it depends on has bound its results (bindResults), for
\* every workflow and request, with any number of threads in the same session.
THEOREM WhatIsQueuedFits == Spec => []QueuedFit
<1>1. FitInv => QueuedFit
  BY DEF FitInv
<1> QED BY <1>1, FitInit, FitNext, PTL DEF Spec

=============================================================================
