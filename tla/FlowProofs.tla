----------------------------- MODULE FlowProofs -----------------------------
(***************************************************************************)
(* How sessions end, for every workflow whose end is a part of its own:    *)
(* one answer, and the terminal steps after everything else.               *)
(***************************************************************************)
EXTENDS SequentialProofs

-----------------------------------------------------------------------------
(* Workflows with an end.                                                  *)

Into(w, a) == {w.out[a][i].to : i \in 1 .. Len(w.out[a])}

\* The steps that end a session, and those that answer its request.
Ends      == {Cleanup, Die}
Answering == {Finish, Error}

\* The actions in E end the workflow: what they lead to is among them, and only
\* Finish, Error and perhaps Interrupt lead there.
Parted(w, E) ==
    /\ Ends \subseteq E /\ E \subseteq Ends \cup UserIds
    /\ \A i \in 1 .. Len(w.starters) : w.starters[i].act \notin E
    /\ \A a \in E \cup Answering : Into(w, a) \subseteq E
    /\ \A a \in Ids \ (E \cup Answering) :
        \/ Into(w, a) \cap E = {}
        \/ a = Interrupt /\ Into(w, a) \subseteq E

\* They do not fail, nobody asks for Finish out of turn, and the way from Finish
\* or Error to Cleanup, and from there to Die, has no contract to break and
\* is never skipped.
Unfailing(w, E) ==
    /\ \A a \in E \cup Answering : /\ "Error" \notin w.does[a] \cup w.later[a]
                                   /\ w.offers[a] = << >>
    /\ \A a \in Ids : "Finish" \notin w.does[a] \cup w.later[a]
    /\ \A a \in Answering : Into(w, a) \cap Ends # {}
    /\ Die \in Into(w, Cleanup)
    /\ w.takes[Cleanup] = {}
    /\ \A a \in Ids : \A i \in 1 .. Len(w.out[a]), y \in w.yields[a] :
        LET b == w.out[a][i]
        IN  b.to = Cleanup /\ b.from \in DOMAIN y => y[b.from] # "skip"

\* F names for each workflow the actions of its end.  What StateMachine::init
\* leaves meets this with F[w] = Ends, whatever else leads to Finish.
Orderly(F) == \A w \in Layouts : Parted(w, F[w]) /\ Unfailing(w, F[w])

-----------------------------------------------------------------------------
(* The end does not mingle with the rest.                                  *)

Queue      == nexts \cup pendings
Inside(E)  == Queue \subseteq E
Outside(E) == Queue \cap E = {}

\* What has been run and may still bind its results.
Running == {a \in Ids : \/ a \in Outstanding
                        \/ Chain.at \in {"result", "bind"} /\ Chain.act = a}

\* What a binds is of the end.
Closes(E, a) == \/ a \in E \cup Answering
                \/ a = Interrupt /\ Into(wf, a) \subseteq E

Unmixed(E) ==
    /\ Inside(E) \/ Outside(E)
    /\ \A a \in Running : IF Closes(E, a) THEN Inside(E) ELSE Outside(E)
    /\ Chain.at = "start" => Outside(E)
    /\ Chain.at = "exec" /\ ~Restarts(Chain.act) =>
        IF Chain.act = Finish THEN Queue \subseteq {Finish}
        ELSE IF Chain.act \in E THEN Inside(E) ELSE Outside(E)
    /\ Chain.at \in {"result", "bind"} =>
        Chain.res \in wf.does[Chain.act] \cup wf.later[Chain.act]

\* What runs, by the place of the chain.
RunsOne ==
    /\ Chain.at \in {"start", "next"} => Running = {}
    /\ Chain.at \in {"result", "bind"} => Running = {Chain.act}
    /\ Chain.at \in {"idle", "exec"} => Running = Outstanding
    /\ Chain.at = "exec" /\ Chain.act # Error => Running = {}

LEMMA RunsOneNow == SequentialInv => RunsOne
<1> SUFFICES ASSUME SequentialInv PROVE RunsOne
  OBVIOUS
<1> USE AtWork DEF SequentialInv, FitInv
<1>1. Chain.at \in Places /\ Outstanding \subseteq Ids
  BY DEF Control, Outstanding
<1> QED BY <1>1 DEF RunsOne, Running, OneAtWork

LEMMA RunsOneNext == SequentialInv' => RunsOne'
  BY RunsOneNow, PTL

\* The ids that are told apart.
LEMMA Apart ==
    /\ Die # Cleanup /\ Die # Error /\ Die # Finish /\ Die # Interrupt
    /\ Cleanup # Error /\ Cleanup # Finish /\ Cleanup # Interrupt
    /\ Error # Finish /\ Error # Interrupt /\ Finish # Interrupt
    /\ \A a \in UserIds : a \notin StepIds
  BY StepsAreNotUsers DEF Die, Cleanup, Error, Finish, Interrupt

LEMMA PlaceQueues ==
    ASSUME NEW a, NEW place, Place(a, place)
    PROVE  /\ Queue' \subseteq Queue \cup {a}
           /\ Queue \subseteq Queue' \cup {a}
           /\ place \in {"Planned", "Pending"} => a \in Queue'
  BY DEF Place, Queue

\* What getNext picks, and that a terminal step it picks was alone in nexts if no
\* other terminal step was there.
LEMMA TerminalAlone ==
    ASSUME NEW S, S \subseteq Ids, S # {}, FirstOf(S) \in Terminal,
           \A a, b \in S \cap Terminal : a = b
    PROVE  S = {FirstOf(S)}
<1> DEFINE c == Least(S)
<1>1. c \in S
  BY LeastId
<1>2. CASE c \in Terminal /\ S # {c}
  <2>1. S \ {c} # {} /\ S \ {c} \subseteq Ids
    BY <1>1, <1>2
  <2>2. Least(S \ {c}) \in S \ {c}
    BY <2>1, LeastId
  <2>3. FirstOf(S) = Least(S \ {c})
    BY <1>2 DEF FirstOf
  <2> QED BY <1>1, <1>2, <2>2, <2>3
<1>3. CASE ~(c \in Terminal /\ S # {c})
  <2>1. FirstOf(S) = c
    BY <1>3 DEF FirstOf
  <2> QED BY <1>3, <2>1
<1> QED BY <1>2, <1>3

\* A step that leaves the queues alone, or forgets the flow.
LEMMA UnmixedStays ==
    ASSUME NEW E, Unmixed(E), wf' = wf, nexts' = nexts, pendings' = pendings,
           Running' \subseteq Running,
           \/ Chain'.at \in {"idle", "next"}
           \/ Chain'.at = "exec" /\ Restarts(Chain'.act)
           \/ /\ Chain'.at \in {"result", "bind"}
              /\ Chain'.res \in wf.does[Chain'.act] \cup wf.later[Chain'.act]
    PROVE  Unmixed(E)'
<1>1. Queue' = Queue
  BY DEF Queue
<1> QED BY <1>1 DEF Unmixed, Inside, Outside, Closes

LEMMA UnmixedEmpty ==
    ASSUME NEW E, Queue' = {},
           \/ Chain'.at \in {"start", "idle"}
           \/ /\ Chain'.at = "result"
              /\ Chain'.res \in wf'.does[Chain'.act] \cup wf'.later[Chain'.act]
    PROVE  Unmixed(E)'
  BY DEF Unmixed, Inside, Outside

LEMMA StepKeepsUnmixed ==
    ASSUME Sequential, SequentialInv, SequentialInv', NEW E, Unmixed(E),
           Parted(wf, E), Unfailing(wf, E), NEW t \in Threads, Step(t)
    PROVE  Unmixed(E)'
<1> USE DEF tables, puts, caller, work
<1>0. /\ t = Handler /\ TypeInv /\ TypeOK /\ RunsOne /\ RunsOne'
      /\ Ends \subseteq E /\ E \subseteq Ends \cup UserIds
      /\ Finish \notin E /\ Error \notin E /\ Interrupt \notin E
  <2>1. Finish \notin E /\ Error \notin E /\ Interrupt \notin E
    BY Apart DEF Parted, Ends, StepIds
  <2> QED BY <2>1, Alone, RunsOneNow, RunsOneNext DEF SequentialInv, FitInv, TypeInv, Parted
<1> USE <1>0, AtWork
<1>1. CASE ScheduleStarter(t)
  <2>1. /\ Chain.at = "start" /\ Chain.n \in 1 .. Len(wf.starters)
        /\ Go(t, [Chain EXCEPT !.n = @ + 1])
    BY <1>1 DEF ScheduleStarter, IsAt, Chain, TypeInv, Walks, Control, Threads
  <2>2. Chain'.at = "start"
    BY <2>1, Moved DEF Control
  <2>3. Running' = {}
    BY <2>2 DEF RunsOne
  <2>4. wf.starters[Chain.n].act \notin E
    BY <2>1 DEF Parted
  <2>5. Queue' \subseteq Queue \cup {wf.starters[Chain.n].act}
    BY <1>1 DEF ScheduleStarter, Queue, Chain
  <2>6. Outside(E)'
    BY <2>1, <2>4, <2>5 DEF Unmixed, Outside
  <2> QED BY <2>2, <2>3, <2>6 DEF Unmixed
<1>2. CASE StartersDone(t)
  <2>1. Chain'.at = "next"
    BY <1>2, Moved DEF StartersDone, At
  <2>2. Running' = {}
    BY <2>1 DEF RunsOne
  <2> QED BY <1>2, <2>1, <2>2, UnmixedStays DEF StartersDone
<1>3. CASE Promote(t)
  <2>1. Chain' = Chain /\ Chain.at = "next"
    BY <1>3 DEF Promote, IsAt, Chain
  <2>2. Running' = {}
    BY <2>1 DEF RunsOne
  <2>3. FirstOf(pendings) \in pendings
    BY <1>3, FirstOfIn DEF Promote, Promotes
  <2>4. Queue' = Queue /\ wf' = wf
    BY <1>3, <2>3 DEF Promote, Queue
  <2> QED BY <2>1, <2>2, <2>4 DEF Unmixed, Inside, Outside, Closes
<1>4. CASE Pick(t)
  <2>1. PICK b \in nexts : b = FirstOf(nexts)
    BY <1>4, FirstOfIn DEF Pick
  <2>2. Chain'.at = "exec" /\ Chain'.act = b
    BY <1>4, <2>1, Moved DEF Pick, At
  <2>3. Queue' = Queue /\ wf' = wf /\ b \in Queue
    BY <1>4, <2>1 DEF Pick, Queue
  <2>4. Running' \subseteq Running
    BY <1>4, <2>2 DEF Running, Pick, Outstanding
  <2>5. ASSUME b = Finish PROVE Queue \subseteq {Finish}
    <3>1. Outside(E)
      BY <2>3, <2>5 DEF Unmixed, Inside
    <3>2. nexts \cap Terminal \subseteq {Finish}
      BY <3>1 DEF Outside, Queue, Ends, Terminal
    <3>3. nexts = {Finish}
      BY <2>1, <2>5, <3>2, TerminalAlone DEF Terminal
    <3>4. pendings = {}
      BY <1>4, <3>3 DEF Pick, Promotes, Terminal
    <3> QED BY <3>3, <3>4 DEF Queue
  <2>6. IF b \in E THEN Inside(E) ELSE Outside(E)
    BY <2>3 DEF Unmixed, Inside, Outside
  <2> QED BY <2>2, <2>3, <2>4, <2>5, <2>6 DEF Unmixed, Inside, Outside, Closes
<1>5. CASE NothingToExecute(t)
  <2>1. PICK a \in Answering : Queue' = {a} /\ Go(t, At("exec", a)) /\ wf' = wf
    BY <1>5 DEF NothingToExecute, Queue, Answering
  <2>2. Chain'.at = "exec" /\ Chain'.act = a
    BY <2>1, Moved DEF At
  <2>3. Running' \subseteq {}
    <3>1. Outstanding = {}
      BY <1>5 DEF NothingToExecute, IsAt, RunsOne, Running, Chain, Outstanding
    <3>2. Outstanding' = {}
      BY <1>5, <3>1, NoneOutstanding DEF NothingToExecute
    <3> QED BY <2>2, <3>2 DEF Running
  <2>4. Outside(E)'
    BY <2>1 DEF Outside, Answering
  <2> QED BY <2>1, <2>2, <2>3, <2>4 DEF Unmixed, Answering, Restarts
<1>6. CASE EndSession(t)
  <2>1. Chain'.at = "idle"
    BY <1>6, Moved DEF EndSession, Idle, At
  <2>2. Running' \subseteq Running
    BY <1>6, <2>1 DEF EndSession, Running, Outstanding
  <2> QED BY <1>6, <2>1, <2>2, UnmixedStays DEF EndSession
<1>7. CASE Execute(t)
  <2>1. PICK a \in Ids : a = Chain.act /\ a # Die /\ Chain.at = "exec"
    BY <1>7 DEF Execute, IsAt, Chain
  <2>2. PICK r \in wf.does[a] : Go(t, [At("result", a) EXCEPT !.res = r])
    BY <1>7, <2>1 DEF Execute, Chain
  <2>3. Chain'.at = "result" /\ Chain'.act = a /\ Chain'.res = r /\ wf' = wf
    BY <1>7, <2>2, Moved DEF At, Execute
  <2>4. Running' = {a}
    BY <2>3 DEF RunsOne
  <2>5. CASE Restarts(a)
    <3>1. Queue' = {}
      BY <1>7, <2>1, <2>5 DEF Execute, Queue, Chain
    <3> QED BY <2>3, <3>1, UnmixedEmpty
  <2>6. CASE ~Restarts(a)
    <3>1. Queue' = Queue \ {a}
      BY <1>7, <2>1, <2>6 DEF Execute, Queue, Chain
    <3>2. CASE a = Finish
      <4>1. Queue' = {}
        BY <2>1, <2>6, <3>1, <3>2 DEF Unmixed
      <4> QED BY <2>3, <4>1, UnmixedEmpty
    <3>3. CASE a # Finish
      <4>1. a \notin Answering /\ a # Interrupt
        BY <2>6, <3>3 DEF Answering, Restarts
      <4>2. IF a \in E THEN Inside(E) ELSE Outside(E)
        BY <2>1, <2>6, <3>3 DEF Unmixed
      <4>3. IF a \in E THEN Inside(E)' ELSE Outside(E)'
        BY <3>1, <4>2 DEF Inside, Outside
      <4> QED BY <2>3, <2>4, <4>1, <4>3 DEF Unmixed, Closes
    <3> QED BY <3>2, <3>3
  <2> QED BY <2>5, <2>6
<1>8. CASE ContractBroken(t) \/ ActionFails(t)
  <2>1. Chain'.at = "exec" /\ Chain'.act = Error /\ Chain.at = "result" /\ Chain.act \in Ids
    BY <1>8, Moved DEF ContractBroken, ActionFails, At, IsAt, Chain
  <2>2. Outstanding' \subseteq Outstanding
    BY <1>8, <2>1 DEF ContractBroken, ActionFails, Outstanding, Chain
  <2>3. Running' \subseteq Running
    BY <2>1, <2>2 DEF Running
  <2> QED BY <1>8, <2>1, <2>3, UnmixedStays DEF ContractBroken, ActionFails, Restarts
<1>9. CASE ActionDone(t)
  <2>1. /\ Chain' = [Chain EXCEPT !.at = "bind", !.n = 1]
        /\ Chain.at = "result" /\ UNCHANGED <<wf, nexts, pendings>>
    BY <1>9, Moved DEF ActionDone, IsAt, Chain
  <2>2. Chain'.at = "bind" /\ Chain'.act = Chain.act /\ Chain'.res = Chain.res
    BY <2>1 DEF Control
  <2>3. Running' \subseteq Running
    BY <2>1, <2>2 DEF RunsOne
  <2> QED BY <2>1, <2>2, <2>3, UnmixedStays DEF Unmixed
<1>10. CASE ActionSuspends(t)
  <2>1. /\ Chain'.at = "idle" /\ Chain.at = "result"
        /\ UNCHANGED <<wf, nexts, pendings>>
    BY <1>10, Moved DEF ActionSuspends, Idle, At, IsAt, Chain
  <2>2. Outstanding' \subseteq Outstanding \cup {Chain.act}
    BY <1>10 DEF ActionSuspends, Outstanding, Chain
  <2>3. Running' \subseteq Running
    BY <2>1, <2>2 DEF Running
  <2> QED BY <2>1, <2>3, UnmixedStays
<1>11. CASE Bind(t)
  <2> DEFINE a == Chain.act
  <2>1. /\ Chain.at = "bind" /\ Chain.n \in 1 .. Len(wf.out[a]) /\ wf' = wf
        /\ Go(t, [Chain EXCEPT !.n = @ + 1])
    <3>1. /\ Chain.at = "bind" /\ Chain.n <= Len(wf.out[a]) /\ wf' = wf
          /\ Go(t, [Chain EXCEPT !.n = @ + 1])
      BY <1>11 DEF Bind, IsAt, Chain
    <3>2. Chain.n >= 1 /\ Chain.n \in Nat
      BY <3>1 DEF TypeInv, Walks, Control, Chain, Threads
    <3>3. Len(wf.out[a]) \in Nat
      BY <3>1 DEF LayoutOK
    <3> QED BY <3>1, <3>2, <3>3
  <2>2. Chain'.at = "bind" /\ Chain'.act = a /\ Chain'.res = Chain.res
    BY <2>1, Moved DEF Control
  <2>3. Running' = {a} /\ Running = {a}
    BY <2>1, <2>2 DEF RunsOne
  <2>4. PICK b \in Into(wf, a) : \E place : Place(b, place)
    BY <1>11, <2>1 DEF Bind, Into, Chain
  <2>5. Queue' \subseteq Queue \cup {b}
    BY <2>4, PlaceQueues
  <2>6. CASE Closes(E, a)
    <3>1. b \in E /\ Inside(E)
      BY <2>3, <2>4, <2>6 DEF Closes, Unmixed, Parted
    <3> QED BY <2>1, <2>2, <2>3, <2>5, <2>6, <3>1 DEF Unmixed, Inside, Closes
  <2>7. CASE ~Closes(E, a)
    <3>1. b \notin E /\ Outside(E)
      BY <2>1, <2>3, <2>4, <2>7 DEF Closes, Unmixed, Parted
    <3> QED BY <2>1, <2>2, <2>3, <2>5, <2>7, <3>1 DEF Unmixed, Outside, Closes
  <2> QED BY <2>6, <2>7
<1>12. CASE BindDone(t)
  <2>1. Chain.at = "bind" /\ Chain.res # "Finish"
    BY <1>12 DEF BindDone, IsAt, Unmixed, Unfailing, Chain
  <2>2. Chain'.at = "next"
    BY <1>12, <2>1, Moved DEF BindDone, At, Chain
  <2>3. Running' = {}
    BY <2>2 DEF RunsOne
  <2> QED BY <1>12, <2>2, <2>3, UnmixedStays DEF BindDone
<1> QED BY <1>1, <1>2, <1>3, <1>4, <1>5, <1>6, <1>7, <1>8, <1>9, <1>10, <1>11, <1>12 DEF Step

\* Where errorReceived and interruptReceived leave the chain and the queues.
LEMMA ImposeAlone ==
    ASSUME TypeInv, NEW a \in {Interrupt, Error}, Impose(a),
           \/ Chain'.at = "idle"
           \/ Chain'.at = "exec" /\ Chain'.act = a
    PROVE  Queue' = {a} /\ Running' = {} /\ Restarts(a)
<1>1. Queue' = {a} /\ status' = [AllUnplanned EXCEPT ![a] = "Planned"]
  BY DEF Impose, Queue
<1>2. AllUnplanned \in [Ids -> Statuses]
      /\ \A b \in Ids : AllUnplanned[b] \in {"Unplanned", "Absent"}
  BY AllUnplannedType DEF AllUnplanned, TypeInv
<1>3. Outstanding' = {}
  BY <1>1, <1>2 DEF Outstanding
<1> QED BY <1>1, <1>3 DEF Running, Restarts

LEMMA Received ==
    ASSUME TypeOK, NEW kind \in {"DefaultAction", "Interrupt", "Error", "Status"},
           Accepts(kind)
    PROVE  asked' # << >> /\ Chain.at = "idle"
<1>1. Len(asked') = Len(asked) + 1 /\ Len(asked) \in Nat
  BY DEF Accepts, TypeOK
<1>2. Len(asked') # 0
  BY <1>1
<1> QED BY <1>2 DEF Accepts, IsAt, Chain

LEMMA RequestMoves ==
    ASSUME SequentialInv, Begin \/ InterruptReceived \/ ErrorReceived \/ StatusReceived
    PROVE  /\ Chain.at = "idle" /\ wf' = wf /\ outputs' = outputs
           /\ subs' = subs /\ answers' = answers /\ ended' = ended /\ asked' # << >>
           /\ \/ /\ Uninitialised /\ ~Uninitialised'
                 /\ Queue' = {} /\ Chain'.at = "start" /\ late' = late
                 /\ \A p \in Puts : inputs'[Cleanup][p] = "nil"
              \/ /\ \E a \in {Interrupt, Error} :
                        /\ Impose(a)
                        /\ a = Interrupt => "Interrupt" \in Kinds
                        /\ a = Error => "Error" \in Kinds
                        /\ \/ Chain'.at = "idle"
                           \/ Chain'.at = "exec" /\ Chain'.act = a
                 /\ ~Uninitialised' /\ inputs' = inputs
              \/ UNCHANGED <<Queue, Running, Chain, late, inputs, Uninitialised, Outstanding>>
<1> USE DEF tables, puts, caller, work
<1>0. TypeInv /\ TypeOK
  BY DEF SequentialInv, FitInv, TypeInv
<1> USE <1>0, AtWork
<1>1. CASE Begin
  <2>1. PICK kind \in {"DefaultAction", "Status"}, given \in [Given -> Values] : FirstCall(kind, given)
    BY <1>1 DEF Begin
  <2>2. Uninitialised /\ ~Uninitialised'
    BY <2>1, ResetStarts DEF FirstCall
  <2>3. Queue' = {}
    BY <2>1, <2>2 DEF FirstCall, SequentialInv, FitInv, Fresh, Queue
  <2>4. Chain.at = "idle" /\ asked' # << >>
    BY <2>1, Received DEF FirstCall
  <2>5. Chain'.at = "start"
    BY <2>1, Moved DEF FirstCall, At
  <2>6. \A p \in Puts : inputs'[Cleanup][p] = "nil"
    <3>1. Cleanup \notin UserIds /\ Cleanup \in Ids
      BY StepsAreNotUsers, StepsAreIds DEF StepIds
    <3> QED BY <1>0, <2>1, <3>1, StarterInputType DEF FirstCall
  <2> QED BY <2>1, <2>2, <2>3, <2>4, <2>5, <2>6 DEF FirstCall
<1>2. CASE InterruptReceived
  <2>1. Impose(Interrupt) /\ ~Uninitialised'
    BY <1>2, ResetStarts DEF InterruptReceived, Impose
  <2>2. Chain.at = "idle" /\ asked' # << >>
    BY <1>2, Received DEF InterruptReceived
  <2>3. \/ Chain'.at = "idle"
        \/ Chain'.at = "exec" /\ Chain'.act = Interrupt
    <3>1. CASE Interrupt \in wf.acts
      BY <1>2, <3>1, Moved DEF InterruptReceived, At
    <3>2. CASE Interrupt \notin wf.acts
      BY <1>2, <2>2, <3>2 DEF InterruptReceived, Chain
    <3> QED BY <3>1, <3>2
  <2> QED BY <1>2, <2>1, <2>2, <2>3, Apart DEF InterruptReceived, Impose
<1>3. CASE ErrorReceived
  <2>1. Impose(Error) /\ ~Uninitialised'
    BY <1>3, ResetStarts DEF ErrorReceived, Impose
  <2>2. Chain.at = "idle" /\ asked' # << >>
    BY <1>3, Received DEF ErrorReceived
  <2>3. Chain'.at = "exec" /\ Chain'.act = Error
    BY <1>3, Moved DEF ErrorReceived, At
  <2> QED BY <1>3, <2>1, <2>2, <2>3, Apart DEF ErrorReceived, Impose
<1>4. CASE StatusReceived
  <2>1. Chain.at = "idle" /\ asked' # << >>
    BY <1>4, Received DEF StatusReceived
  <2>2. Chain' = Chain /\ UNCHANGED <<tables, puts, caller, subs, wf>>
    BY <1>4 DEF StatusReceived, Chain
  <2>3. UNCHANGED <<Queue, Running, Chain, Uninitialised, Outstanding>>
    BY <2>2 DEF Queue, Running, Outstanding, Uninitialised
  <2> QED BY <2>1, <2>2, <2>3
<1> QED BY <1>1, <1>2, <1>3, <1>4

LEMMA RequestKeepsUnmixed ==
    ASSUME SequentialInv, NEW E, Unmixed(E), Interrupt \notin E, Error \notin E,
           Begin \/ InterruptReceived \/ ErrorReceived \/ StatusReceived
    PROVE  Unmixed(E)'
<1>1. CASE Queue' = {} /\ Chain'.at = "start"
  BY <1>1, UnmixedEmpty
<1>2. CASE \E a \in {Interrupt, Error} :
             /\ Impose(a)
             /\ \/ Chain'.at = "idle"
                \/ Chain'.at = "exec" /\ Chain'.act = a
  <2>1. PICK a \in {Interrupt, Error} :
             /\ Impose(a)
             /\ \/ Chain'.at = "idle"
                \/ Chain'.at = "exec" /\ Chain'.act = a
    BY <1>2
  <2>2. Queue' = {a} /\ Running' = {} /\ Restarts(a)
    BY <2>1, ImposeAlone DEF SequentialInv, FitInv
  <2> QED BY <2>1, <2>2 DEF Unmixed, Outside
<1>3. CASE UNCHANGED <<Queue, Running, Chain>> /\ wf' = wf
  BY <1>3 DEF Unmixed, Inside, Outside, Closes
<1> QED BY <1>1, <1>2, <1>3, RequestMoves

LEMMA AnswerMoves ==
    ASSUME Sequential, SequentialInv, SubAnswered \/ OperationEnds
    PROVE  \E s \in subs :
            /\ Chain.at = "idle" /\ wf' = wf /\ answers' = answers /\ ended' = ended
            /\ inputs' = inputs /\ asked' = asked
            /\ \/ /\ UNCHANGED <<Queue, Outstanding, late, Uninitialised>>
                  /\ s.act \in Outstanding
                  /\ Chain'.at = "result" /\ Chain'.act = s.act
                  /\ Chain'.res \in wf.later[s.act]
                  /\ \E y \in wf.yields[s.act] : outputs' = Overlay(s.act, y)
               \/ UNCHANGED <<Queue, Outstanding, Running, Chain, late, outputs, Uninitialised>>
               \/ /\ Impose(Error) /\ Chain'.at = "exec" /\ Chain'.act = Error
                  /\ outputs' = outputs /\ ~Uninitialised'
<1> USE DEF tables, puts, caller, work
<1>0. TypeInv /\ TypeOK
  BY DEF SequentialInv, FitInv, TypeInv
<1> USE <1>0, AtWork
<1>1. PICK s \in subs :
        ReplyTaken(s) \/ ReplyIgnored(s) \/ ErrorCaught(s) \/ ErrorForced(s)
  BY DEF SubAnswered, OperationEnds, Sequential
<1>2. CASE ReplyTaken(s) \/ ErrorCaught(s)
  <2>1. /\ s.act \in Outstanding
        /\ UNCHANGED <<Queue, Outstanding, late, answers, inputs, Uninitialised>>
    BY <1>2, ResumeMoves DEF Outstanding, Queue, ReplyTaken, ErrorCaught, Uninitialised
  <2>2. \E y \in wf.yields[s.act] : outputs' = Overlay(s.act, y)
    BY <1>2 DEF ReplyTaken, ErrorCaught, Resume
  <2>3. /\ Chain.at = "idle" /\ UNCHANGED <<asked, ended, wf>>
        /\ Chain'.at = "result" /\ Chain'.act = s.act /\ Chain'.res \in wf.later[s.act]
    BY <1>2, ResumeMoves
  <2> QED BY <2>1, <2>2, <2>3
<1>3. CASE ReplyIgnored(s)
  <2>1. Chain' = Chain /\ Chain.at = "idle" /\ UNCHANGED <<tables, puts, caller, asked, wf>>
    BY <1>3 DEF ReplyIgnored, Chain, IsAt
  <2>2. UNCHANGED <<Queue, Running, Uninitialised, Outstanding>>
    BY <2>1 DEF Queue, Running, Outstanding, Uninitialised
  <2> QED BY <2>1, <2>2
<1>4. CASE ErrorForced(s)
  <2>1. Chain.at = "idle" /\ UNCHANGED <<inputs, outputs, asked, wf, answers, ended>>
    BY <1>4 DEF ErrorForced, Chain, IsAt, Impose
  <2>2. Chain'.at = "exec" /\ Chain'.act = Error
    BY <1>4, Moved DEF ErrorForced, At
  <2>3. Impose(Error) /\ ~Uninitialised'
    BY <1>4, ResetStarts DEF ErrorForced, Impose
  <2> QED BY <2>1, <2>2, <2>3
<1> QED BY <1>1, <1>2, <1>3, <1>4

LEMMA AnswerKeepsUnmixed ==
    ASSUME Sequential, SequentialInv, SequentialInv', NEW E, Unmixed(E), Error \notin E,
           SubAnswered \/ OperationEnds
    PROVE  Unmixed(E)'
<1>0. RunsOne /\ RunsOne' /\ wf' = wf
  BY RunsOneNow, RunsOneNext, AnswerMoves
<1>1. CASE /\ Queue' = Queue /\ Chain.at = "idle" /\ Chain'.at = "result"
           /\ Chain'.act \in Outstanding /\ Chain'.res \in wf.later[Chain'.act]
  <2>1. Running' \subseteq Running
    BY <1>0, <1>1 DEF RunsOne
  <2> QED BY <1>0, <1>1, <2>1 DEF Unmixed, Inside, Outside, Closes
<1>2. CASE UNCHANGED <<Queue, Running, Chain>>
  BY <1>0, <1>2 DEF Unmixed, Inside, Outside, Closes
<1>3. CASE Impose(Error) /\ Chain'.at = "exec" /\ Chain'.act = Error
  <2>1. Queue' = {Error} /\ Running' = {} /\ Restarts(Error)
    BY <1>3, ImposeAlone DEF SequentialInv, FitInv
  <2> QED BY <1>3, <2>1 DEF Unmixed, Outside
<1> QED BY <1>1, <1>2, <1>3, AnswerMoves

-----------------------------------------------------------------------------
(* Cleanup is never skipped.                                               *)

Unskipped ==
    /\ \A p \in Puts : inputs[Cleanup][p] # "skip"
    /\ \A a \in Ids : \A i \in 1 .. Len(wf.out[a]) :
        wf.out[a][i].to = Cleanup => outputs[a][wf.out[a][i].from] # "skip"

LEMMA OverlayUnskipped ==
    ASSUME TypeOK, NEW E, Unfailing(wf, E), Unskipped, NEW a \in Ids, NEW y \in wf.yields[a],
           outputs' = Overlay(a, y), wf' = wf, inputs' = inputs
    PROVE  Unskipped'
<1> SUFFICES ASSUME NEW b \in Ids, NEW i \in 1 .. Len(wf.out[b]), wf.out[b][i].to = Cleanup
             PROVE  outputs'[b][wf.out[b][i].from] # "skip"
  BY DEF Unskipped
<1> DEFINE p == wf.out[b][i].from
<1>1. p \in Puts
  <2>1. wf.out[b] \in Seq(Binding)
    BY Layout DEF LayoutOK
  <2>2. wf.out[b][i] \in Binding
    BY <2>1
  <2> QED BY <2>2 DEF Binding
<1>2. outputs[b][p] # "skip" /\ outputs \in [Ids -> [Puts -> Values]]
  BY DEF Unskipped, TypeOK
<1>3. CASE b = a
  <2>1. outputs'[b][p] = IF p \in DOMAIN y THEN y[p] ELSE outputs[b][p]
    BY <1>1, <1>2, <1>3 DEF Overlay
  <2>2. p \in DOMAIN y => y[p] # "skip"
    BY <1>3 DEF Unfailing
  <2> QED BY <1>2, <2>1, <2>2
<1>4. CASE b # a
  BY <1>2, <1>4 DEF Overlay
<1> QED BY <1>3, <1>4

LEMMA NextKeepsUnskipped ==
    ASSUME Sequential, SequentialInv, NEW E, Unfailing(wf, E), Unskipped, [Next]_vars
    PROVE  Unskipped'
<1> USE DEF tables, puts, caller, work
<1>0. /\ TypeInv /\ TypeOK /\ Cleanup \in Ids
      /\ inputs \in [Ids -> [Puts -> Values]] /\ outputs \in [Ids -> [Puts -> Values]]
  BY StepsAreIds DEF SequentialInv, FitInv, TypeInv, TypeOK
<1> USE <1>0, AtWork
<1>1. CASE \E t \in Threads : Step(t)
  <2>1. PICK t \in Threads : Step(t)
    BY <1>1
  <2>2. t = Handler
    BY Alone
  <2>3. CASE Execute(t)
    <3>1. PICK y \in wf.yields[Chain.act] : outputs' = Overlay(Chain.act, y)
      BY <2>2, <2>3 DEF Execute, Chain
    <3>2. Chain.act \in Ids /\ wf' = wf /\ inputs' = inputs
      BY <2>2, <2>3 DEF Execute, IsAt, Chain
    <3> QED BY <3>1, <3>2, OverlayUnskipped
  <2>4. CASE Bind(t)
    <3> DEFINE a == Chain.act
               b == wf.out[a][Chain.n]
    <3>1. /\ a \in Ids /\ Chain.n \in 1 .. Len(wf.out[a]) /\ b \in Binding
          /\ UNCHANGED <<wf, outputs>>
      <4>1. /\ Chain.at = "bind" /\ Chain.n <= Len(wf.out[a]) /\ UNCHANGED <<wf, outputs>>
        BY <2>2, <2>4 DEF Bind, IsAt, Chain
      <4>2. Chain.n >= 1 /\ Chain.n \in Nat /\ a \in Ids
        BY <4>1 DEF TypeInv, Walks, Control, Chain, Threads
      <4>3. wf.out[a] \in Seq(Binding)
        BY <4>2 DEF LayoutOK
      <4> QED BY <4>1, <4>2, <4>3
    <3>2. \/ inputs' = inputs
          \/ inputs' = [inputs EXCEPT ![b.to][b.in] = outputs[a][b.from]]
      BY <2>2, <2>4 DEF Bind, Chain
    <3>3. b.to = Cleanup => outputs[a][b.from] # "skip"
      BY <3>1 DEF Unskipped
    <3>4. ASSUME NEW p \in Puts PROVE inputs'[Cleanup][p] # "skip"
      <4>1. \/ inputs'[Cleanup][p] = inputs[Cleanup][p]
            \/ b.to = Cleanup /\ inputs'[Cleanup][p] = outputs[a][b.from]
        <5>1. CASE inputs' = inputs
          BY <5>1
        <5>2. CASE inputs' = [inputs EXCEPT ![b.to][b.in] = outputs[a][b.from]]
          <6>1. b.to \in Ids /\ b.in \in Puts
            BY <3>1 DEF Binding
          <6> DEFINE f == inputs[b.to]
                     v == outputs[a][b.from]
          <6>3. inputs' = [inputs EXCEPT ![b.to] = [f EXCEPT ![b.in] = v]]
            BY <5>2
          <6>4. f \in [Puts -> Values]
            BY <6>1
          <6> HIDE DEF f, v, b, a
          <6>5. CASE b.to = Cleanup
            <7>1. inputs'[Cleanup] = [f EXCEPT ![b.in] = v]
              BY <6>1, <6>3, <6>5
            <7>2. inputs'[Cleanup][p] \in {f[p], v}
              BY <6>4, <7>1
            <7> QED BY <6>5, <7>2 DEF f, v
          <6>6. CASE b.to # Cleanup
            BY <6>1, <6>3, <6>6
          <6> QED BY <6>5, <6>6
        <5> QED BY <3>2, <5>1, <5>2
      <4> QED BY <3>3, <4>1 DEF Unskipped
    <3> QED BY <3>1, <3>4 DEF Unskipped
  <2>5. CASE ~(Execute(t) \/ Bind(t))
    <3>1. UNCHANGED <<wf, inputs, outputs>>
      BY <2>1, <2>5 DEF Step, ScheduleStarter, StartersDone, Promote, Pick,
           NothingToExecute, EndSession, ContractBroken, ActionDone, ActionSuspends,
           ActionFails, BindDone
    <3> QED BY <3>1 DEF Unskipped
  <2> QED BY <2>3, <2>4, <2>5
<1>2. CASE Begin \/ InterruptReceived \/ ErrorReceived \/ StatusReceived
  <2>1. /\ wf' = wf /\ outputs' = outputs
        /\ inputs' = inputs \/ \A p \in Puts : inputs'[Cleanup][p] = "nil"
    BY <1>2, RequestMoves
  <2> QED BY <2>1 DEF Unskipped
<1>3. CASE SubAnswered \/ OperationEnds
  <2>1. PICK s \in subs :
          /\ wf' = wf /\ inputs' = inputs
          /\ \/ \E y \in wf.yields[s.act] : outputs' = Overlay(s.act, y)
             \/ outputs' = outputs
    BY <1>3, AnswerMoves
  <2>2. s.act \in Ids
    BY DEF TypeOK, Sub
  <2> QED BY <2>1, <2>2, OverlayUnskipped DEF Unskipped
<1>4. CASE UNCHANGED vars
  BY <1>4 DEF vars, Unskipped
<1> QED BY <1>1, <1>2, <1>3, <1>4 DEF Next, Rest

-----------------------------------------------------------------------------
(* Once the request is answered, only the end is left.                     *)

\* The steps that bind Cleanup or Die.
Leading == Answering \cup {Cleanup}

\* The end is queued, or what leads there is at work.
EndAhead ==
    \/ Queue \cap Ends # {}
    \/ Chain.at \in {"exec", "result"} /\ Chain.act \in Leading
    \/ /\ Chain.at = "bind" /\ Chain.act \in Leading
       /\ \E i \in 1 .. Len(wf.out[Chain.act]) :
            Chain.n <= i /\ wf.out[Chain.act][i].to \in Ends
    \/ Chain.at = "idle" /\ Outstanding \cap Leading # {}

Closing(E) ==
    /\ Len(answers) = 1
    /\ Chain.at # "start"
    /\ Chain.at = "exec" => Chain.act \in E
    /\ Running \subseteq E \cup Answering
    /\ Inside(E)
    /\ EndAhead

Once(E) ==
    /\ Uninitialised => answers = << >>
    /\ answers # << >> /\ ~late => Closing(E)

\* A step that sends no answer while the session is closing.
LEMMA StepKeepsClosing ==
    ASSUME Sequential, SequentialInv, SequentialInv', NEW E, Parted(wf, E),
           Unfailing(wf, E), Unmixed(E), Unskipped, Closing(E), NEW t \in Threads, Step(t)
    PROVE  Closing(E)' /\ answers' = answers
<1> USE DEF tables, puts, caller, work
<1>0. /\ t = Handler /\ TypeInv /\ TypeOK /\ RunsOne /\ RunsOne'
      /\ Ends \subseteq E /\ E \subseteq Ends \cup UserIds
      /\ Finish \notin E /\ Error \notin E /\ Interrupt \notin E
  <2>1. Finish \notin E /\ Error \notin E /\ Interrupt \notin E
    BY Apart DEF Parted, Ends, StepIds
  <2> QED BY <2>1, Alone, RunsOneNow, RunsOneNext DEF SequentialInv, FitInv, TypeInv, Parted
<1> USE <1>0, AtWork
<1>1. CASE ScheduleStarter(t) \/ StartersDone(t)
  BY <1>1 DEF ScheduleStarter, StartersDone, IsAt, Chain, Closing
<1>2. CASE NothingToExecute(t)
  BY <1>2 DEF NothingToExecute, IsAt, Chain, Closing, EndAhead, Queue
<1>3. CASE ContractBroken(t) \/ ActionFails(t)
  <2>1. Chain.at = "result" /\ Chain.act \in E \cup Answering
    BY <1>3 DEF ContractBroken, ActionFails, IsAt, Chain, Closing, RunsOne
  <2>2. OutputsFit(Chain.act)
    BY <2>1 DEF OutputsFit, Unfailing
  <2>3. Chain.res # "Error"
    BY <2>1 DEF Unmixed, Unfailing
  <2> QED BY <1>3, <2>2, <2>3 DEF ContractBroken, ActionFails, Chain
<1>4. CASE Promote(t)
  <2>1. Chain' = Chain /\ Chain.at = "next"
    BY <1>4 DEF Promote, IsAt, Chain
  <2>2. Running' = {}
    BY <2>1 DEF RunsOne
  <2>3. FirstOf(pendings) \in pendings
    BY <1>4, FirstOfIn DEF Promote, Promotes
  <2>4. Queue' = Queue /\ answers' = answers
    BY <1>4, <2>3 DEF Promote, Queue
  <2> QED BY <2>1, <2>2, <2>4 DEF Closing, Inside, EndAhead
<1>5. CASE Pick(t)
  <2>1. PICK b \in nexts : b = FirstOf(nexts)
    BY <1>5, FirstOfIn DEF Pick
  <2>2. Chain'.at = "exec" /\ Chain'.act = b /\ Chain.at = "next"
    BY <1>5, <2>1, Moved DEF Pick, At, IsAt, Chain
  <2>3. Queue' = Queue /\ answers' = answers /\ b \in Queue
    BY <1>5, <2>1 DEF Pick, Queue
  <2>4. Running' \subseteq Running
    BY <1>5, <2>2 DEF Running, Pick, Outstanding
  <2> QED BY <2>2, <2>3, <2>4 DEF Closing, Inside, EndAhead
<1>6. CASE EndSession(t)
  <2>1. Chain'.at = "idle" /\ Chain.at = "exec" /\ Chain.act = Die
    BY <1>6, Moved DEF EndSession, Idle, At, IsAt, Chain
  <2>2. Running' \subseteq Running
    BY <1>6, <2>1 DEF EndSession, Running, Outstanding
  <2>3. Queue' = Queue /\ answers' = answers
    BY <1>6 DEF EndSession, Queue
  <2>4. Queue \cap Ends # {}
    BY <2>1, Apart DEF Closing, EndAhead, Leading, Answering
  <2> QED BY <2>1, <2>2, <2>3, <2>4 DEF Closing, Inside, EndAhead
<1>7. CASE Execute(t)
  <2>1. PICK a \in Ids : a = Chain.act /\ a # Die /\ Chain.at = "exec"
    BY <1>7 DEF Execute, IsAt, Chain
  <2>2. a \in E /\ a \notin Answering /\ a # Interrupt
    BY <2>1 DEF Closing, Answering
  <2>3. PICK r : Go(t, [At("result", a) EXCEPT !.res = r])
    BY <1>7, <2>1 DEF Execute, Chain
  <2>4. Chain'.at = "result" /\ Chain'.act = a
    BY <2>3, Moved DEF At
  <2>5. Running' = {a}
    BY <2>4 DEF RunsOne
  <2>6. answers' = answers
    <3>1. Answer(a) = << >>
      BY <2>2 DEF Answer, Answering
    <3> QED BY <1>7, <2>1, <3>1 DEF Execute, Chain, TypeOK
  <2>7. CASE Restarts(a)
    <3>1. Queue' = {} /\ a = Cleanup
      BY <1>7, <2>1, <2>2, <2>7 DEF Execute, Queue, Chain, Restarts, Answering
    <3> QED BY <2>2, <2>4, <2>5, <2>6, <3>1 DEF Closing, Inside, EndAhead, Leading
  <2>8. CASE ~Restarts(a)
    <3>1. Queue' = Queue \ {a} /\ a \notin Leading /\ a \notin Ends
      BY <1>7, <2>1, <2>2, <2>8 DEF Execute, Queue, Chain, Restarts, Leading, Ends
    <3>2. Queue \cap Ends # {}
      BY <2>1, <3>1 DEF Closing, EndAhead
    <3> QED BY <2>2, <2>4, <2>5, <2>6, <3>1, <3>2 DEF Closing, Inside, EndAhead
  <2> QED BY <2>7, <2>8
<1>8. CASE ActionDone(t)
  <2>1. /\ Chain' = [Chain EXCEPT !.at = "bind", !.n = 1]
        /\ Chain.at = "result" /\ UNCHANGED <<wf, nexts, pendings, answers>>
    BY <1>8, Moved DEF ActionDone, IsAt, Chain
  <2>2. Chain'.at = "bind" /\ Chain'.act = Chain.act /\ Chain'.n = 1
    BY <2>1 DEF Control
  <2>3. Running' \subseteq Running /\ Queue' = Queue
    BY <2>1, <2>2 DEF RunsOne, Queue
  <2>4. ASSUME Chain.act \in Leading
        PROVE  \E i \in 1 .. Len(wf.out[Chain.act]) : wf.out[Chain.act][i].to \in Ends
    BY <2>4 DEF Unfailing, Leading, Into, Ends
  <2>5. EndAhead'
    <3>1. CASE Queue \cap Ends # {}
      BY <2>3, <3>1 DEF EndAhead
    <3>2. CASE Queue \cap Ends = {}
      <4>1. Chain.act \in Leading
        BY <2>1, <3>2 DEF Closing, EndAhead
      <4>2. PICK i \in 1 .. Len(wf.out[Chain.act]) : wf.out[Chain.act][i].to \in Ends
        BY <2>4, <4>1
      <4>3. i >= 1
        OBVIOUS
      <4> QED BY <2>1, <2>2, <4>1, <4>2, <4>3 DEF EndAhead
    <3> QED BY <3>1, <3>2
  <2> QED BY <2>1, <2>2, <2>3, <2>5 DEF Closing, Inside
<1>9. CASE ActionSuspends(t)
  <2>1. /\ Chain'.at = "idle" /\ Chain.at = "result"
        /\ UNCHANGED <<wf, nexts, pendings, answers>>
    BY <1>9, Moved DEF ActionSuspends, Idle, At, IsAt, Chain
  <2>2. /\ Outstanding' \subseteq Outstanding \cup {Chain.act}
        /\ Chain.act \in Outstanding'
    BY <1>9, <2>1 DEF ActionSuspends, Outstanding, Chain
  <2>3. Running' \subseteq Running /\ Queue' = Queue
    BY <2>1, <2>2 DEF Running, Queue
  <2>4. EndAhead'
    BY <2>1, <2>2, <2>3 DEF Closing, EndAhead
  <2> QED BY <2>1, <2>3, <2>4 DEF Closing, Inside
<1>10. CASE Bind(t)
  <2> DEFINE a == Chain.act
             b == wf.out[a][Chain.n].to
  <2>1. /\ Chain.at = "bind" /\ Chain.n \in 1 .. Len(wf.out[a])
        /\ UNCHANGED <<wf, answers>> /\ Go(t, [Chain EXCEPT !.n = @ + 1])
    <3>1. /\ Chain.at = "bind" /\ Chain.n <= Len(wf.out[a]) /\ UNCHANGED <<wf, answers>>
          /\ Go(t, [Chain EXCEPT !.n = @ + 1])
      BY <1>10 DEF Bind, IsAt, Chain
    <3>2. Chain.n >= 1 /\ Chain.n \in Nat
      BY <3>1 DEF TypeInv, Walks, Control, Chain, Threads
    <3>3. Len(wf.out[a]) \in Nat
      BY <3>1 DEF LayoutOK
    <3> QED BY <3>1, <3>2, <3>3
  <2>2. Chain'.at = "bind" /\ Chain'.act = a /\ Chain'.n = Chain.n + 1
    BY <2>1, Moved DEF Control
  <2>3. Running' = {a} /\ Running = {a}
    BY <2>1, <2>2 DEF RunsOne
  <2>4. b \in Into(wf, a)
    BY <2>1 DEF Into
  <2>5. b \in E
    BY <2>3, <2>4 DEF Closing, Parted
  <2>6. PICK place : /\ Place(b, place)
                     /\ b \in Ends => place \in {"Planned", "Pending"}
    <3>1. CASE b = Die
      BY <1>10, <3>1 DEF Bind, Chain, LayoutOK
    <3>2. CASE b # Die
      <4>1. PICK place \in Verdicts(inputs', b) : Place(b, place)
        BY <1>10, <3>2 DEF Bind, Chain
      <4>2. ASSUME b = Cleanup PROVE place \in {"Planned", "Pending"}
        <5>1. Unskipped'
          <6>1. [Next]_vars
            BY DEF Next
          <6> QED BY <6>1, NextKeepsUnskipped
        <5>2. ~Skips(inputs', b)
          BY <4>2, <5>1 DEF Unskipped, Skips
        <5>3. InputsFit(inputs', b)
          BY <4>2 DEF InputsFit, Unfailing
        <5> QED BY <4>1, <5>2, <5>3 DEF Verdicts, CanPend
      <4> QED BY <3>2, <4>1, <4>2 DEF Ends
    <3> QED BY <3>1, <3>2
  <2>7. /\ Queue' \subseteq Queue \cup {b} /\ Queue \subseteq Queue' \cup {b}
        /\ b \in Ends => b \in Queue'
    BY <2>6, PlaceQueues
  <2>8. EndAhead'
    <3>1. CASE Queue \cap Ends # {}
      BY <2>7, <3>1 DEF EndAhead
    <3>2. CASE b \in Ends
      BY <2>7, <3>2 DEF EndAhead
    <3>3. CASE Queue \cap Ends = {} /\ b \notin Ends
      <4>1. PICK i \in 1 .. Len(wf.out[a]) : Chain.n <= i /\ wf.out[a][i].to \in Ends
        BY <2>1, <3>3 DEF Closing, EndAhead
      <4>2. a \in Leading
        BY <2>1, <3>3 DEF Closing, EndAhead
      <4>3. i # Chain.n
        BY <3>3, <4>1
      <4>4. Chain.n + 1 <= i
        BY <2>1, <4>1, <4>3
      <4> QED BY <2>1, <2>2, <4>1, <4>2, <4>4 DEF EndAhead
    <3> QED BY <3>1, <3>2, <3>3
  <2>9. Inside(E)'
    BY <2>5, <2>7 DEF Closing, Inside
  <2> QED BY <2>1, <2>2, <2>3, <2>8, <2>9 DEF Closing
<1>11. CASE BindDone(t)
  <2>1. Chain.at = "bind" /\ Chain.res # "Finish" /\ Chain.n > Len(wf.out[Chain.act])
    BY <1>11 DEF BindDone, IsAt, Unmixed, Unfailing, Chain
  <2>2. Chain'.at = "next"
    BY <1>11, <2>1, Moved DEF BindDone, At, Chain
  <2>3. Running' = {} /\ Queue' = Queue /\ answers' = answers
    BY <1>11, <2>2 DEF RunsOne, BindDone, Queue
  <2>4. Queue \cap Ends # {}
    <3>1. Len(wf.out[Chain.act]) \in Nat /\ Chain.n \in Nat
      BY <2>1 DEF LayoutOK, Control
    <3> QED BY <2>1, <3>1 DEF Closing, EndAhead
  <2> QED BY <2>2, <2>3, <2>4 DEF Closing, Inside, EndAhead
<1> QED BY <1>1, <1>2, <1>3, <1>4, <1>5, <1>6, <1>7, <1>8, <1>9, <1>10, <1>11 DEF Step

\* The step that sends the first answer starts the end.
LEMMA AnswerCloses ==
    ASSUME Sequential, SequentialInv, SequentialInv', NEW E, Unmixed(E),
           answers = << >>, Execute(Handler)
    PROVE  answers' # << >> => Closing(E)' /\ Chain.act \in Answering
<1> USE DEF tables, puts, caller, work
<1>0. TypeInv /\ TypeOK /\ RunsOne'
  BY RunsOneNext DEF SequentialInv, FitInv, TypeInv
<1> USE <1>0, AtWork
<1> SUFFICES ASSUME answers' # << >> PROVE Closing(E)' /\ Chain.act \in Answering
  OBVIOUS
<1>1. PICK a \in Ids : a = Chain.act /\ Chain.at = "exec"
  BY DEF Execute, IsAt, Chain
<1>2. PICK r : Go(Handler, [At("result", a) EXCEPT !.res = r])
  BY <1>1 DEF Execute, Chain
<1>3. Chain'.at = "result" /\ Chain'.act = a
  BY <1>2, Moved DEF At
<1>4. Running' = {a}
  BY <1>3 DEF RunsOne
<1>5. a \in Answering /\ Answer(a) \in {<<"Reply">>, <<"Error">>}
  <2>1. answers' = answers \o Answer(a)
    BY <1>1 DEF Execute, Chain
  <2>2. ASSUME Answer(a) = << >> PROVE FALSE
    BY <2>1, <2>2
  <2> QED BY <2>2 DEF Answer, Answering
<1>6. Len(answers') = 1
  BY <1>1, <1>5 DEF Execute, Chain
<1>7. Queue' = {}
  <2>1. CASE a = Finish
    <3>1. ~Restarts(a) /\ Queue \subseteq {Finish}
      BY <1>1, <2>1, Apart DEF Unmixed, Restarts
    <3> QED BY <1>1, <2>1, <3>1 DEF Execute, Queue, Chain
  <2>2. CASE a # Finish
    BY <1>1, <1>5, <2>2 DEF Execute, Queue, Chain, Answering, Restarts
  <2> QED BY <2>1, <2>2
<1> QED BY <1>1, <1>3, <1>4, <1>5, <1>6, <1>7 DEF Closing, Inside, EndAhead, Leading

LEMMA StepKeepsOnce ==
    ASSUME Sequential, SequentialInv, SequentialInv', NEW E, Parted(wf, E),
           Unfailing(wf, E), Unmixed(E), Unskipped, Once(E), NEW t \in Threads, Step(t)
    PROVE  Once(E)'
<1>1. t = Handler /\ ~Uninitialised' /\ late' = late
  <2>1. late' = late
    BY DEF caller, Step, ScheduleStarter, StartersDone, Promote, Pick, NothingToExecute,
           EndSession, Execute, ContractBroken, ActionDone, ActionSuspends, ActionFails,
           Bind, BindDone
  <2> QED BY <2>1, Alone, StepStarted DEF SequentialInv
<1>2. CASE answers # << >> /\ ~late
  BY <1>1, <1>2, StepKeepsClosing DEF Once
<1>3. CASE answers = << >>
  <2>1. CASE Execute(t)
    BY <1>1, <1>3, <2>1, AnswerCloses DEF Once
  <2>2. CASE ~Execute(t)
    <3>1. answers' = answers
      BY <2>2 DEF caller, Step, ScheduleStarter, StartersDone, Promote, Pick,
           NothingToExecute, EndSession, ContractBroken, ActionDone, ActionSuspends,
           ActionFails, Bind, BindDone
    <3> QED BY <1>1, <1>3, <3>1 DEF Once
  <2> QED BY <2>1, <2>2
<1>4. CASE late
  BY <1>1, <1>4 DEF Once
<1> QED BY <1>2, <1>3, <1>4

LEMMA RequestKeepsOnce ==
    ASSUME SequentialInv, NEW E, Once(E),
           Begin \/ InterruptReceived \/ ErrorReceived \/ StatusReceived
    PROVE  Once(E)'
<1>1. answers' = answers
  BY RequestMoves
<1>2. CASE Uninitialised /\ ~Uninitialised'
  BY <1>1, <1>2 DEF Once
<1>3. CASE \E a : Impose(a) /\ ~Uninitialised'
  BY <1>1, <1>3 DEF Once, Impose
<1>4. CASE UNCHANGED <<Queue, Running, Chain, late, inputs, Uninitialised, Outstanding>>
           /\ wf' = wf
  BY <1>1, <1>4 DEF Once, Closing, Inside, EndAhead
<1> QED BY <1>2, <1>3, <1>4, RequestMoves

LEMMA AnswerKeepsOnce ==
    ASSUME Sequential, SequentialInv, SequentialInv', NEW E, Once(E),
           SubAnswered \/ OperationEnds
    PROVE  Once(E)'
<1>0. RunsOne /\ RunsOne' /\ wf' = wf /\ answers' = answers /\ Chain.at = "idle"
      /\ OneAtWork
  BY RunsOneNow, RunsOneNext, AnswerMoves DEF SequentialInv
<1>1. CASE /\ UNCHANGED <<Queue, Outstanding, late, Uninitialised>>
           /\ Chain'.at = "result" /\ Chain'.act \in Outstanding
  <2>1. Running' = {Chain'.act} /\ Running' \subseteq Running
    BY <1>0, <1>1 DEF RunsOne
  <2>2. \A a \in Outstanding : a = Chain'.act
    BY <1>0, <1>1 DEF OneAtWork
  <2>3. ASSUME Closing(E) PROVE Closing(E)'
    BY <1>0, <1>1, <2>1, <2>2, <2>3 DEF Closing, Inside, EndAhead
  <2> QED BY <1>0, <1>1, <2>3 DEF Once
<1>2. CASE UNCHANGED <<Queue, Outstanding, Running, Chain, late, outputs, Uninitialised>>
  BY <1>0, <1>2 DEF Once, Closing, Inside, EndAhead
<1>3. CASE Impose(Error) /\ ~Uninitialised'
  BY <1>0, <1>3 DEF Once, Impose
<1> QED BY <1>1, <1>2, <1>3, AnswerMoves

-----------------------------------------------------------------------------
(* One answer.                                                             *)

FlowInv(F) ==
    /\ SequentialInv /\ Unskipped
    /\ \A E : E = F[wf] => Unmixed(E) /\ Once(E)

LEMMA FlowInit == ASSUME NEW F PROVE Init => FlowInv(F)
<1> SUFFICES ASSUME Init, NEW E PROVE Unmixed(E) /\ Once(E) /\ Unskipped
  BY SequentialInit DEF FlowInv
<1>1. Chain.at = "idle"
  BY DEF Init, Idle, At, Chain, Threads
<1>2. \A a \in Ids : status[a] = "Absent"
  BY DEF Init
<1>3. Running = {} /\ Queue = {}
  BY <1>1, <1>2 DEF Init, Running, Outstanding, Queue
<1>4. Unskipped
  <2>1. Cleanup \in Ids /\ LayoutOK(wf)
    BY StepsAreIds, LayoutsAssumption DEF Init, LayoutsAssumption
  <2>2. \A a \in Ids, p \in Puts : inputs[a][p] = "nil" /\ outputs[a][p] = "nil"
    BY DEF Init
  <2>3. ASSUME NEW a \in Ids, NEW i \in 1 .. Len(wf.out[a]) PROVE wf.out[a][i].from \in Puts
    <3>1. wf.out[a] \in Seq(Binding)
      BY <2>1 DEF LayoutOK
    <3>2. wf.out[a][i] \in Binding
      BY <3>1
    <3> QED BY <3>2 DEF Binding
  <2> QED BY <2>1, <2>2, <2>3 DEF Unskipped
<1> QED BY <1>1, <1>3, <1>4 DEF Init, Unmixed, Inside, Outside, Once

LEMMA FlowNext ==
    ASSUME Sequential, NEW F, Orderly(F)
    PROVE  FlowInv(F) /\ [Next]_vars => FlowInv(F)'
<1> SUFFICES ASSUME FlowInv(F), [Next]_vars PROVE FlowInv(F)'
  OBVIOUS
<1>1. SequentialInv /\ SequentialInv' /\ Unskipped
  BY SequentialNext DEF FlowInv
<1>2. wf' = wf /\ wf \in Layouts
  <2>1. wf \in Layouts
    BY <1>1 DEF SequentialInv, FitInv, TypeInv, TypeOK
  <2> QED BY <2>1
     DEF vars, Next, Begin, FirstCall, InterruptReceived, ErrorReceived, StatusReceived,
         SubAnswered, ReplyTaken, ReplyIgnored, ErrorCaught, ErrorForced, OperationEnds,
         AsyncFinished, Step, ScheduleStarter, StartersDone, Promote, Pick,
         NothingToExecute, EndSession, Execute, ContractBroken, ActionDone,
         ActionSuspends, ActionFails, Bind, BindDone, Rest
<1>3. SUFFICES ASSUME NEW E, E = F[wf] PROVE Unmixed(E)' /\ Once(E)' /\ Unskipped'
  BY <1>1, <1>2 DEF FlowInv
<1>4. Parted(wf, E) /\ Unfailing(wf, E) /\ Unmixed(E) /\ Once(E)
  BY <1>2, <1>3 DEF FlowInv, Orderly
<1>5. Unskipped'
  BY <1>1, <1>4, NextKeepsUnskipped
<1>6. Interrupt \notin E /\ Error \notin E
  BY <1>4, Apart DEF Parted, Ends, StepIds
<1>7. CASE UNCHANGED vars
  <2>1. UNCHANGED <<Queue, Running, Chain, late, answers, Uninitialised, Outstanding, wf>>
    BY <1>7 DEF vars, tables, puts, caller, work, Queue, Running, Outstanding, Chain,
                Uninitialised
  <2> QED BY <1>4, <1>5, <2>1 DEF Unmixed, Inside, Outside, Closes, Once, Closing, EndAhead
<1>8. CASE \E t \in Threads : Step(t)
  BY <1>1, <1>4, <1>5, <1>8, StepKeepsUnmixed, StepKeepsOnce
<1>9. CASE Begin \/ InterruptReceived \/ ErrorReceived \/ StatusReceived
  BY <1>1, <1>4, <1>5, <1>6, <1>9, RequestKeepsUnmixed, RequestKeepsOnce
<1>10. CASE SubAnswered \/ OperationEnds
  BY <1>1, <1>4, <1>5, <1>6, <1>10, AnswerKeepsUnmixed, AnswerKeepsOnce
<1> QED BY <1>7, <1>8, <1>9, <1>10 DEF Next, Rest

LEMMA FlowInvariant ==
    ASSUME Sequential, NEW CONSTANT F, Orderly(F)
    PROVE  Spec => []FlowInv(F)
<1>1. Init => FlowInv(F)
  BY FlowInit
<1>2. FlowInv(F) /\ [Next]_vars => FlowInv(F)'
  BY FlowNext
<1> QED BY <1>1, <1>2, PTL DEF Spec

\* A caller whose session is not interrupted or struck by an error after it was
\* answered gets one answer: after Finish or Error nothing is queued but the end,
\* which is not empty before Die and fails in none of its actions.
THEOREM OneAnswerOnly ==
    ASSUME Sequential, NEW CONSTANT F, Orderly(F)
    PROVE  Spec => []OneAnswer
<1>1. FlowInv(F) => OneAnswer
  <2> SUFFICES ASSUME FlowInv(F), ~late PROVE Len(answers) <= 1
    BY DEF OneAnswer
  <2>1. PICK E : E = F[wf]
    OBVIOUS
  <2>2. answers # << >> => Len(answers) = 1
    BY <2>1 DEF FlowInv, Once, Closing
  <2>3. answers = << >> => Len(answers) = 0
    OBVIOUS
  <2> DEFINE n == Len(answers)
  <2>4. n = 0 \/ n = 1
    BY <2>2, <2>3
  <2> HIDE DEF n
  <2>5. n <= 1
    BY <2>4
  <2> QED BY <2>5 DEF n
<1> QED BY <1>1, FlowInvariant, PTL

-----------------------------------------------------------------------------
(* The terminal steps come last.                                           *)

\* Only Cleanup leads to Die, and nowhere else, as StateMachine::init has it.
StraightEnd ==
    \A w \in Layouts : /\ Into(w, Cleanup) = {Die}
                       /\ \A a \in Ids \ {Cleanup} : Die \notin Into(w, a)

\* Die is queued when Cleanup has forgotten everything else.
DieAlone ==
    /\ Die \in Queue =>
        /\ Queue = {Die} /\ Running \subseteq {Cleanup}
        /\ Chain.at = "exec" => Chain.act = Die \/ Restarts(Chain.act)
    /\ Cleanup \in Running => Queue \subseteq {Die}

LEMMA DieStays ==
    ASSUME DieAlone, Queue' = Queue, Running' \subseteq Running,
           Chain'.at = "exec" => Restarts(Chain'.act)
    PROVE  DieAlone'
  BY DEF DieAlone

LEMMA StepKeepsDie ==
    ASSUME Sequential, StraightEnd, SequentialInv, SequentialInv', DieAlone,
           NEW E, Parted(wf, E), Unmixed(E)', NEW t \in Threads, Step(t)
    PROVE  DieAlone'
<1> USE DEF tables, puts, caller, work
<1>0. t = Handler /\ TypeInv /\ TypeOK /\ RunsOne /\ RunsOne' /\ wf \in Layouts
  BY Alone, RunsOneNow, RunsOneNext DEF SequentialInv, FitInv, TypeInv, TypeOK
<1> USE <1>0, AtWork
<1>1. CASE ScheduleStarter(t)
  <2>1. Chain'.at = "start"
    BY <1>1, Moved DEF ScheduleStarter, IsAt, Chain, Control
  <2> QED BY <2>1, Apart DEF DieAlone, RunsOne, Unmixed, Outside, Parted, Ends
<1>2. CASE StartersDone(t) \/ Promote(t) \/ BindDone(t)
  <2>1. Queue' = Queue
    <3>1. Promote(t) => FirstOf(pendings) \in pendings
      BY FirstOfIn DEF Promote, Promotes
    <3> QED BY <1>2, <3>1 DEF StartersDone, Promote, BindDone, Queue
  <2>2. CASE Chain'.at = "next"
    BY <2>1, <2>2, DieStays DEF RunsOne
  <2>3. CASE BindDone(t) /\ Chain.res = "Finish"
    <3>1. Chain'.at = "exec" /\ Chain'.act = Finish /\ Chain.at = "bind"
      BY <2>3, Moved DEF BindDone, At, IsAt, Chain
    <3>2. Running' = {}
      BY <3>1, Apart DEF RunsOne
    <3>3. ASSUME Die \in Queue PROVE FALSE
      <4>1. Queue' \subseteq {Finish}
        BY <3>1, Apart DEF Unmixed, Restarts
      <4> QED BY <2>1, <3>3, <4>1, Apart
    <3> QED BY <2>1, <3>2, <3>3 DEF DieAlone
  <2>4. Chain'.at = "next" \/ (BindDone(t) /\ Chain.res = "Finish")
    <3>1. CASE StartersDone(t)
      BY <3>1, Moved DEF StartersDone, At
    <3>2. CASE Promote(t)
      BY <3>2 DEF Promote, IsAt, Chain
    <3>3. CASE BindDone(t)
      BY <3>3, Moved DEF BindDone, At, Chain
    <3> QED BY <1>2, <3>1, <3>2, <3>3
  <2> QED BY <2>2, <2>3, <2>4
<1>3. CASE Pick(t)
  <2>1. PICK b \in nexts : b = FirstOf(nexts)
    BY <1>3, FirstOfIn DEF Pick
  <2>2. Chain'.at = "exec" /\ Chain'.act = b /\ Chain.at = "next"
    BY <1>3, <2>1, Moved DEF Pick, At, IsAt, Chain
  <2>3. Queue' = Queue /\ b \in Queue
    BY <1>3, <2>1 DEF Pick, Queue
  <2>4. Running' \subseteq Running
    BY <1>3, <2>2 DEF Running, Pick, Outstanding
  <2> QED BY <2>2, <2>3, <2>4 DEF DieAlone
<1>4. CASE NothingToExecute(t)
  <2>1. PICK a \in Answering : Queue' = {a} /\ Go(t, At("exec", a))
    BY <1>4 DEF NothingToExecute, Queue, Answering
  <2>2. Chain'.at = "exec"
    BY <2>1, Moved DEF At
  <2>3. Outstanding = {}
    BY <1>4 DEF NothingToExecute, IsAt, RunsOne, Running, Chain, Outstanding
  <2>4. Outstanding' = {}
    BY <1>4, <2>3, NoneOutstanding DEF NothingToExecute
  <2>5. Running' = {}
    BY <2>2, <2>4 DEF Running
  <2> QED BY <2>1, <2>5, Apart DEF DieAlone, Answering
<1>5. CASE EndSession(t)
  <2>1. Chain'.at = "idle"
    BY <1>5, Moved DEF EndSession, Idle, At
  <2>2. Running' \subseteq Running /\ Queue' = Queue
    BY <1>5, <2>1 DEF EndSession, Running, Outstanding, Queue
  <2> QED BY <2>1, <2>2, DieStays
<1>6. CASE Execute(t)
  <2>1. PICK a \in Ids : a = Chain.act /\ a # Die /\ Chain.at = "exec"
    BY <1>6 DEF Execute, IsAt, Chain
  <2>2. PICK r : Go(t, [At("result", a) EXCEPT !.res = r])
    BY <1>6, <2>1 DEF Execute, Chain
  <2>3. Chain'.at = "result" /\ Chain'.act = a
    BY <2>2, Moved DEF At
  <2>4. Running' = {a}
    BY <2>3 DEF RunsOne
  <2>5. CASE Restarts(a)
    <3>1. Queue' = {}
      BY <1>6, <2>1, <2>5 DEF Execute, Queue, Chain
    <3> QED BY <3>1 DEF DieAlone
  <2>6. CASE ~Restarts(a)
    <3>1. Queue' = Queue \ {a}
      BY <1>6, <2>1, <2>6 DEF Execute, Queue, Chain
    <3> QED BY <2>1, <2>4, <2>6, <3>1 DEF DieAlone, Restarts
  <2> QED BY <2>5, <2>6
<1>7. CASE ContractBroken(t) \/ ActionFails(t)
  <2>1. Chain'.at = "exec" /\ Chain'.act = Error /\ Chain.at = "result" /\ Chain.act \in Ids
    BY <1>7, Moved DEF ContractBroken, ActionFails, At, IsAt, Chain
  <2>2. Outstanding' \subseteq Outstanding /\ Queue' = Queue
    BY <1>7, <2>1 DEF ContractBroken, ActionFails, Outstanding, Chain, Queue
  <2>3. Running' \subseteq Running
    BY <2>1, <2>2 DEF Running
  <2> QED BY <2>1, <2>2, <2>3, DieStays DEF Restarts
<1>8. CASE ActionDone(t)
  <2>1. Chain' = [Chain EXCEPT !.at = "bind", !.n = 1] /\ Chain.at = "result"
    BY <1>8, Moved DEF ActionDone, IsAt, Chain
  <2>2. Chain'.at = "bind" /\ Chain'.act = Chain.act
    BY <2>1 DEF Control
  <2>3. Running' \subseteq Running /\ Queue' = Queue
    BY <1>8, <2>1, <2>2 DEF RunsOne, Queue, ActionDone
  <2> QED BY <2>2, <2>3, DieStays
<1>9. CASE ActionSuspends(t)
  <2>1. Chain'.at = "idle" /\ Chain.at = "result" /\ Queue' = Queue
    BY <1>9, Moved DEF ActionSuspends, Idle, At, IsAt, Chain, Queue
  <2>2. Outstanding' \subseteq Outstanding \cup {Chain.act}
    BY <1>9 DEF ActionSuspends, Outstanding, Chain
  <2>3. Running' \subseteq Running
    BY <2>1, <2>2 DEF Running
  <2> QED BY <2>1, <2>3, DieStays
<1>10. CASE Bind(t)
  <2> DEFINE a == Chain.act
  <2>1. /\ a \in Ids /\ Chain.at = "bind" /\ Go(t, [Chain EXCEPT !.n = @ + 1])
        /\ Chain.n \in 1 .. Len(wf.out[a])
    <3>1. /\ Chain.at = "bind" /\ Chain.n <= Len(wf.out[a])
          /\ Go(t, [Chain EXCEPT !.n = @ + 1])
      BY <1>10 DEF Bind, IsAt, Chain
    <3>2. Chain.n >= 1 /\ Chain.n \in Nat /\ a \in Ids
      BY <3>1 DEF TypeInv, Walks, Control, Chain, Threads
    <3>3. Len(wf.out[a]) \in Nat
      BY <3>1 DEF LayoutOK
    <3> QED BY <3>1, <3>2, <3>3
  <2>2. Chain'.at = "bind" /\ Chain'.act = a
    BY <2>1, Moved DEF Control
  <2>3. Running' = {a} /\ Running = {a}
    BY <2>1, <2>2 DEF RunsOne
  <2>4. PICK b \in Into(wf, a) : \E place : Place(b, place)
    BY <1>10, <2>1 DEF Bind, Into, Chain
  <2>5. Queue' \subseteq Queue \cup {b}
    BY <2>4, PlaceQueues
  <2>6. CASE a = Cleanup
    <3>1. b = Die
      BY <2>4, <2>6 DEF StraightEnd
    <3> QED BY <2>2, <2>3, <2>5, <2>6, <3>1 DEF DieAlone
  <2>7. CASE a # Cleanup
    <3>1. b # Die
      BY <2>1, <2>4, <2>7 DEF StraightEnd
    <3> QED BY <2>3, <2>5, <2>7, <3>1 DEF DieAlone
  <2> QED BY <2>6, <2>7
<1> QED BY <1>1, <1>2, <1>3, <1>4, <1>5, <1>6, <1>7, <1>8, <1>9, <1>10 DEF Step

LEMMA DieNext ==
    ASSUME Sequential, StraightEnd, NEW F, Orderly(F), FlowInv(F), FlowInv(F)', DieAlone,
           [Next]_vars
    PROVE  DieAlone'
<1>0. SequentialInv /\ SequentialInv' /\ TypeInv
  BY DEF FlowInv, SequentialInv, FitInv
<1>1. CASE UNCHANGED vars
  <2>1. UNCHANGED <<Queue, Running, Chain>>
    BY <1>1 DEF vars, tables, puts, caller, work, Queue, Running, Outstanding, Chain
  <2> QED BY <2>1 DEF DieAlone
<1>2. CASE \E t \in Threads : Step(t)
  <2>1. PICK E : E = F[wf]
    OBVIOUS
  <2>2. wf' = wf /\ Parted(wf, E)
    <3>1. wf' = wf
      BY <1>2 DEF Step, ScheduleStarter, StartersDone, Promote, Pick, NothingToExecute,
           EndSession, Execute, ContractBroken, ActionDone, ActionSuspends, ActionFails,
           Bind, BindDone
    <3> QED BY <1>0, <2>1, <3>1 DEF Orderly, TypeInv, TypeOK
  <2>3. Unmixed(E)'
    BY <2>1, <2>2 DEF FlowInv
  <2> QED BY <1>0, <1>2, <2>2, <2>3, StepKeepsDie
<1>3. CASE Begin \/ InterruptReceived \/ ErrorReceived \/ StatusReceived
  <2>1. CASE Queue' = {}
    BY <2>1 DEF DieAlone
  <2>2. ASSUME NEW a \in {Interrupt, Error}, Impose(a),
               \/ Chain'.at = "idle"
               \/ Chain'.at = "exec" /\ Chain'.act = a
        PROVE  DieAlone'
    BY <1>0, <2>2, ImposeAlone, Apart DEF DieAlone
  <2>3. CASE UNCHANGED <<Queue, Running, Chain>>
    BY <2>3 DEF DieAlone
  <2> QED BY <1>0, <1>3, <2>1, <2>2, <2>3, RequestMoves
<1>4. CASE SubAnswered \/ OperationEnds
  <2>0. RunsOne /\ RunsOne' /\ Chain.at = "idle"
    BY <1>0, <1>4, RunsOneNow, RunsOneNext, AnswerMoves
  <2>1. CASE Queue' = Queue /\ Chain'.at = "result" /\ Chain'.act \in Outstanding
    <3>1. Running' \subseteq Running
      BY <2>0, <2>1 DEF RunsOne
    <3> QED BY <2>1, <3>1, DieStays
  <2>2. CASE Impose(Error) /\ Chain'.at = "exec" /\ Chain'.act = Error
    BY <1>0, <2>2, ImposeAlone, Apart DEF DieAlone
  <2>3. CASE UNCHANGED <<Queue, Running, Chain>>
    BY <2>3 DEF DieAlone
  <2> QED BY <1>0, <1>4, <2>1, <2>2, <2>3, AnswerMoves
<1> QED BY <1>1, <1>2, <1>3, <1>4 DEF Next, Rest

\* No two terminal steps are queued.
LEMMA OneTerminal ==
    ASSUME NEW E, Parted(wf, E), Unmixed(E), DieAlone
    PROVE  \A a, b \in Queue \cap Terminal : a = b
<1>1. Finish \notin E
  BY Apart DEF Parted, Ends, StepIds
<1>2. CASE Inside(E)
  BY <1>1, <1>2 DEF Inside, DieAlone, Terminal
<1>3. CASE Outside(E)
  BY <1>3 DEF Outside, Parted, Ends, Terminal
<1> QED BY <1>2, <1>3 DEF Unmixed

\* getNext picks Finish, Cleanup or Die when no user's action is planned or
\* pending, in every session, those interrupted or ended by an error included.
THEOREM TerminalIsLast ==
    ASSUME Sequential, NEW CONSTANT F, Orderly(F), StraightEnd
    PROVE  Spec => TerminalLast
<1> DEFINE Inv == FlowInv(F) /\ DieAlone
<1>1. Init => Inv
  <2> SUFFICES ASSUME Init PROVE DieAlone
    BY FlowInit
  <2>1. Chain.at = "idle" /\ Queue = {}
    BY DEF Init, Idle, At, Chain, Threads, Queue
  <2> QED BY <2>1 DEF DieAlone
<1>2. Inv /\ [Next]_vars => Inv'
  BY FlowNext, DieNext
<1>3. ASSUME Inv, NEW t \in Threads, Pick(t), ctl'[t].act \in Terminal
      PROVE  (nexts \cup pendings) \cap UserIds = {}
  <2>1. PICK E : E = F[wf]
    OBVIOUS
  <2>2. TypeInv /\ Parted(wf, E) /\ Unmixed(E) /\ t = Handler
    BY <1>3, <2>1, Alone DEF FlowInv, SequentialInv, FitInv, TypeInv, TypeOK, Orderly
  <2>3. \A a, b \in Queue \cap Terminal : a = b
    BY <1>3, <2>2, OneTerminal
  <2>4. FirstOf(nexts) \in Terminal /\ nexts \subseteq Ids /\ nexts # {}
    <3>1. Chain' = At("exec", FirstOf(nexts))
      BY <1>3, <2>2, Moved DEF Pick, TypeInv
    <3> QED BY <1>3, <2>2, <3>1 DEF Pick, At, Chain, TypeInv, TypeOK
  <2>5. nexts = {FirstOf(nexts)}
    BY <2>3, <2>4, TerminalAlone DEF Queue
  <2>6. pendings = {}
    BY <1>3, <2>4, <2>5 DEF Pick, Promotes
  <2> QED BY <2>4, <2>5, <2>6, Apart DEF Terminal, StepIds
<1>4. Inv => \A t \in Threads : Pick(t) /\ ctl'[t].act \in Terminal
                                    => (nexts \cup pendings) \cap UserIds = {}
  BY <1>3
<1> QED BY <1>1, <1>2, <1>4, PTL DEF Spec, TerminalLast

-----------------------------------------------------------------------------
(* A session is a call.                                                    *)

\* The end does not call other workflows, and no action leads to Interrupt.
Quick(F) == \A w \in Layouts :
    /\ \A a \in F[w] \cup Answering : "Wait" \notin w.does[a] \cup w.later[a]
    /\ \A a \in Ids : Interrupt \notin Into(w, a)

\* Nobody interrupts, and nothing that is still to be answered is left at the end.
Calm(E) ==
    /\ ~late
    /\ Interrupt \notin Queue \cup Running
    /\ Chain.at = "exec" => Chain.act # Interrupt
    /\ IF answers = << >>
       THEN /\ ~ended /\ Outside(E) /\ Running \cap (E \cup Answering) = {}
            /\ Chain.at = "exec" => Chain.act \notin E
       ELSE subs = {}

LEMMA StepKeepsCalm ==
    ASSUME Sequential, Undisturbed, SequentialInv, SequentialInv', SubsCurrent, NEW E,
           Parted(wf, E), Unfailing(wf, E), Unmixed(E), Unmixed(E)', Unskipped, Once(E),
           \A a \in E \cup Answering : "Wait" \notin wf.does[a] \cup wf.later[a],
           \A a \in Ids : Interrupt \notin Into(wf, a),
           Calm(E), NEW t \in Threads, Step(t)
    PROVE  /\ Calm(E)'
           /\ EndSession(t) => answers # << >>
           /\ answers' # answers => answers = << >> /\ answers' \in {<<"Reply">>, <<"Error">>}
<1> USE DEF tables, puts, caller, work
<1>0. /\ t = Handler /\ TypeInv /\ TypeOK /\ RunsOne /\ RunsOne'
      /\ Ends \subseteq E /\ E \subseteq Ends \cup UserIds
      /\ Finish \notin E /\ Error \notin E /\ Interrupt \notin E
  <2>1. Finish \notin E /\ Error \notin E /\ Interrupt \notin E
    BY Apart DEF Parted, Ends, StepIds
  <2> QED BY <2>1, Alone, RunsOneNow, RunsOneNext DEF SequentialInv, FitInv, TypeInv, Parted
<1> USE <1>0, AtWork
<1>1. CASE ScheduleStarter(t)
  <2>1. Chain'.at = "start"
    BY <1>1, Moved DEF ScheduleStarter, IsAt, Chain, Control
  <2>2. Outside(E)' /\ Running' = {}
    BY <2>1 DEF Unmixed, RunsOne
  <2>3. UNCHANGED <<answers, late, ended, subs>>
    BY <1>1 DEF ScheduleStarter
  <2>4. Interrupt \notin Queue'
    <3>1. Chain.n \in 1 .. Len(wf.starters)
      BY <1>1 DEF ScheduleStarter, IsAt, Chain, TypeInv, Walks, Control, Threads
    <3>2. wf.starters[Chain.n].act \in UserIds
      <4>1. wf.starters \in Seq(Starter)
        BY Layout DEF LayoutOK
      <4>2. wf.starters[Chain.n] \in Starter
        BY <3>1, <4>1
      <4> QED BY <4>2 DEF Starter
    <3>3. Queue' \subseteq Queue \cup {wf.starters[Chain.n].act}
      BY <1>1 DEF ScheduleStarter, Queue, Chain
    <3> QED BY <3>2, <3>3, Apart DEF Calm, StepIds
  <2> QED BY <1>1, <2>1, <2>2, <2>3, <2>4 DEF Calm, ScheduleStarter, EndSession, IsAt
<1>2. CASE StartersDone(t) \/ Promote(t) \/ BindDone(t)
  <2>1. Queue' = Queue /\ UNCHANGED <<answers, late, ended, subs>>
    <3>1. Promote(t) => FirstOf(pendings) \in pendings
      BY FirstOfIn DEF Promote, Promotes
    <3> QED BY <1>2, <3>1 DEF StartersDone, Promote, BindDone, Queue
  <2>2. Chain'.at = "next"
    <3>1. CASE StartersDone(t)
      BY <3>1, Moved DEF StartersDone, At
    <3>2. CASE Promote(t)
      BY <3>2 DEF Promote, IsAt, Chain
    <3>3. CASE BindDone(t)
      <4>1. Chain.at = "bind" /\ Chain.res # "Finish"
        BY <3>3 DEF BindDone, IsAt, Unmixed, Unfailing, Chain
      <4> QED BY <3>3, <4>1, Moved DEF BindDone, At, Chain
    <3> QED BY <1>2, <3>1, <3>2, <3>3
  <2>3. Running' = {}
    BY <2>2 DEF RunsOne
  <2>4. ~EndSession(t)
    BY <1>2 DEF StartersDone, Promote, BindDone, EndSession, IsAt
  <2> QED BY <2>1, <2>2, <2>3, <2>4 DEF Calm, Outside
<1>3. CASE Pick(t)
  <2>1. PICK b \in nexts : b = FirstOf(nexts)
    BY <1>3, FirstOfIn DEF Pick
  <2>2. Chain'.at = "exec" /\ Chain'.act = b
    BY <1>3, <2>1, Moved DEF Pick, At
  <2>3. Queue' = Queue /\ b \in Queue /\ UNCHANGED <<answers, late, ended, subs>>
    BY <1>3, <2>1 DEF Pick, Queue
  <2>4. Running' \subseteq Running
    BY <1>3, <2>2 DEF Running, Pick, Outstanding
  <2>5. ~EndSession(t)
    BY <1>3 DEF Pick, EndSession, IsAt
  <2> QED BY <2>2, <2>3, <2>4, <2>5 DEF Calm, Outside
<1>4. CASE NothingToExecute(t)
  <2>1. PICK a \in Answering : Queue' = {a} /\ Go(t, At("exec", a))
    BY <1>4 DEF NothingToExecute, Queue, Answering
  <2>2. Chain'.at = "exec" /\ Chain'.act = a
    BY <2>1, Moved DEF At
  <2>3. Outstanding = {}
    BY <1>4 DEF NothingToExecute, IsAt, RunsOne, Running, Chain, Outstanding
  <2>4. Outstanding' = {}
    BY <1>4, <2>3, NoneOutstanding DEF NothingToExecute
  <2>5. Running' = {} /\ ~EndSession(t)
    BY <1>4, <2>2, <2>4 DEF Running, NothingToExecute, EndSession, IsAt
  <2>6. UNCHANGED <<answers, late, ended, subs>>
    BY <1>4 DEF NothingToExecute
  <2> QED BY <2>1, <2>2, <2>5, <2>6, Apart DEF Calm, Outside, Answering
<1>5. CASE EndSession(t)
  <2>1. Chain'.at = "idle" /\ Chain.at = "exec" /\ Chain.act = Die
    BY <1>5, Moved DEF EndSession, Idle, At, IsAt, Chain
  <2>2. answers # << >>
    BY <2>1 DEF Calm, Ends
  <2>3. Running' \subseteq Running /\ Queue' = Queue /\ UNCHANGED <<answers, late, subs>>
    BY <1>5, <2>1 DEF EndSession, Running, Outstanding, Queue
  <2> QED BY <2>1, <2>2, <2>3 DEF Calm
<1>6. CASE Execute(t)
  <2>1. PICK a \in Ids : a = Chain.act /\ a # Die /\ Chain.at = "exec"
    BY <1>6 DEF Execute, IsAt, Chain
  <2>2. PICK r \in wf.does[a] : /\ Launch(a, r, level', subs, asyncs)
                                /\ Go(t, [At("result", a) EXCEPT !.res = r])
    BY <1>6, <2>1 DEF Execute, Chain
  <2>3. Chain'.at = "result" /\ Chain'.act = a
    BY <2>2, Moved DEF At
  <2>4. Running' = {a} /\ a # Interrupt /\ UNCHANGED <<late, ended>>
    BY <1>6, <2>1, <2>3 DEF RunsOne, Calm, Execute
  <2>5. Queue' \subseteq Queue /\ ~EndSession(t)
    BY <1>6, <2>1 DEF Execute, Queue, Chain, EndSession
  <2>6. subs = {}
    BY <2>1 DEF SubsCurrent
  <2>7. r # "Wait" => subs' = {}
    BY <2>2, <2>6 DEF Launch
  <2>8. CASE answers # << >>
    <3>1. Closing(E)
      BY <2>8 DEF Once, Calm
    <3>2. a \in E /\ answers' = answers
      BY <2>1, <3>1, StepKeepsClosing DEF Closing
    <3> QED BY <2>3, <2>4, <2>5, <2>7, <2>8, <3>2 DEF Calm
  <2>9. CASE answers = << >>
    <3>1. answers' = answers \o Answer(a)
      BY <1>6, <2>1 DEF Execute, Chain
    <3>2. CASE a \in Answering
      <4>1. answers' \in {<<"Reply">>, <<"Error">>}
        <5>1. Answer(a) \in {<<"Reply">>, <<"Error">>}
          BY <3>2, Apart DEF Answer, Answering
        <5> QED BY <2>9, <3>1, <5>1
      <4>2. answers' # << >> /\ subs' = {}
        BY <2>7, <3>2, <4>1
      <4> QED BY <2>3, <2>4, <2>5, <2>9, <4>1, <4>2 DEF Calm
    <3>3. CASE a \notin Answering
      <4>1. answers' = answers
        BY <2>9, <3>1, <3>3 DEF Answer, Answering
      <4>2. a \notin E
        BY <2>1, <2>9 DEF Calm
      <4> QED BY <2>3, <2>4, <2>5, <2>9, <3>3, <4>1, <4>2 DEF Calm, Outside
    <3> QED BY <3>2, <3>3
  <2> QED BY <2>8, <2>9
<1>7. CASE ContractBroken(t) \/ ActionFails(t)
  <2>1. Chain'.at = "exec" /\ Chain'.act = Error /\ Chain.at = "result" /\ Chain.act \in Ids
    BY <1>7, Moved DEF ContractBroken, ActionFails, At, IsAt, Chain
  <2>2. /\ Outstanding' \subseteq Outstanding /\ Queue' = Queue
        /\ UNCHANGED <<answers, late, ended, subs>>
    BY <1>7, <2>1 DEF ContractBroken, ActionFails, Outstanding, Chain, Queue
  <2>3. Running' \subseteq Running /\ ~EndSession(t)
    BY <1>7, <2>1, <2>2 DEF Running, EndSession, IsAt, Chain
  <2> QED BY <2>1, <2>2, <2>3, Apart DEF Calm, Outside
<1>8. CASE ActionDone(t)
  <2>1. Chain' = [Chain EXCEPT !.at = "bind", !.n = 1] /\ Chain.at = "result"
    BY <1>8, Moved DEF ActionDone, IsAt, Chain
  <2>2. Chain'.at = "bind" /\ Chain'.act = Chain.act
    BY <2>1 DEF Control
  <2>3. Running' \subseteq Running /\ Queue' = Queue /\ UNCHANGED <<answers, late, ended, subs>>
    BY <1>8, <2>1, <2>2 DEF RunsOne, Queue, ActionDone
  <2>4. ~EndSession(t)
    BY <2>1 DEF EndSession, IsAt, Chain
  <2> QED BY <2>2, <2>3, <2>4 DEF Calm, Outside
<1>9. CASE ActionSuspends(t)
  <2>1. /\ Chain'.at = "idle" /\ Chain.at = "result" /\ Queue' = Queue
        /\ UNCHANGED <<answers, late, ended, subs>>
    BY <1>9, Moved DEF ActionSuspends, Idle, At, IsAt, Chain, Queue
  <2>2. Outstanding' \subseteq Outstanding \cup {Chain.act}
    BY <1>9 DEF ActionSuspends, Outstanding, Chain
  <2>3. Running' \subseteq Running /\ ~EndSession(t)
    BY <2>1, <2>2 DEF Running, EndSession, IsAt, Chain
  <2> QED BY <2>1, <2>3 DEF Calm, Outside
<1>10. CASE Bind(t)
  <2> DEFINE a == Chain.act
  <2>1. /\ a \in Ids /\ Chain.at = "bind" /\ Go(t, [Chain EXCEPT !.n = @ + 1])
        /\ Chain.n \in 1 .. Len(wf.out[a]) /\ UNCHANGED <<answers, late, ended, subs>>
    <3>1. /\ Chain.at = "bind" /\ Chain.n <= Len(wf.out[a])
          /\ UNCHANGED <<answers, late, ended, subs>>
          /\ Go(t, [Chain EXCEPT !.n = @ + 1])
      BY <1>10 DEF Bind, IsAt, Chain
    <3>2. Chain.n >= 1 /\ Chain.n \in Nat /\ a \in Ids
      BY <3>1 DEF TypeInv, Walks, Control, Chain, Threads
    <3>3. Len(wf.out[a]) \in Nat
      BY <3>1 DEF LayoutOK
    <3> QED BY <3>1, <3>2, <3>3
  <2>2. Chain'.at = "bind" /\ Chain'.act = a
    BY <2>1, Moved DEF Control
  <2>3. Running' = {a} /\ Running = {a} /\ ~EndSession(t)
    BY <2>1, <2>2 DEF RunsOne, EndSession, IsAt, Chain
  <2>4. PICK b \in Into(wf, a) : \E place : Place(b, place)
    BY <1>10, <2>1 DEF Bind, Into, Chain
  <2>5. Queue' \subseteq Queue \cup {b} /\ b # Interrupt
    BY <2>1, <2>4, PlaceQueues
  <2>6. ASSUME answers = << >> PROVE b \notin E
    <3>1. a \notin E \cup Answering /\ a # Interrupt
      BY <2>3, <2>6 DEF Calm
    <3> QED BY <2>1, <2>4, <3>1 DEF Parted
  <2> QED BY <2>1, <2>2, <2>3, <2>5, <2>6 DEF Calm, Outside
<1> QED BY <1>1, <1>2, <1>3, <1>4, <1>5, <1>6, <1>7, <1>8, <1>9, <1>10 DEF Step

LEMMA RequestKeepsCalm ==
    ASSUME Undisturbed, SequentialInv, SequentialInv', NEW E, Once(E), Calm(E),
           Begin \/ InterruptReceived \/ ErrorReceived \/ StatusReceived
    PROVE  /\ Calm(E)' /\ asked' # << >> /\ UNCHANGED <<answers, ended>>
           /\ asked = << >> => ~ended
<1>1. /\ UNCHANGED <<answers, ended, subs, wf>> /\ asked' # << >>
      /\ \/ Uninitialised /\ Queue' = {} /\ Chain'.at = "start" /\ late' = late
         \/ UNCHANGED <<Queue, Running, Chain, late>>
  BY RequestMoves DEF Undisturbed
<1>2. asked = << >> => ~ended
  BY DEF SequentialInv, LaunchedIsOwed, Quiet, Once, Calm
<1>3. CASE Uninitialised /\ Queue' = {} /\ Chain'.at = "start" /\ late' = late
  <2>1. Running' = {} /\ answers = << >>
    BY <1>3, RunsOneNext DEF RunsOne, Once
  <2> QED BY <1>1, <1>2, <1>3, <2>1 DEF Calm, Outside
<1>4. CASE UNCHANGED <<Queue, Running, Chain, late>>
  BY <1>1, <1>2, <1>4 DEF Calm, Outside
<1> QED BY <1>1, <1>3, <1>4

LEMMA AnswerKeepsCalm ==
    ASSUME Sequential, SequentialInv, SequentialInv', NEW E, Calm(E), Parted(wf, E),
           SubAnswered \/ OperationEnds
    PROVE  Calm(E)' /\ UNCHANGED <<answers, ended, asked>>
<1>0. TypeInv /\ RunsOne /\ RunsOne' /\ Error \notin E
  BY RunsOneNow, RunsOneNext, Apart DEF SequentialInv, FitInv, Parted, Ends, StepIds
<1>1. Chain.at = "idle" /\ UNCHANGED <<wf, answers, ended, asked>> /\ subs # {}
  BY AnswerMoves
<1>2. answers = << >> /\ answers' = << >>
  BY <1>1 DEF Calm
<1>3. CASE UNCHANGED <<Queue, Outstanding, late>>
           /\ Chain'.at = "result" /\ Chain'.act \in Outstanding
  <2>1. Running' \subseteq Running
    BY <1>0, <1>1, <1>3 DEF RunsOne
  <2> QED BY <1>1, <1>2, <1>3, <2>1 DEF Calm, Outside
<1>4. CASE UNCHANGED <<Queue, Running, Chain, late>>
  BY <1>1, <1>2, <1>4 DEF Calm, Outside
<1>5. CASE Impose(Error) /\ Chain'.at = "exec" /\ Chain'.act = Error
  <2>1. Queue' = {Error} /\ Running' = {} /\ ~late'
    BY <1>0, <1>2, <1>5, ImposeAlone DEF Impose, Calm
  <2> QED BY <1>0, <1>1, <1>2, <1>5, <2>1, Apart DEF Calm, Outside
<1> QED BY <1>1, <1>3, <1>4, <1>5, AnswerMoves

\* The steps of the chain move the caller's view only when they answer it or
\* close the session.
LEMMA StepKeepsView ==
    ASSUME NEW t \in Threads, Step(t)
    PROVE  /\ asked' = asked
           /\ \/ ended' = ended
              \/ EndSession(t) /\ ended' /\ answers' = answers
  BY DEF caller, Step, ScheduleStarter, StartersDone, Promote, Pick, NothingToExecute,
         EndSession, Execute, ContractBroken, ActionDone, ActionSuspends, ActionFails,
         Bind, BindDone

CalmInv(F) ==
    /\ FlowInv(F) /\ SubsCurrent
    /\ \A E : E = F[wf] => Calm(E)

\* As long as nobody interrupts it or reports an error, a session is a call of
\* module Call: the first request opens it, Finish or Error answers it once, and
\* it is closed after that.
THEOREM SessionIsCall ==
    ASSUME Sequential, AnsweredOnce, Undisturbed,
           NEW CONSTANT F, Orderly(F), Quick(F)
    PROVE  Spec => Caller!Init /\ [][Caller!Next]_(Caller!vars)
<1>1. Init => CalmInv(F)
  <2> SUFFICES ASSUME Init, NEW E PROVE SubsCurrent /\ Calm(E)
    BY FlowInit DEF CalmInv
  <2>1. Chain.at = "idle" /\ \A a \in Ids : status[a] = "Absent"
    BY DEF Init, Idle, At, Chain, Threads
  <2>2. Running = {} /\ Queue = {}
    BY <2>1 DEF Init, Running, Outstanding, Queue
  <2>3. SubsCurrent
    BY <2>1 DEF Init, SubsCurrent, Moving
  <2> QED BY <2>1, <2>2, <2>3 DEF Init, Calm, Outside
<1>2. CalmInv(F) /\ [Next]_vars => CalmInv(F)' /\ [Caller!Next]_(Caller!vars)
  <2> SUFFICES ASSUME CalmInv(F), [Next]_vars
               PROVE  CalmInv(F)' /\ [Caller!Next]_(Caller!vars)
    OBVIOUS
  <2>1. FlowInv(F)' /\ SequentialInv /\ SequentialInv' /\ FitInv /\ SubsCurrent /\ Unskipped
    BY FlowNext DEF CalmInv, FlowInv, SequentialInv
  <2>2. wf \in Layouts /\ wf' = wf
    <3>1. wf \in Layouts
      BY <2>1 DEF FitInv, TypeInv, TypeOK
    <3> QED BY <3>1
       DEF vars, Next, Begin, FirstCall, InterruptReceived, ErrorReceived, StatusReceived,
           SubAnswered, ReplyTaken, ReplyIgnored, ErrorCaught, ErrorForced, OperationEnds,
           AsyncFinished, Step, ScheduleStarter, StartersDone, Promote, Pick,
           NothingToExecute, EndSession, Execute, ContractBroken, ActionDone,
           ActionSuspends, ActionFails, Bind, BindDone, Rest
  <2>3. PICK E : E = F[wf]
    OBVIOUS
  <2>4. /\ Parted(wf, E) /\ Unfailing(wf, E) /\ Unmixed(E) /\ Unmixed(E)'
        /\ Once(E) /\ Calm(E)
    BY <2>1, <2>2, <2>3 DEF Orderly, CalmInv, FlowInv
  <2>5. SubsCurrent' /\ Calm(E)' => CalmInv(F)'
    BY <2>1, <2>2, <2>3 DEF CalmInv
  <2>6. CASE UNCHANGED vars
    <3>1. UNCHANGED <<Queue, Running, Chain, late, answers, ended, subs, asked>>
      BY <2>6 DEF vars, tables, puts, caller, work, Queue, Running, Outstanding, Chain
    <3>2. SubsCurrent'
      BY <2>1, <2>6 DEF vars, tables, puts, caller, work, SubsCurrent, Moving, Chain,
                        Uninitialised
    <3> QED BY <2>4, <2>5, <3>1, <3>2 DEF Calm, Outside, Caller!vars
  <2>7. ASSUME NEW t \in Threads, Step(t)
        PROVE  CalmInv(F)' /\ [Caller!Next]_(Caller!vars)
    <3>1. /\ \A a \in E \cup Answering : "Wait" \notin wf.does[a] \cup wf.later[a]
          /\ \A a \in Ids : Interrupt \notin Into(wf, a)
      BY <2>2, <2>3 DEF Quick
    <3>2. /\ Calm(E)'
          /\ EndSession(t) => answers # << >>
          /\ answers' # answers => answers = << >> /\ answers' \in {<<"Reply">>, <<"Error">>}
      BY <2>1, <2>4, <2>7, <3>1, StepKeepsCalm
    <3>3. SubsCurrent'
      BY <2>1, <2>7, StepKeepsCurrent
    <3>4. asked # << >> /\ asked' = asked
      <4>1. ~ (Uninitialised /\ Chain.at = "idle")
        BY <2>1, <2>7, StepStarted DEF SequentialInv, FitInv
      <4> QED BY <2>1, <2>7, <4>1, StepKeepsView
         DEF SequentialInv, LaunchedIsOwed, Quiet
    <3>5. \/ ended' = ended
          \/ answers # << >> /\ ended' /\ answers' = answers
      BY <2>7, <3>2, StepKeepsView
    <3>6. answers = << >> => ~ended
      BY <2>4 DEF Calm
    <3> QED BY <2>5, <3>2, <3>3, <3>4, <3>5, <3>6
       DEF Caller!Next, Caller!Reply, Caller!Close, Caller!vars
  <2>8. CASE Begin \/ InterruptReceived \/ ErrorReceived \/ StatusReceived
    <3>1. SubsCurrent'
      BY <2>1, <2>8, RequestKeepsCurrent
    <3>2. /\ Calm(E)' /\ asked' # << >> /\ UNCHANGED <<answers, ended>>
          /\ asked = << >> => ~ended
      BY <2>1, <2>4, <2>8, RequestKeepsCalm
    <3> QED BY <2>5, <3>1, <3>2 DEF Caller!Next, Caller!Open, Caller!vars
  <2>9. CASE SubAnswered \/ OperationEnds
    <3>1. SubsCurrent'
      BY <2>1, <2>9, AnswerKeepsCurrent
    <3>2. Calm(E)' /\ UNCHANGED <<answers, ended, asked>>
      BY <2>1, <2>4, <2>9, AnswerKeepsCalm
    <3> QED BY <2>5, <3>1, <3>2 DEF Caller!vars
  <2> QED BY <2>6, <2>7, <2>8, <2>9 DEF Next, Rest
<1>3. Init => Caller!Init
  BY DEF Init, Caller!Init
<1> QED BY <1>1, <1>2, <1>3, PTL DEF Spec

-----------------------------------------------------------------------------
(* Joins.  An action may be run before all its producers are done in two   *)
(* ways: it was promoted, or one of them was placed again after it was     *)
(* planned.  The second may happen: bindResults looks at the producers of  *)
(* the action it places and not at what this action feeds.                 *)

Undone(a) == \E b \in Producers(a) : status[b] # "Done"

\* No step takes back what a planned action waited for.
Settles == \A a \in nexts' \cap UserIds : \A b \in Producers(a) :
    status[b] = "Done" => status'[b] = "Done"

\* What is planned too early has been promoted, and is run next.
OnlyPromoted == \A a \in nexts \cap UserIds : Undone(a) =>
    \/ Chain.at = "next" /\ \E c \in Terminal : nexts \subseteq {a, c}
    \/ Chain.at = "exec" /\ Chain.act = a

\* The producers that were done still are.
LEMMA StaysReady ==
    ASSUME wf' = wf, Settles, NEW a \in nexts' \cap UserIds, ~Undone(a)
    PROVE  ~Undone(a)'
  BY DEF Undone, Settles, Producers

LEMMA StepKeepsPromoted ==
    ASSUME Sequential, FitInv, OnlyPromoted, Settles, NEW t \in Threads, Step(t)
    PROVE  OnlyPromoted'
<1> USE DEF tables, puts, caller, work
<1>0. t = Handler /\ TypeInv /\ TypeOK /\ wf' = wf
  BY Alone DEF FitInv, TypeInv, Step, ScheduleStarter, StartersDone, Promote, Pick,
     NothingToExecute, EndSession, Execute, ContractBroken, ActionDone, ActionSuspends,
     ActionFails, Bind, BindDone
<1> USE <1>0, AtWork
<1>1. ASSUME \A a \in nexts' \cap UserIds : ~Undone(a) PROVE OnlyPromoted'
  BY <1>1, StaysReady DEF OnlyPromoted
<1>2. ASSUME Chain.at \notin {"next", "exec"}, nexts' \subseteq nexts PROVE OnlyPromoted'
  BY <1>1, <1>2 DEF OnlyPromoted
<1>3. CASE ScheduleStarter(t)
  <2>1. PICK a, willing :
            \/ CanExecute(inputs, status, a, willing) /\ nexts' = nexts \cup {a}
            \/ nexts' = nexts
    BY <1>3 DEF ScheduleStarter
  <2>2. CanExecute(inputs, status, a, willing) => ~Undone(a)
    BY DEF CanExecute, Undone
  <2>3. Chain.at = "start"
    BY <1>3 DEF ScheduleStarter, IsAt, Chain
  <2> QED BY <1>1, <2>1, <2>2, <2>3 DEF OnlyPromoted
<1>4. CASE Promote(t)
  <2>1. Chain' = Chain /\ Chain.at = "next"
    BY <1>4 DEF Promote, IsAt, Chain
  <2>2. PICK p : nexts' = nexts \cup {p}
    BY <1>4 DEF Promote
  <2>3. \E c \in Terminal : nexts \subseteq {c}
    BY <1>4 DEF Promote, Promotes, Terminal
  <2>4. Terminal \cap UserIds = {}
    BY Apart DEF Terminal, StepIds
  <2> QED BY <2>1, <2>2, <2>3, <2>4 DEF OnlyPromoted
<1>5. CASE Pick(t)
  <2>1. Chain'.at = "exec" /\ Chain'.act = FirstOf(nexts) /\ Chain.at = "next"
    BY <1>5, Moved DEF Pick, At, IsAt, Chain
  <2>2. nexts' = nexts /\ status' = status /\ nexts # {}
    BY <1>5 DEF Pick
  <2>3. ASSUME NEW a \in nexts \cap UserIds, Undone(a) PROVE FirstOf(nexts) = a
    <3>1. PICK c \in Terminal : nexts \subseteq {a, c}
      BY <2>1, <2>3 DEF OnlyPromoted
    <3>2. a \notin Terminal
      BY Apart DEF Terminal, StepIds
    <3>3. FirstOf(nexts) \in nexts
      BY <2>2, FirstOfIn
    <3>4. ASSUME FirstOf(nexts) \in Terminal PROVE FALSE
      <4>1. nexts = {FirstOf(nexts)}
        BY <2>2, <3>1, <3>2, <3>4, TerminalAlone
      <4> QED BY <3>2, <3>4, <4>1
    <3> QED BY <3>1, <3>3, <3>4
  <2>4. ASSUME NEW a \in nexts, ~Undone(a) PROVE ~Undone(a)'
    BY <2>2, <2>4 DEF Undone, Producers
  <2> QED BY <2>1, <2>2, <2>3, <2>4 DEF OnlyPromoted
<1>6. CASE NothingToExecute(t)
  <2>1. nexts' \subseteq {Finish, Error}
    BY <1>6 DEF NothingToExecute
  <2> QED BY <1>1, <2>1, Apart DEF StepIds
<1>7. CASE Execute(t)
  <2>1. Chain.at = "exec"
    BY <1>7 DEF Execute, IsAt, Chain
  <2>2. nexts' = {} \/ nexts' = nexts \ {Chain.act}
    BY <1>7 DEF Execute, Chain
  <2> QED BY <1>1, <2>1, <2>2 DEF OnlyPromoted
<1>8. CASE EndSession(t)
  <2>1. Chain.at = "exec" /\ Chain.act = Die /\ nexts' = nexts
    BY <1>8 DEF EndSession, IsAt, Chain
  <2>2. Die \notin UserIds
    BY Apart DEF StepIds
  <2> QED BY <1>1, <2>1, <2>2 DEF OnlyPromoted
<1>9. CASE StartersDone(t) \/ ContractBroken(t) \/ ActionDone(t) \/ ActionSuspends(t)
           \/ ActionFails(t) \/ BindDone(t)
  BY <1>2, <1>9 DEF StartersDone, ContractBroken, ActionDone, ActionSuspends, ActionFails,
                    BindDone, IsAt, Chain
<1>10. CASE Bind(t)
  <2>1. Chain.at = "bind"
    BY <1>10 DEF Bind, IsAt, Chain
  <2>2. PICK b \in Ids, place \in {"Planned", "Skipped", "Pending", "Unplanned"} :
            /\ Place(b, place)
            /\ place = "Planned" /\ b \in UserIds => ~Undone(b)
    <3> DEFINE b == wf.out[Chain.act][Chain.n]
    <3>1. CASE b.to \in wf.acts /\ \E place \in Verdicts(inputs', b.to) : Place(b.to, place)
      <4>1. PICK place \in Verdicts(inputs', b.to) : Place(b.to, place)
        BY <3>1
      <4>2. place = "Planned" => ~Undone(b.to)
        BY DEF Verdicts, CanExecute, Undone
      <4>3. place \in {"Planned", "Skipped", "Pending", "Unplanned"}
        BY DEF Verdicts
      <4>4. b.to \in Ids
        BY <3>1 DEF LayoutOK
      <4> QED BY <4>1, <4>2, <4>3, <4>4
    <3>2. CASE Place(Die, "Planned")
      <4>1. Die \notin UserIds
        BY Apart DEF StepIds
      <4> QED BY <3>2, <4>1
    <3> QED BY <1>10, <3>1, <3>2 DEF Bind, Chain
  <2>3. \/ nexts' \subseteq nexts
        \/ place = "Planned" /\ nexts' = nexts \cup {b}
    <3>1. nexts' = IF place = "Planned" THEN nexts \cup {b} ELSE nexts \ {b}
      BY <2>2 DEF Place
    <3> QED BY <3>1
  <2> QED BY <1>1, <2>1, <2>2, <2>3 DEF OnlyPromoted
<1> QED BY <1>3, <1>4, <1>5, <1>6, <1>7, <1>8, <1>9, <1>10 DEF Step

\* When an action is run before all its producers are done, either nothing else
\* of the user's was planned, or a binding has placed again, after it was
\* planned, an action that feeds it: canExecuteAction lets nothing else through.
THEOREM JoinsWaitUnlessUndone ==
    ASSUME Sequential
    PROVE  Spec /\ [][Settles]_vars => JoinsWait
<1> DEFINE Inv == FitInv /\ OnlyPromoted
<1>1. Init => Inv
  <2>1. Init => OnlyPromoted
    BY DEF Init, OnlyPromoted
  <2> QED BY <2>1, FitInit
<1>2. Inv /\ [Next]_vars /\ [Settles]_vars => Inv'
  <2> SUFFICES ASSUME FitInv, OnlyPromoted, [Next]_vars, [Settles]_vars PROVE OnlyPromoted'
    BY FitNext
  <2> USE DEF tables, puts, caller, work
  <2>1. CASE UNCHANGED vars
    BY <2>1 DEF vars, OnlyPromoted, Undone, Producers, Chain
  <2>2. CASE ~UNCHANGED vars
    <3>1. Settles /\ TypeInv /\ Fresh
      BY <2>2 DEF FitInv
    <3>2. CASE \E t \in Threads : Step(t)
      BY <3>1, <3>2, StepKeepsPromoted
    <3>3. CASE Begin
      <4>1. nexts' = {}
        BY <3>1, <3>3 DEF Begin, FirstCall, Fresh
      <4> QED BY <4>1 DEF OnlyPromoted
    <3>4. CASE InterruptReceived \/ ErrorReceived \/ \E s \in subs : ErrorForced(s)
      <4>1. nexts' \subseteq {Interrupt, Error}
        BY <3>4 DEF InterruptReceived, ErrorReceived, ErrorForced, Impose
      <4> QED BY <4>1, Apart DEF OnlyPromoted, StepIds
    <3>5. CASE StatusReceived \/ \E s \in subs : ReplyIgnored(s)
      BY <3>5 DEF StatusReceived, ReplyIgnored, OnlyPromoted, Undone, Producers, Chain
    <3>6. CASE \E s \in subs : ReplyTaken(s) \/ ErrorCaught(s)
      <4>1. Chain.at = "idle" /\ UNCHANGED <<tables, wf>>
        BY <3>1, <3>6, ResumeMoves
      <4> QED BY <4>1 DEF OnlyPromoted, Undone, Producers
    <3>7. ~OperationEnds
      BY DEF OperationEnds, Sequential
    <3> QED BY <2>2, <3>2, <3>3, <3>4, <3>5, <3>6, <3>7 DEF Next, SubAnswered, Rest
  <2> QED BY <2>1, <2>2
<1>3. ASSUME Inv, NEW t \in Threads, Pick(t), ctl'[t].act \in UserIds,
             \E b \in Producers(ctl'[t].act) : status[b] # "Done"
      PROVE  nexts \cap UserIds = {ctl'[t].act}
  <2>1. t = Handler /\ TypeInv /\ nexts \subseteq Ids /\ nexts # {}
    BY <1>3, Alone, AtWork DEF FitInv, Pick
  <2>2. Chain.at = "next" /\ ctl'[t].act = FirstOf(nexts)
    <3>1. Chain' = At("exec", FirstOf(nexts))
      BY <1>3, <2>1, Moved DEF Pick, TypeInv
    <3> QED BY <1>3, <2>1, <3>1 DEF Pick, IsAt, Chain, At
  <2>3. FirstOf(nexts) \in nexts
    BY <2>1, FirstOfIn
  <2>4. PICK c \in Terminal : nexts \subseteq {FirstOf(nexts), c}
    BY <1>3, <2>2, <2>3 DEF OnlyPromoted, Undone
  <2>5. c \notin UserIds
    BY Apart DEF Terminal, StepIds
  <2> QED BY <1>3, <2>2, <2>3, <2>4, <2>5
<1>4. Inv => \A t \in Threads :
        Pick(t) /\ ctl'[t].act \in UserIds
                /\ (\E b \in Producers(ctl'[t].act) : status[b] # "Done")
            => nexts \cap UserIds = {ctl'[t].act}
  BY <1>3
<1> QED BY <1>1, <1>2, <1>4, PTL DEF Spec, JoinsWait

=============================================================================
