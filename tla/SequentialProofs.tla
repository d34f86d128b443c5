-------------------------- MODULE SequentialProofs --------------------------
(***************************************************************************)
(* What StateMachine promises for every workflow whose actions end in the  *)
(* chain of calls or by the answer to a sub-request: no thread reports the *)
(* end of an asynchronous operation, so that the workflow's mutex is held  *)
(* by whoever touches the session.                                         *)
(***************************************************************************)
EXTENDS StateMachineProofs

Sequential == Workers = {}

\* Where the only chain of calls is.
Chain == ctl[Handler]

LEMMA Alone == Sequential => Threads = {Handler}
  BY DEF Sequential, Threads

LEMMA Moved ==
    ASSUME TypeOK, NEW c, Go(Handler, c)
    PROVE  Chain' = c
  BY DEF TypeOK, Go, Chain, Threads

\* What the layout and the type of the state say of the action at work.
LEMMA AtWork ==
    ASSUME TypeInv
    PROVE  /\ LayoutOK(wf) /\ Chain \in Control
           /\ status \in [Ids -> Statuses]
           /\ Chain.at \in {"exec", "result", "bind"} => Chain.act \in Ids
           /\ nexts \subseteq Ids /\ pendings \subseteq Ids
           /\ Error \in Ids /\ Finish \in Ids /\ Die \in Ids /\ Interrupt \in Ids
  BY Layout, StepsAreIds DEF TypeInv, TypeOK, Walks, Chain, Threads

-----------------------------------------------------------------------------
(* The scheduling sets and the status table.                               *)

\* canPerform is asked once for every action the request starts: firstCall,
\* unlike bindResults, does not take what it makes pending out of nexts.
StartsSteady ==
    \A w \in Layouts : \A i, j \in 1 .. Len(w.starters) :
        (/\ w.starters[i].act = w.starters[j].act
         /\ w.starters[i].act \in w.picky) => i = j

\* The action the chain is about to run, or has just run, has left its queue
\* and keeps the status it was queued with.  After ContractBroken that one is
\* forgotten by the error flow.
Held(a) == \/ Chain.at = "result" /\ Chain.act = a
           \/ Chain.at = "exec" /\ Chain.act = Error

\* The starters before the one at work.
Started(a) == \E i \in 1 .. Len(wf.starters) :
                 i < Chain.n /\ wf.starters[i].act = a

\* While the starters are being scheduled, why an action is where it is.
StartersPlaced ==
    Chain.at = "start" =>
        /\ \A a \in Ids : status[a] # "Done"
        /\ \A a \in nexts : Started(a) /\ Producers(a) = {}
        /\ \A a \in pendings : Started(a) /\ (Producers(a) # {} \/ a \in wf.picky)

TablesHold ==
    /\ TablesAgree
    /\ StartersPlaced
    /\ Chain.at = "result" => Chain.act \notin nexts \cup pendings

QueuesHold ==
    /\ StartsSteady => TablesHold
    /\ \A a \in Ids :
        /\ status[a] = "Planned" => a \in nexts \/ Held(a)
        /\ status[a] = "Pending" => a \in pendings \/ Held(a)

\* bindResults keeps them in step for the action it places.
LEMMA PlaceKeepsQueues ==
    ASSUME TypeInv, QueuesHold, Chain.at = "bind", Chain'.at = "bind", NEW a \in Ids,
           NEW place \in {"Skipped", "Planned", "Pending", "Unplanned"},
           Place(a, place)
    PROVE  QueuesHold'
<1> USE AtWork
<1>1. status' = [status EXCEPT ![a] = place] /\ status'[a] = place
  BY DEF Place
<1>2. \A b \in Ids \ {a} : status'[b] = status[b]
  BY <1>1
<1>3. \A b \in Ids \ {a} : /\ b \in nexts' <=> b \in nexts
                           /\ b \in pendings' <=> b \in pendings
  BY DEF Place
<1>4. /\ a \in nexts' <=> place = "Planned"
      /\ a \in pendings' <=> place = "Pending"
  BY DEF Place
<1>5. nexts' \subseteq Ids /\ pendings' \subseteq Ids
  BY DEF Place
<1>6. ASSUME TablesHold PROVE TablesHold'
  BY <1>1, <1>2, <1>3, <1>4, <1>5, <1>6 DEF TablesHold, TablesAgree, StartersPlaced
<1>7. ASSUME NEW b \in Ids
      PROVE  /\ status'[b] = "Planned" => b \in nexts'
             /\ status'[b] = "Pending" => b \in pendings'
  <2>1. CASE b = a
    BY <1>1, <1>4, <2>1
  <2>2. CASE b # a
    BY <1>2, <1>3, <2>2 DEF QueuesHold, Held
  <2> QED BY <2>1, <2>2
<1> QED BY <1>6, <1>7 DEF QueuesHold

\* Every step that forgets the flow leaves the tables with one action planned.
LEMMA ResetQueues ==
    ASSUME TypeInv, NEW a \in Ids, status' = [AllUnplanned EXCEPT ![a] = "Planned"],
           pendings' = {}, Chain'.at # "start",
           \/ nexts' = {a}
           \/ nexts' = {} /\ Chain'.at = "result" /\ Chain'.act = a,
           Chain'.at = "result" => Chain'.act \notin nexts'
    PROVE  QueuesHold'
<1>1. AllUnplanned \in [Ids -> Statuses]
      /\ \A b \in Ids : AllUnplanned[b] \in {"Unplanned", "Absent"}
  BY AllUnplannedType DEF AllUnplanned, TypeInv
<1>2. status'[a] = "Planned"
      /\ \A b \in Ids \ {a} : status'[b] \in {"Unplanned", "Absent"}
  BY <1>1
<1>3. TablesHold'
  BY <1>2 DEF TablesHold, TablesAgree, StartersPlaced
<1> QED BY <1>2, <1>3 DEF QueuesHold, Held

\* One starter scheduled: it is not in the other queue, because canExecuteAction
\* and canPendAction answered the same the time before.
LEMMA StarterKeepsQueues ==
    ASSUME TypeInv, QueuesHold, ScheduleStarter(Handler)
    PROVE  QueuesHold'
<1> USE AtWork DEF tables, puts, caller, work
<1> DEFINE n == Chain.n
<1>1. n \in 1 .. Len(wf.starters) /\ Chain.at = "start"
  BY DEF ScheduleStarter, IsAt, Chain, TypeInv, Walks, Control, Threads
<1>2. PICK a \in Ids : a = wf.starters[n].act
  BY <1>1 DEF LayoutOK, Starter, Ids
<1>3. Chain'.at = "start" /\ Chain'.n = n + 1 /\ wf' = wf /\ wf \in Layouts
  BY <1>1, Moved DEF ScheduleStarter, Chain, Control, TypeInv, TypeOK
<1>4. PICK willing \in Willing(a) :
        \/ /\ CanExecute(inputs, status, a, willing)
           /\ nexts' = nexts \cup {a} /\ pendings' = pendings
           /\ status' = [status EXCEPT ![a] = "Planned"]
        \/ /\ ~CanExecute(inputs, status, a, willing) /\ CanPend(inputs, a)
           /\ pendings' = pendings \cup {a} /\ nexts' = nexts
           /\ status' = [status EXCEPT ![a] = "Pending"]
        \/ UNCHANGED tables
  BY <1>2 DEF ScheduleStarter, Chain
<1>5. \A b \in Ids : Started(b) => Started(b)'
  BY <1>1, <1>3 DEF Started, Control
<1>6. Started(a)'
  BY <1>1, <1>2, <1>3 DEF Started
<1>7. \A b \in Ids : Producers(b)' = Producers(b) /\ Producers(b) \subseteq Ids
  BY <1>3 DEF Producers, LayoutOK
<1>8. ASSUME StartsSteady PROVE TablesHold'
  <2>1. TablesHold /\ StartersPlaced
    BY <1>8 DEF QueuesHold, TablesHold
  <2>2. ASSUME Started(a) PROVE a \notin wf.picky
    <3>1. PICK i \in 1 .. Len(wf.starters) : i < n /\ wf.starters[i].act = a
      BY <2>2 DEF Started
    <3>2. i # n
      BY <1>1, <3>1 DEF Control
    <3> QED BY <1>1, <1>2, <1>3, <1>8, <3>1, <3>2 DEF StartsSteady
  <2> HIDE DEF n
  <2>3. CASE UNCHANGED tables
    BY <1>1, <1>3, <1>5, <1>7, <2>1, <2>3 DEF TablesHold, TablesAgree, StartersPlaced
  <2>4. CASE /\ CanExecute(inputs, status, a, willing)
             /\ nexts' = nexts \cup {a} /\ pendings' = pendings
             /\ status' = [status EXCEPT ![a] = "Planned"]
    <3>1. Producers(a) = {}
      BY <1>1, <1>2, <1>7, <2>1, <2>4 DEF CanExecute, StartersPlaced
    <3>2. a \notin pendings
      BY <1>1, <2>1, <2>2, <3>1 DEF StartersPlaced
    <3>3. TablesAgree'
      BY <1>2, <2>1, <2>4, <3>2 DEF TablesHold, TablesAgree
    <3>4. StartersPlaced'
      BY <1>1, <1>2, <1>3, <1>5, <1>6, <1>7, <2>1, <2>4, <3>1 DEF StartersPlaced
    <3> QED BY <1>3, <3>3, <3>4 DEF TablesHold
  <2>5. CASE /\ ~CanExecute(inputs, status, a, willing) /\ CanPend(inputs, a)
             /\ pendings' = pendings \cup {a} /\ nexts' = nexts
             /\ status' = [status EXCEPT ![a] = "Pending"]
    <3>1. Producers(a) # {} \/ a \in wf.picky
      <4>1. willing = TRUE \/ a \in wf.picky
        BY <1>4 DEF Willing
      <4> QED BY <2>5, <4>1 DEF CanExecute, CanPend
    <3>2. a \notin nexts
      BY <1>1, <2>1, <2>2, <3>1 DEF StartersPlaced
    <3>3. TablesAgree'
      BY <1>2, <2>1, <2>5, <3>2 DEF TablesHold, TablesAgree
    <3>4. StartersPlaced'
      BY <1>1, <1>2, <1>3, <1>5, <1>6, <1>7, <2>1, <2>5, <3>1 DEF StartersPlaced
    <3> QED BY <1>3, <3>3, <3>4 DEF TablesHold
  <2> QED BY <1>4, <2>3, <2>4, <2>5
<1>9. ASSUME NEW b \in Ids
      PROVE  /\ status'[b] = "Planned" => b \in nexts'
             /\ status'[b] = "Pending" => b \in pendings'
  <2>1. /\ status[b] = "Planned" => b \in nexts
        /\ status[b] = "Pending" => b \in pendings
    BY <1>1 DEF QueuesHold, Held
  <2> QED BY <1>2, <1>4, <2>1
<1> QED BY <1>8, <1>9 DEF QueuesHold

LEMMA StepKeepsQueues ==
    ASSUME Sequential, TypeInv, QueuesHold, NEW t \in Threads, Step(t)
    PROVE  QueuesHold'
<1> USE DEF tables, puts, caller, work
<1>0. t = Handler /\ TypeOK
  BY Alone DEF TypeInv
<1> USE <1>0, AtWork
<1>1. CASE ScheduleStarter(t)
  BY <1>1, StarterKeepsQueues
\* The chain moves on and the tables are left alone.
<1>2. ASSUME NEW c, Go(t, c), UNCHANGED tables, Chain.at # "result",
             ~ (Chain.at = "exec" /\ Chain.act = Error),
             c.at \notin {"result", "start"}
      PROVE  QueuesHold'
  <2>1. Chain' = c
    BY <1>2, Moved
  <2> QED BY <1>2, <2>1 DEF QueuesHold, TablesHold, TablesAgree, StartersPlaced, Held
<1>3. CASE StartersDone(t) \/ BindDone(t) \/ Pick(t) \/ EndSession(t)
  <2>1. Die # Error
    BY DEF Die, Error
  <2>2. PICK c : Go(t, c) /\ c.at \notin {"result", "start"}
    BY <1>3 DEF StartersDone, BindDone, Pick, EndSession, Idle, At
  <2> QED BY <1>2, <1>3, <2>1, <2>2
         DEF StartersDone, BindDone, Pick, EndSession, IsAt, Chain
<1>4. CASE Promote(t)
  <2> DEFINE p == FirstOf(pendings)
  <2>1. p \in pendings
    BY <1>4, FirstOfIn DEF Promote, Promotes
  <2>2. /\ pendings' = pendings \ {p} /\ nexts' = nexts \cup {p}
        /\ status' = [status EXCEPT ![p] = "Planned"]
        /\ Chain.at = "next" /\ Chain' = Chain
    BY <1>4 DEF Promote, IsAt, Chain
  <2> HIDE DEF p
  <2>3. ASSUME TablesHold PROVE TablesHold'
    BY <2>1, <2>2, <2>3 DEF TablesHold, TablesAgree, StartersPlaced
  <2> QED BY <2>1, <2>2, <2>3 DEF QueuesHold, Held
<1>5. CASE NothingToExecute(t)
  <2>1. PICK a \in {Finish, Error} :
          /\ nexts' = {a} /\ pendings' = {}
          /\ status' = [status EXCEPT ![a] = "Planned"]
          /\ Go(t, At("exec", a)) /\ Chain.at = "next"
          /\ nexts = {} /\ pendings = {}
    BY <1>5 DEF NothingToExecute, IsAt, Chain
  <2>2. Chain'.at = "exec"
    BY <2>1, Moved DEF At
  <2> QED BY <2>1, <2>2 DEF QueuesHold, TablesHold, TablesAgree, StartersPlaced, Held
<1>6. CASE Execute(t)
  <2> DEFINE a == Chain.act
  <2>1. Chain'.at = "result" /\ Chain'.act = a /\ a \in Ids /\ Chain.at = "exec"
    <3>1. PICK r : Go(t, [At("result", a) EXCEPT !.res = r])
      BY <1>6 DEF Execute, Chain
    <3> QED BY <1>6, <3>1, Moved DEF Execute, IsAt, At, Chain
  <2>2. CASE Restarts(a)
    BY <1>6, <2>1, <2>2, ResetQueues DEF Execute, Chain
  <2>3. CASE ~Restarts(a)
    <3>1. /\ nexts' = nexts \ {a} /\ pendings' = pendings \ {a} /\ status' = status
          /\ a # Error /\ a = Chain.act
      BY <1>6, <2>3 DEF Execute, Chain, Restarts
    <3> HIDE DEF a
    <3> QED BY <2>1, <3>1 DEF QueuesHold, TablesHold, TablesAgree, StartersPlaced, Held
  <2> QED BY <2>2, <2>3
<1>7. CASE ContractBroken(t)
  <2>1. Chain' = At("exec", Error)
    BY <1>7, Moved DEF ContractBroken
  <2> QED BY <1>7, <2>1 DEF ContractBroken, QueuesHold, TablesHold, TablesAgree, StartersPlaced,
                            Held, At
<1>8. CASE ActionDone(t) \/ ActionSuspends(t) \/ ActionFails(t)
  <2>1. PICK v \in {"Done", "Waiting", "Async"} :
          status' = [status EXCEPT ![Chain.act] = v]
    BY <1>8 DEF ActionDone, ActionSuspends, ActionFails, Chain
  <2>2. Chain'.at \notin {"result", "start"}
    <3>1. PICK c : Go(t, c) /\ c.at \in {"bind", "idle", "exec"}
      <4>1. CASE ActionDone(t)
        <5>1. [Chain EXCEPT !.at = "bind", !.n = 1].at = "bind"
          BY DEF Control
        <5> QED BY <4>1, <5>1 DEF ActionDone, Chain
      <4>2. CASE ActionSuspends(t) \/ ActionFails(t)
        BY <4>2 DEF ActionSuspends, ActionFails, Idle, At
      <4> QED BY <1>8, <4>1, <4>2
    <3> QED BY <3>1, Moved
  <2>3. /\ Chain.at = "result" /\ nexts' = nexts /\ pendings' = pendings
        /\ StartsSteady => TablesHold
    BY <1>8 DEF ActionDone, ActionSuspends, ActionFails, IsAt, Chain, QueuesHold
  <2> QED BY <2>1, <2>2, <2>3 DEF QueuesHold, TablesHold, TablesAgree, StartersPlaced, Held
<1>9. CASE Bind(t)
  <2>1. Chain.at = "bind" /\ Chain'.at = "bind"
    BY <1>9, Moved DEF Bind, IsAt, Chain, Control
  <2> DEFINE b == wf.out[Chain.act][Chain.n]
  <2>2. b.to \in Ids
    <3>1. Chain.n \in Nat /\ Chain.n >= 1 /\ Chain.n <= Len(wf.out[Chain.act])
      BY <1>9 DEF Bind, IsAt, TypeInv, Walks, Chain, Control
    <3>2. Len(wf.out[Chain.act]) \in Nat
      BY <2>1 DEF LayoutOK
    <3>3. Chain.n \in 1 .. Len(wf.out[Chain.act])
      BY <3>1, <3>2
    <3> QED BY <2>1, <3>3 DEF LayoutOK, Binding
  <2>3. PICK place \in {"Skipped", "Planned", "Pending", "Unplanned"} : Place(b.to, place)
    BY <1>9 DEF Bind, Verdicts, Chain
  <2> HIDE DEF b
  <2> QED BY <2>1, <2>2, <2>3, PlaceKeepsQueues
<1> QED BY <1>1, <1>3, <1>4, <1>5, <1>6, <1>7, <1>8, <1>9 DEF Step

\* A request from outside, or an error that nobody catches, leaves one step
\* planned and starts it, unless the process is lost.
LEMMA ImposeKeepsQueues ==
    ASSUME TypeInv, NEW a \in Ids, Impose(a), Chain.at = "idle",
           Go(Handler, At("exec", a)) \/ UNCHANGED ctl
    PROVE  QueuesHold'
<1>1. Chain'.at \in {"exec", "idle"}
  <2>1. CASE Go(Handler, At("exec", a))
    BY <2>1, Moved DEF At, TypeInv
  <2>2. CASE UNCHANGED ctl
    BY <2>2 DEF Chain
  <2> QED BY <2>1, <2>2
<1> QED BY <1>1, ResetQueues DEF Impose

LEMMA RequestKeepsQueues ==
    ASSUME FitInv, QueuesHold,
           Begin \/ InterruptReceived \/ ErrorReceived \/ StatusReceived
    PROVE  QueuesHold'
<1> USE DEF tables, puts, caller, work
<1>0. TypeInv /\ TypeOK /\ Chain.at = "idle"
  BY DEF FitInv, TypeInv, Begin, FirstCall, InterruptReceived, ErrorReceived,
         StatusReceived, Accepts, IsAt, Chain
<1> USE <1>0, AtWork
<1>1. CASE Begin
  <2>1. PICK kind \in {"DefaultAction", "Status"}, given \in [Given -> Values] :
          FirstCall(kind, given)
    BY <1>1 DEF Begin
  <2>2. nexts' = {} /\ pendings' = {} /\ status' = AllUnplanned
    BY <2>1 DEF FirstCall, FitInv, Fresh
  <2>3. Chain'.at = "start"
    BY <2>1, Moved DEF FirstCall, At
  <2>4. \A a \in Ids : status'[a] \in {"Unplanned", "Absent"}
    BY <2>2 DEF AllUnplanned
  <2> QED BY <2>2, <2>3, <2>4 DEF QueuesHold, TablesHold, TablesAgree, StartersPlaced
<1>2. CASE InterruptReceived \/ ErrorReceived
  BY <1>2, ImposeKeepsQueues DEF InterruptReceived, ErrorReceived
<1>3. CASE StatusReceived
  BY <1>3 DEF StatusReceived, QueuesHold, TablesHold, TablesAgree, StartersPlaced, Held, Chain
<1> QED BY <1>1, <1>2, <1>3

\* The handler goes on with the action that waited.
LEMMA ResumeMoves ==
    ASSUME TypeInv, NEW s \in subs, ReplyTaken(s) \/ ErrorCaught(s)
    PROVE  /\ s.act \in Ids /\ status[s.act] = "Waiting"
           /\ Chain.at = "idle" /\ ~crashed
           /\ UNCHANGED <<tables, level, asked, ended, wf>>
           /\ \E r \in wf.later[s.act] :
                /\ Launch(s.act, r, level, Spent(s), asyncs)
                /\ Chain'.at = "result" /\ Chain'.act = s.act /\ Chain'.res = r
<1>1. s.act \in Ids
  BY DEF TypeInv, TypeOK, Sub
<1>2. PICK r \in wf.later[s.act] :
        /\ Launch(s.act, r, level, Spent(s), asyncs)
        /\ Go(Handler, [At("result", s.act) EXCEPT !.res = r])
  BY DEF ReplyTaken, ErrorCaught, Resume
<1>3. Chain'.at = "result" /\ Chain'.act = s.act /\ Chain'.res = r
  BY <1>2, Moved DEF At, TypeInv
<1>4. /\ status[s.act] = "Waiting" /\ Chain.at = "idle" /\ ~crashed
      /\ UNCHANGED <<tables, level, asked, ended, wf>>
  BY DEF ReplyTaken, ErrorCaught, Expected, Catches, IsAt, Chain, tables, caller
<1> QED BY <1>1, <1>2, <1>3, <1>4

LEMMA AnswerKeepsQueues ==
    ASSUME Sequential, TypeInv, QueuesHold, SubAnswered \/ OperationEnds
    PROVE  QueuesHold'
<1> USE AtWork DEF tables, puts, caller, work
<1>1. PICK s \in subs :
        ReplyTaken(s) \/ ReplyIgnored(s) \/ ErrorCaught(s) \/ ErrorForced(s)
  BY DEF SubAnswered, OperationEnds, Sequential
<1>2. CASE ReplyTaken(s) \/ ErrorCaught(s)
  BY <1>2, ResumeMoves DEF QueuesHold, TablesHold, TablesAgree, StartersPlaced, Held
<1>3. CASE ReplyIgnored(s)
  <2>1. UNCHANGED <<tables, ctl>> /\ Chain.at = "idle"
    BY <1>3 DEF ReplyIgnored, IsAt, Chain
  <2> QED BY <2>1 DEF QueuesHold, TablesHold, TablesAgree, StartersPlaced, Held, Chain
<1>4. CASE ErrorForced(s)
  <2>1. Chain.at = "idle"
    BY <1>4 DEF ErrorForced, IsAt, Chain
  <2> QED BY <1>4, <2>1, ImposeKeepsQueues DEF ErrorForced
<1> QED BY <1>1, <1>2, <1>3, <1>4

-----------------------------------------------------------------------------
(* One action at most is outstanding.                                      *)

OneAtWork ==
    /\ \A a, b \in Outstanding : a = b
    /\ Chain.at \in {"start", "next", "bind"} => Outstanding = {}
    /\ Chain.at = "result" => Outstanding \subseteq {Chain.act}
    /\ Chain.at = "exec" /\ Chain.act # Error => Outstanding = {}

\* A status table without "Waiting" and "Async".
LEMMA ResetOutstanding ==
    ASSUME TypeInv,
           \/ status' = AllUnplanned
           \/ \E a : status' = [AllUnplanned EXCEPT ![a] = "Planned"]
    PROVE  OneAtWork'
<1>1. AllUnplanned \in [Ids -> Statuses]
      /\ \A b \in Ids : AllUnplanned[b] \in {"Unplanned", "Absent"}
  BY AllUnplannedType DEF AllUnplanned, TypeInv
<1>2. Outstanding' = {}
  BY <1>1 DEF Outstanding
<1> QED BY <1>2 DEF OneAtWork

\* Nothing is outstanding, and an action gets another status.
LEMMA NoneOutstanding ==
    ASSUME TypeInv, Outstanding = {}, NEW a, NEW v, v \notin {"Waiting", "Async"},
           status' = [status EXCEPT ![a] = v]
    PROVE  OneAtWork' /\ Outstanding' = {}
<1>1. Outstanding' = {}
  BY AtWork DEF Outstanding
<1> QED BY <1>1 DEF OneAtWork

LEMMA StepKeepsOne ==
    ASSUME Sequential, TypeInv, OneAtWork, NEW t \in Threads, Step(t)
    PROVE  OneAtWork'
<1> USE DEF tables, puts, caller, work
<1>0. t = Handler /\ TypeOK
  BY Alone DEF TypeInv
<1> USE <1>0, AtWork
<1>1. CASE ScheduleStarter(t)
  <2>1. Outstanding = {}
    BY <1>1 DEF ScheduleStarter, IsAt, OneAtWork, Chain
  <2>2. CASE status' = status
    BY <2>1, <2>2 DEF OneAtWork, Outstanding
  <2>3. CASE status' # status
    BY <1>1, <2>1, <2>3, NoneOutstanding DEF ScheduleStarter
  <2> QED BY <2>2, <2>3
<1>2. CASE StartersDone(t) \/ Pick(t) \/ BindDone(t)
  <2>1. Outstanding = {} /\ status' = status
    BY <1>2 DEF StartersDone, Pick, BindDone, IsAt, OneAtWork, Chain
  <2> QED BY <2>1 DEF OneAtWork, Outstanding
<1>3. CASE Promote(t) \/ NothingToExecute(t)
  <2>1. Outstanding = {}
    BY <1>3 DEF Promote, NothingToExecute, IsAt, OneAtWork, Chain
  <2> QED BY <1>3, <2>1, NoneOutstanding DEF Promote, NothingToExecute
<1>4. CASE EndSession(t)
  <2>1. Outstanding = {} /\ status' = status
    BY <1>4 DEF EndSession, IsAt, OneAtWork, Chain, Die, Error
  <2> QED BY <2>1 DEF OneAtWork, Outstanding
<1>5. CASE Execute(t)
  <2>1. CASE Restarts(Chain.act)
    BY <1>5, <2>1, ResetOutstanding DEF Execute, Chain
  <2>2. CASE ~Restarts(Chain.act)
    <3>1. Outstanding = {} /\ status' = status
      BY <1>5, <2>2 DEF Execute, IsAt, OneAtWork, Chain, Restarts
    <3> QED BY <3>1 DEF OneAtWork, Outstanding
  <2> QED BY <2>1, <2>2
<1>6. CASE ContractBroken(t)
  <2>1. Chain' = At("exec", Error)
    BY <1>6, Moved DEF ContractBroken
  <2> QED BY <1>6, <2>1 DEF ContractBroken, OneAtWork, Outstanding, At
<1>7. CASE ActionDone(t) \/ ActionFails(t)
  <2>1. Outstanding \subseteq {Chain.act} /\ Chain.act \in Ids
        /\ status' = [status EXCEPT ![Chain.act] = "Done"]
    BY <1>7 DEF ActionDone, ActionFails, IsAt, OneAtWork, Chain
  <2>2. Outstanding' = {}
    BY <2>1 DEF Outstanding
  <2> QED BY <2>2 DEF OneAtWork
<1>8. CASE ActionSuspends(t)
  <2>1. Outstanding \subseteq {Chain.act}
        /\ \E v : status' = [status EXCEPT ![Chain.act] = v]
    BY <1>8 DEF ActionSuspends, IsAt, OneAtWork, Chain
  <2>2. Outstanding' \subseteq {Chain.act}
    BY <2>1 DEF Outstanding
  <2>3. Chain'.at = "idle"
    BY <1>8, Moved DEF ActionSuspends, Idle, At
  <2> QED BY <2>2, <2>3 DEF OneAtWork
<1>9. CASE Bind(t)
  <2>1. Outstanding = {}
    BY <1>9 DEF Bind, IsAt, OneAtWork, Chain
  <2>2. PICK place \in {"Skipped", "Planned", "Pending", "Unplanned"} :
          Place(wf.out[Chain.act][Chain.n].to, place)
    BY <1>9 DEF Bind, Verdicts, Chain
  <2> QED BY <2>1, <2>2, NoneOutstanding DEF Place
<1> QED BY <1>1, <1>2, <1>3, <1>4, <1>5, <1>6, <1>7, <1>8, <1>9 DEF Step

LEMMA RequestKeepsOne ==
    ASSUME TypeInv, OneAtWork,
           Begin \/ InterruptReceived \/ ErrorReceived \/ StatusReceived
    PROVE  OneAtWork'
<1> USE DEF tables, puts, caller, work
<1>1. CASE Begin \/ InterruptReceived \/ ErrorReceived
  BY <1>1, ResetOutstanding DEF Begin, FirstCall, InterruptReceived, ErrorReceived, Impose
<1>2. CASE StatusReceived
  BY <1>2 DEF StatusReceived, OneAtWork, Outstanding, Chain
<1> QED BY <1>1, <1>2

LEMMA AnswerKeepsOne ==
    ASSUME Sequential, TypeInv, OneAtWork, SubAnswered \/ OperationEnds
    PROVE  OneAtWork'
<1> USE AtWork DEF tables, puts, caller, work
<1>1. PICK s \in subs :
        ReplyTaken(s) \/ ReplyIgnored(s) \/ ErrorCaught(s) \/ ErrorForced(s)
  BY DEF SubAnswered, OperationEnds, Sequential
<1>2. CASE ReplyTaken(s) \/ ErrorCaught(s)
  <2>1. s.act \in Outstanding /\ Outstanding' = Outstanding
    BY <1>2, ResumeMoves DEF Outstanding
  <2>2. Chain'.at = "result" /\ Chain'.act = s.act
    BY <1>2, ResumeMoves
  <2> QED BY <2>1, <2>2 DEF OneAtWork
<1>3. CASE ReplyIgnored(s)
  BY <1>3 DEF ReplyIgnored, OneAtWork, Outstanding, Chain
<1>4. CASE ErrorForced(s)
  BY <1>4, ResetOutstanding DEF ErrorForced, Impose
<1> QED BY <1>1, <1>2, <1>3, <1>4

-----------------------------------------------------------------------------
(* What an outstanding action waits for is on its way.                     *)

SubOf(a) == \E s \in subs : s.act = a /\ s.level = level
OperationOf(a) == \E o \in asyncs : o.act = a

Owed ==
    /\ Chain.at = "idle" => \A a \in Ids :
            /\ status[a] = "Waiting" => SubOf(a)
            /\ status[a] = "Async" => OperationOf(a)
    /\ Chain.at = "result" =>
            /\ Chain.res = "Wait" => SubOf(Chain.act)
            /\ Chain.res = "Async" => OperationOf(Chain.act)

\* Nothing happens before the first request.
Quiet ==
    asked = << >> => /\ Uninitialised /\ Chain.at = "idle"
                     /\ subs = {} /\ asyncs = {}

\* Who leaves the chain of calls has reached the end, or waits.
Stops ==
    (Chain.at = "idle" /\ asked # << >> /\ ~crashed) =>
        ended \/ Outstanding # {}

LaunchedIsOwed == Owed /\ Quiet /\ Stops

\* Launch leaves a sub-request for Wait, an operation for Async.
LEMMA LaunchOwes ==
    ASSUME NEW a, NEW r, NEW lvl, NEW rest, NEW restAsync,
           Launch(a, r, lvl, rest, restAsync)
    PROVE  /\ r = "Wait" => \E s \in subs' : s.act = a /\ s.level = lvl
           /\ r = "Async" => \E o \in asyncs' : o.act = a
<1>1. ASSUME r = "Wait" PROVE \E s \in subs' : s.act = a /\ s.level = lvl
  <2> DEFINE s == [act |-> a, level |-> lvl, no |-> launched', left |-> AnswersPerSub]
  <2>1. "Wait" \in {r} \cap {"Wait"}
    BY <1>1
  <2>2. s \in {s : x \in {r} \cap {"Wait"}}
    BY <2>1
  <2>3. s \in subs'
    BY <2>2 DEF Launch
  <2> QED BY <2>3
<1>2. ASSUME r = "Async" PROVE \E o \in asyncs' : o.act = a
  <2> DEFINE o == [act |-> a, no |-> launched']
  <2>1. "Async" \in {r} \cap {"Async"}
    BY <1>2
  <2>2. o \in {o : x \in {r} \cap {"Async"}}
    BY <2>1
  <2>3. o \in asyncs'
    BY <2>2 DEF Launch
  <2> QED BY <2>3
<1> QED BY <1>1, <1>2

LEMMA StepKeepsOwed ==
    ASSUME Sequential, TypeInv, OneAtWork, LaunchedIsOwed, NEW t \in Threads, Step(t)
    PROVE  LaunchedIsOwed'
<1> USE DEF tables, puts, caller, work
<1>0. t = Handler /\ TypeOK
  BY Alone DEF TypeInv
<1> USE <1>0, AtWork
\* The chain was running, so that requests had come, and it is not lost.
<1>1. asked # << >> /\ asked' = asked /\ ~crashed /\ ~crashed'
  <2>1. Chain.at # "idle" /\ ~crashed
    BY DEF Step, IsAt, ScheduleStarter, StartersDone, Promote, Pick,
           NothingToExecute, EndSession, Execute, ContractBroken, ActionDone,
           ActionSuspends, ActionFails, Bind, BindDone, Chain
  <2>2. asked' = asked /\ crashed' = crashed
    BY DEF Step, ScheduleStarter, StartersDone, Promote, Pick,
           NothingToExecute, EndSession, Execute, ContractBroken, ActionDone,
           ActionSuspends, ActionFails, Bind, BindDone
  <2> QED BY <2>1, <2>2 DEF LaunchedIsOwed, Quiet
<1>2. Quiet'
  BY <1>1 DEF Quiet
<1>3. ASSUME NEW c, Go(t, c), c.at \notin {"idle", "result"}
      PROVE  LaunchedIsOwed'
  <2>1. Chain' = c
    BY <1>3, Moved
  <2> QED BY <1>2, <1>3, <2>1 DEF LaunchedIsOwed, Owed, Stops
<1>4. CASE ScheduleStarter(t) \/ Bind(t)
  <2>1. Chain.at \in {"start", "bind"} /\ Go(t, [Chain EXCEPT !.n = @ + 1])
    BY <1>4 DEF ScheduleStarter, Bind, IsAt, Chain
  <2>2. [Chain EXCEPT !.n = @ + 1].at = Chain.at
    BY DEF Control
  <2> HIDE DEF Chain
  <2> QED BY <1>3, <2>1, <2>2
<1>5. CASE ActionDone(t)
  <2>1. [Chain EXCEPT !.at = "bind", !.n = 1].at = "bind"
    BY DEF Control
  <2> QED BY <1>3, <1>5, <2>1 DEF ActionDone, Chain
<1>6. CASE \/ StartersDone(t) \/ Pick(t) \/ BindDone(t) \/ NothingToExecute(t)
           \/ ContractBroken(t) \/ ActionFails(t)
  <2>1. PICK c : Go(t, c) /\ c.at \in {"next", "exec"}
    BY <1>6 DEF StartersDone, Pick, BindDone, NothingToExecute, ContractBroken,
                ActionFails, At
  <2> QED BY <1>3, <2>1
<1>7. CASE Promote(t)
  BY <1>2, <1>7 DEF Promote, IsAt, Chain, LaunchedIsOwed, Owed, Stops
<1>8. CASE EndSession(t)
  <2>1. Outstanding = {} /\ status' = status /\ ended' = TRUE
    BY <1>8 DEF EndSession, IsAt, OneAtWork, Chain, Die, Error
  <2>2. Chain'.at = "idle"
    BY <1>8, Moved DEF EndSession, Idle, At
  <2> QED BY <1>2, <2>1, <2>2 DEF LaunchedIsOwed, Owed, Stops, Outstanding
<1>9. CASE Execute(t)
  <2>1. PICK r \in wf.does[Chain.act] :
          /\ Launch(Chain.act, r, level', subs, asyncs)
          /\ Go(t, [At("result", Chain.act) EXCEPT !.res = r])
    BY <1>9 DEF Execute, Chain
  <2>2. Chain'.at = "result" /\ Chain'.act = Chain.act /\ Chain'.res = r
    BY <2>1, Moved DEF At
  <2>3. Owed'
    BY <2>1, <2>2, LaunchOwes DEF Owed, SubOf, OperationOf
  <2> QED BY <1>2, <2>2, <2>3 DEF LaunchedIsOwed, Stops
<1>10. CASE ActionSuspends(t)
  <2>1. /\ Chain.at = "result" /\ Chain.act \in Ids
        /\ Outstanding \subseteq {Chain.act}
    BY <1>10 DEF ActionSuspends, IsAt, OneAtWork, Chain
  <2>2. \/ Chain.res = "Wait" /\ status' = [status EXCEPT ![Chain.act] = "Waiting"]
        \/ Chain.res = "Async" /\ status' = [status EXCEPT ![Chain.act] = "Async"]
    BY <1>10 DEF ActionSuspends, Chain
  <2>3. Chain'.at = "idle"
    BY <1>10, Moved DEF ActionSuspends, Idle, At
  <2>4. UNCHANGED <<subs, asyncs, level>>
    BY <1>10 DEF ActionSuspends
  <2>5. \A a \in Ids \ {Chain.act} : status'[a] \notin {"Waiting", "Async"}
    BY <2>1, <2>2 DEF Outstanding
  <2>6. Owed'
    BY <2>1, <2>2, <2>3, <2>4, <2>5 DEF Owed, SubOf, OperationOf, LaunchedIsOwed
  <2>7. Chain.act \in Outstanding'
    BY <2>1, <2>2 DEF Outstanding
  <2> QED BY <1>2, <2>6, <2>7 DEF LaunchedIsOwed, Stops
<1> QED BY <1>4, <1>5, <1>6, <1>7, <1>8, <1>9, <1>10 DEF Step

LEMMA RequestKeepsOwed ==
    ASSUME TypeInv, LaunchedIsOwed,
           Begin \/ InterruptReceived \/ ErrorReceived \/ StatusReceived
    PROVE  LaunchedIsOwed'
<1> USE AtWork DEF tables, puts, caller, work
<1>0. asked' # << >> /\ TypeOK
  <2>1. \E kind : asked' = Append(asked, kind)
    BY DEF Begin, FirstCall, InterruptReceived, ErrorReceived, StatusReceived, Accepts
  <2>2. Len(asked') = Len(asked) + 1 /\ Len(asked) \in Nat /\ TypeOK
    BY <2>1 DEF TypeInv, TypeOK
  <2> QED BY <2>2
<1>1. Quiet'
  BY <1>0 DEF Quiet
<1>2. CASE Begin
  <2>1. Chain'.at = "start"
    BY <1>0, <1>2, Moved DEF Begin, FirstCall, At
  <2> QED BY <1>1, <2>1 DEF LaunchedIsOwed, Owed, Stops
<1>3. CASE InterruptReceived
  <2>1. CASE Go(Handler, At("exec", Interrupt))
    <3>1. Chain'.at = "exec"
      BY <1>0, <2>1, Moved DEF At
    <3> QED BY <1>1, <3>1 DEF LaunchedIsOwed, Owed, Stops
  <2>2. CASE crashed' /\ UNCHANGED ctl
    <3>1. \A a \in Ids : status'[a] \notin {"Waiting", "Async"}
      BY <1>3 DEF InterruptReceived, Impose, AllUnplanned
    <3>2. Chain'.at = "idle"
      BY <1>3, <2>2 DEF InterruptReceived, Accepts, IsAt, Chain
    <3> QED BY <1>1, <2>2, <3>1, <3>2 DEF LaunchedIsOwed, Owed, Stops
  <2> QED BY <1>3, <2>1, <2>2 DEF InterruptReceived
<1>4. CASE ErrorReceived
  <2>1. Chain'.at = "exec"
    BY <1>0, <1>4, Moved DEF ErrorReceived, At
  <2> QED BY <1>1, <2>1 DEF LaunchedIsOwed, Owed, Stops
<1>5. CASE StatusReceived
  <2>1. asked # << >>
    BY <1>5 DEF StatusReceived, LaunchedIsOwed, Quiet
  <2> QED BY <1>1, <1>5, <2>1 DEF StatusReceived, LaunchedIsOwed, Owed, Stops, Chain,
                         Outstanding, SubOf, OperationOf
<1> QED BY <1>2, <1>3, <1>4, <1>5

LEMMA AnswerKeepsOwed ==
    ASSUME Sequential, TypeInv, OneAtWork, LaunchedIsOwed, SubAnswered \/ OperationEnds
    PROVE  LaunchedIsOwed'
<1> USE AtWork DEF tables, puts, caller, work
<1>1. PICK s \in subs :
        ReplyTaken(s) \/ ReplyIgnored(s) \/ ErrorCaught(s) \/ ErrorForced(s)
  BY DEF SubAnswered, OperationEnds, Sequential
<1>2. Quiet' /\ asked # << >> /\ TypeOK
  <2>1. asked # << >> /\ TypeOK
    BY <1>1 DEF LaunchedIsOwed, Quiet, TypeInv
  <2>2. asked' = asked
    BY <1>1 DEF ReplyTaken, ReplyIgnored, ErrorCaught, ErrorForced
  <2> QED BY <2>1, <2>2 DEF Quiet
<1>3. CASE ReplyTaken(s) \/ ErrorCaught(s)
  <2>1. PICK r \in wf.later[s.act] :
          /\ Launch(s.act, r, level, Spent(s), asyncs)
          /\ Chain'.at = "result" /\ Chain'.act = s.act /\ Chain'.res = r
    BY <1>3, ResumeMoves
  <2>2. level' = level
    BY <1>3, ResumeMoves
  <2>3. Owed'
    BY <2>1, <2>2, LaunchOwes DEF Owed, SubOf, OperationOf
  <2> QED BY <1>2, <2>1, <2>3 DEF LaunchedIsOwed, Stops
<1>4. CASE ReplyIgnored(s)
  <2>1. /\ UNCHANGED <<status, level, ended, ctl, asked, asyncs, crashed>>
        /\ subs' = Spent(s) /\ ~Expected(s) /\ Chain.at = "idle"
    BY <1>4 DEF ReplyIgnored, IsAt, Chain
  <2>2. ASSUME NEW a \in Ids, status'[a] = "Waiting" PROVE SubOf(a)'
    <3>1. PICK q \in subs : q.act = a /\ q.level = level
      BY <2>1, <2>2 DEF LaunchedIsOwed, Owed, SubOf
    <3>2. q # s
      BY <2>1, <2>2, <3>1 DEF Expected
    <3>3. q \in subs'
      BY <2>1, <3>1, <3>2 DEF Spent
    <3> QED BY <2>1, <3>1, <3>3 DEF SubOf
  <2>3. Owed'
    BY <2>1, <2>2 DEF LaunchedIsOwed, Owed, OperationOf, Chain
  <2> QED BY <1>2, <2>1, <2>3 DEF LaunchedIsOwed, Stops, Outstanding, Chain
<1>5. CASE ErrorForced(s)
  <2>1. Chain'.at = "exec"
    BY <1>2, <1>5, Moved DEF ErrorForced, At
  <2> QED BY <1>2, <2>1 DEF LaunchedIsOwed, Owed, Stops
<1> QED BY <1>1, <1>3, <1>4, <1>5

-----------------------------------------------------------------------------
(* The theorems.                                                           *)

SequentialInv == FitInv /\ QueuesHold /\ OneAtWork /\ LaunchedIsOwed

LEMMA SequentialInit == Init => SequentialInv
<1> SUFFICES ASSUME Init PROVE SequentialInv
  OBVIOUS
<1>1. Chain.at = "idle"
  BY DEF Init, Idle, At, Chain, Threads
<1>2. \A a \in Ids : status[a] = "Absent"
  BY DEF Init
<1>3. Outstanding = {}
  BY <1>2 DEF Outstanding
<1>4. QueuesHold
  BY <1>1, <1>2 DEF Init, QueuesHold, TablesHold, TablesAgree, StartersPlaced
<1>5. OneAtWork
  BY <1>3 DEF OneAtWork
<1>6. LaunchedIsOwed
  BY <1>1, <1>2 DEF Init, LaunchedIsOwed, Owed, Quiet, Stops, Uninitialised
<1> QED BY <1>4, <1>5, <1>6, FitInit DEF SequentialInv

LEMMA SequentialNext ==
    ASSUME Sequential
    PROVE  SequentialInv /\ [Next]_vars => SequentialInv'
<1> SUFFICES ASSUME SequentialInv, [Next]_vars PROVE SequentialInv'
  OBVIOUS
<1>1. FitInv /\ TypeInv /\ QueuesHold /\ OneAtWork /\ LaunchedIsOwed
  BY DEF SequentialInv, FitInv
<1>2. FitInv'
  BY <1>1, FitNext
<1>3. CASE UNCHANGED vars
  BY <1>1, <1>2, <1>3
     DEF vars, tables, puts, caller, work, SequentialInv, QueuesHold, TablesHold,
         TablesAgree, StartersPlaced, Started, Producers, Held, OneAtWork, Outstanding,
         LaunchedIsOwed, Owed, SubOf, OperationOf, Quiet, Uninitialised, Stops, Chain
<1>4. CASE \E t \in Threads : Step(t)
  BY <1>1, <1>2, <1>4, StepKeepsQueues, StepKeepsOne, StepKeepsOwed DEF SequentialInv
<1>5. CASE Begin \/ InterruptReceived \/ ErrorReceived \/ StatusReceived
  BY <1>1, <1>2, <1>5, RequestKeepsQueues, RequestKeepsOne, RequestKeepsOwed
     DEF SequentialInv
<1>6. CASE SubAnswered \/ OperationEnds
  BY <1>1, <1>2, <1>6, AnswerKeepsQueues, AnswerKeepsOne, AnswerKeepsOwed
     DEF SequentialInv
<1> QED BY <1>3, <1>4, <1>5, <1>6 DEF Next, Rest

LEMMA SequentialInvariant ==
    ASSUME Sequential
    PROVE  Spec => []SequentialInv
  BY SequentialInit, SequentialNext, PTL DEF Spec

\* What getNext may pick is planned and what tryPromotePending may promote is
\* pending, in every state: the status table and the two sets are written
\* apart (addToNext, addToPending, removeFromNext, removeFromPending) and agree.
THEOREM TablesAlwaysAgree ==
    ASSUME Sequential, StartsSteady
    PROVE  Spec => []TablesAgree
<1>1. SequentialInv => TablesAgree
  BY DEF SequentialInv, QueuesHold, TablesHold
<1> QED BY <1>1, SequentialInvariant, PTL

\* At most one action is waiting, and none while the chain of calls goes on.
THEOREM OneIsOutstanding ==
    ASSUME Sequential
    PROVE  Spec => []OneOutstanding
<1>1. SequentialInv => OneOutstanding
  BY Alone DEF SequentialInv, OneAtWork, OneOutstanding, Chain
<1> QED BY <1>1, SequentialInvariant, PTL

\* When the chain of calls has returned every planned or pending action is
\* still queued and every waiting one has an answer to come, whatever
\* interruptions, errors, skipped inputs and late replies there have been.
THEOREM NothingIsForgotten ==
    ASSUME Sequential
    PROVE  Spec => []NothingForgotten
<1>1. SequentialInv => NothingForgotten
  BY Alone DEF SequentialInv, QueuesHold, Held, LaunchedIsOwed, Owed, SubOf,
               OperationOf, NothingForgotten, Chain
<1> QED BY <1>1, SequentialInvariant, PTL

\* A session that is idle with nothing outstanding has reached Die: executeAction
\* always finds an action, Finish or Error to run.
THEOREM StopsAtEndOnly ==
    ASSUME Sequential
    PROVE  Spec => []StopsOnlyAtEnd
<1>1. SequentialInv => StopsOnlyAtEnd
  <2> SUFFICES ASSUME SequentialInv, ~crashed, asked # << >>, Chain.at = "idle",
                      subs = {}, asyncs = {}
               PROVE  ended
    BY Alone DEF StopsOnlyAtEnd, Chain
  <2>1. Outstanding = {}
    BY DEF SequentialInv, LaunchedIsOwed, Owed, SubOf, OperationOf, Outstanding
  <2> QED BY <2>1 DEF SequentialInv, LaunchedIsOwed, Stops
<1> QED BY <1>1, SequentialInvariant, PTL

-----------------------------------------------------------------------------
(* Replies and execution levels.                                           *)

\* A sub-request is answered once at most.
AnsweredOnce == AnswersPerSub <= 1

\* No action catches errors, or no error and no interruption comes from outside:
\* errorReceived is called before the execution level is looked at.
Deaf        == \A w \in Layouts : w.handles = {}
Undisturbed == Kinds \cap {"Interrupt", "Error"} = {}

\* The chain of calls goes on, and will not raise the level before another
\* action is run at it.
Moving ==
    \/ Chain.at \in {"start", "next", "bind"}
    \/ Chain.at = "exec" /\ Chain.act \notin {Error, Interrupt}
    \/ Chain.at = "result" /\ Chain.res # "Wait"

\* Of the sub-requests that may still be answered, those of the current
\* execution level are the last one launched, and there is none while the chain
\* goes on.
SubsCurrent ==
    /\ \A s \in subs : /\ s.level <= level /\ s.no <= launched /\ s.left <= 1
                       /\ s.level = level => s.no = launched
    /\ \A r, s \in subs : r.no = s.no => r = s
    /\ Moving => \A s \in subs : s.level # level
    /\ Uninitialised => subs = {}
    /\ Undisturbed => /\ \A s \in subs : s.level = level
                      /\ Chain.at = "exec" => subs = {}

\* What an action launches is the newest, at a level where nothing else is left.
LEMMA LaunchKeepsCurrent ==
    ASSUME AnsweredOnce, TypeInv, SubsCurrent, NEW a, NEW r, NEW rest, NEW restAsync,
           Launch(a, r, level', rest, restAsync), rest \subseteq subs,
           level' \in Nat, level' >= level, \A s \in rest : s.level # level',
           Undisturbed => rest = {},
           Chain'.at = "result", Chain'.res = r, ~Uninitialised'
    PROVE  SubsCurrent'
<1>1. /\ AnswersPerSub \in Nat /\ launched \in Nat /\ level \in Nat
      /\ \A s \in rest : s \in Sub
  BY ConstantsAssumption DEF ConstantsAssumption, TypeInv, TypeOK
<1>2. \A s \in rest : /\ s.level < level' /\ s.no <= launched /\ s.left <= 1
                      /\ s.level \in Nat /\ s.no \in Nat
  BY <1>1 DEF SubsCurrent, Sub
<1>3. CASE r = "Wait"
  <2> DEFINE new == [act |-> a, level |-> level', no |-> launched', left |-> AnswersPerSub]
  <2>1. launched' = launched + 1 /\ subs' = rest \cup {new}
    BY <1>3 DEF Launch
  <2>2. new.level = level' /\ new.no = launched + 1 /\ new.left <= 1
    BY <2>1 DEF AnsweredOnce
  <2> HIDE DEF new
  <2>3. \A s \in subs' : /\ s.level <= level' /\ s.no <= launched' /\ s.left <= 1
                         /\ s.level = level' => s.no = launched'
    BY <1>1, <1>2, <2>1, <2>2
  <2>4. \A q, s \in subs' : q.no = s.no => q = s
    BY <1>1, <1>2, <2>1, <2>2 DEF SubsCurrent
  <2>5. ~Moving'
    BY <1>3 DEF Moving
  <2> QED BY <2>1, <2>2, <2>3, <2>4, <2>5 DEF SubsCurrent
<1>4. CASE r # "Wait"
  <2>1. launched' \in {launched, launched + 1} /\ subs' = rest
    BY <1>4 DEF Launch
  <2>2. \A s \in subs' : /\ s.level <= level' /\ s.no <= launched' /\ s.left <= 1
                         /\ s.level # level'
    BY <1>1, <1>2, <2>1
  <2>3. \A q, s \in subs' : q.no = s.no => q = s
    BY <2>1 DEF SubsCurrent
  <2> QED BY <2>1, <2>2, <2>3 DEF SubsCurrent
<1> QED BY <1>3, <1>4

LEMMA StepKeepsCurrent ==
    ASSUME Sequential, AnsweredOnce, FitInv, SubsCurrent, NEW t \in Threads, Step(t)
    PROVE  SubsCurrent'
<1> USE DEF tables, puts, caller, work
<1>0. t = Handler /\ TypeInv /\ TypeOK /\ ~Uninitialised'
  BY Alone, StepStarted DEF FitInv, TypeInv
<1> USE <1>0, AtWork
\* The chain goes on, or returns, with nothing launched.
<1>1. ASSUME NEW c, Go(t, c), UNCHANGED <<work, level>>,
             Moving \/ c.at = "idle", c.at # "result"
      PROVE  SubsCurrent'
  <2>1. Chain' = c
    BY <1>1, Moved
  <2>2. UNCHANGED <<subs, launched, level>>
    BY <1>1
  <2>3. Moving' => \A s \in subs : s.level # level
    BY <1>1, <2>1 DEF SubsCurrent, Moving
  <2>4. Undisturbed /\ Chain'.at = "exec" => subs = {}
    BY <1>1, <2>1 DEF SubsCurrent
  <2> QED BY <2>2, <2>3, <2>4 DEF SubsCurrent
<1>2. CASE ScheduleStarter(t) \/ Bind(t)
  <2>1. /\ Chain.at \in {"start", "bind"} /\ Go(t, [Chain EXCEPT !.n = @ + 1])
        /\ UNCHANGED <<work, level>>
    BY <1>2 DEF ScheduleStarter, Bind, IsAt, Chain
  <2>2. [Chain EXCEPT !.n = @ + 1].at = Chain.at
    BY DEF Control
  <2>3. Moving
    BY <2>1 DEF Moving
  <2> HIDE DEF Chain
  <2> QED BY <1>1, <2>1, <2>2, <2>3
<1>3. CASE StartersDone(t) \/ Pick(t) \/ BindDone(t) \/ NothingToExecute(t)
  <2>1. /\ \E c : Go(t, c) /\ c.at \in {"next", "exec"}
        /\ Chain.at \in {"start", "next", "bind"} /\ UNCHANGED <<work, level>>
    BY <1>3 DEF StartersDone, Pick, BindDone, NothingToExecute, IsAt, At, Chain
  <2> QED BY <1>1, <2>1 DEF Moving
<1>4. CASE Promote(t)
  <2>1. UNCHANGED <<subs, launched, level, ctl>>
    BY <1>4 DEF Promote
  <2> QED BY <2>1 DEF SubsCurrent, Moving, Chain
<1>5. CASE EndSession(t) \/ ActionSuspends(t)
  <2>1. Go(t, At("idle", None)) /\ UNCHANGED <<work, level>>
    BY <1>5 DEF EndSession, ActionSuspends, Idle
  <2> QED BY <1>1, <2>1 DEF At
<1>6. CASE ContractBroken(t) \/ ActionFails(t)
  <2>1. /\ Go(t, At("exec", Error)) /\ UNCHANGED <<work, level>>
        /\ Chain.at = "result" /\ Chain.res # "Wait"
    BY <1>6 DEF ContractBroken, ActionFails, IsAt, Chain
  <2> QED BY <1>1, <2>1 DEF At, Moving
<1>7. CASE ActionDone(t)
  <2>1. /\ Go(t, [Chain EXCEPT !.at = "bind", !.n = 1]) /\ UNCHANGED <<work, level>>
        /\ Chain.at = "result" /\ Chain.res # "Wait"
    BY <1>7 DEF ActionDone, IsAt, Chain
  <2>2. [Chain EXCEPT !.at = "bind", !.n = 1].at = "bind"
    BY DEF Control
  <2>3. Moving
    BY <2>1 DEF Moving
  <2> QED BY <1>1, <2>1, <2>2, <2>3
<1>8. CASE Execute(t)
  <2>1. PICK r \in wf.does[Chain.act] :
          /\ Launch(Chain.act, r, level', subs, asyncs)
          /\ Go(t, [At("result", Chain.act) EXCEPT !.res = r])
    BY <1>8 DEF Execute, Chain
  <2>2. Chain'.at = "result" /\ Chain'.res = r
    BY <2>1, Moved DEF At
  <2>3. /\ Chain.at = "exec"
        /\ level' = IF RaisesLevel(Chain.act) THEN level + 1 ELSE level
    BY <1>8 DEF Execute, IsAt, Chain
  <2>4. \A s \in subs : s \in Sub
    BY DEF TypeOK
  <2>5. level' \in Nat /\ level' >= level /\ \A s \in subs : s.level # level'
    <3>1. level \in Nat
      BY DEF TypeOK
    <3>2. CASE RaisesLevel(Chain.act)
      BY <2>3, <2>4, <3>1, <3>2 DEF SubsCurrent, Sub
    <3>3. CASE ~RaisesLevel(Chain.act)
      <4>1. Moving
        BY <2>3, <3>3 DEF Moving, RaisesLevel
      <4> QED BY <2>3, <3>1, <3>3, <4>1 DEF SubsCurrent
    <3> QED BY <3>2, <3>3
  <2>6. Undisturbed => subs = {}
    BY <2>3 DEF SubsCurrent
  <2> QED BY <2>1, <2>2, <2>5, <2>6, LaunchKeepsCurrent
<1> QED BY <1>2, <1>3, <1>4, <1>5, <1>6, <1>7, <1>8 DEF Step

LEMMA RequestKeepsCurrent ==
    ASSUME FitInv, SubsCurrent,
           Begin \/ InterruptReceived \/ ErrorReceived \/ StatusReceived
    PROVE  SubsCurrent'
<1> USE DEF tables, puts, caller, work
<1>0. TypeInv /\ TypeOK /\ UNCHANGED <<subs, launched, level>>
  BY DEF FitInv, TypeInv, Begin, FirstCall, InterruptReceived, ErrorReceived,
         StatusReceived
<1>1. CASE Begin
  <2>1. subs = {}
    BY <1>1 DEF Begin, FirstCall, SubsCurrent
  <2> QED BY <1>0, <2>1 DEF SubsCurrent
<1>2. CASE InterruptReceived \/ ErrorReceived
  <2>1. PICK a \in {Interrupt, Error} :
          Impose(a) /\ (Go(Handler, At("exec", a)) \/ UNCHANGED ctl)
    BY <1>2 DEF InterruptReceived, ErrorReceived
  <2>2. ~Undisturbed
    BY <1>2 DEF InterruptReceived, ErrorReceived, Undisturbed
  <2>3. ~Uninitialised'
    BY <1>0, <2>1, ResetStarts, StepsAreIds DEF Impose
  <2>4. ~Moving'
    <3>1. CASE Go(Handler, At("exec", a))
      BY <1>0, <2>1, <3>1, Moved DEF At, Moving
    <3>2. CASE UNCHANGED ctl
      <4>1. Chain'.at = "idle"
        BY <1>2, <3>2 DEF InterruptReceived, ErrorReceived, Accepts, IsAt, Chain
      <4> QED BY <4>1 DEF Moving
    <3> QED BY <2>1, <3>1, <3>2
  <2> QED BY <1>0, <2>2, <2>3, <2>4 DEF SubsCurrent
<1>3. CASE StatusReceived
  BY <1>0, <1>3 DEF StatusReceived, SubsCurrent, Moving, Chain, Uninitialised
<1> QED BY <1>1, <1>2, <1>3

LEMMA AnswerKeepsCurrent ==
    ASSUME Sequential, AnsweredOnce, Deaf \/ Undisturbed, FitInv, SubsCurrent,
           SubAnswered \/ OperationEnds
    PROVE  SubsCurrent'
<1> USE DEF tables, puts, caller, work
<1>0. TypeInv /\ TypeOK
  BY DEF FitInv, TypeInv
<1>1. PICK s \in subs :
        ReplyTaken(s) \/ ReplyIgnored(s) \/ ErrorCaught(s) \/ ErrorForced(s)
  BY DEF SubAnswered, OperationEnds, Sequential
<1>2. Spent(s) = subs \ {s} /\ ~Uninitialised
  <2>1. s \in Sub
    BY <1>0 DEF TypeOK
  <2>2. ~ (s.left > 1)
    BY <2>1 DEF SubsCurrent, Sub
  <2> QED BY <2>2 DEF Spent, SubsCurrent
\* When s is of the current level, it is the only one.
<1>3. ASSUME s.level = level PROVE \A q \in subs \ {s} : q.level # level
  BY <1>3 DEF SubsCurrent
<1>4. Undisturbed => subs \ {s} = {}
  BY <1>3 DEF SubsCurrent
<1>5. CASE ReplyTaken(s) \/ ErrorCaught(s)
  <2>1. s.level = level
    <3>1. CASE ReplyTaken(s)
      BY <3>1 DEF ReplyTaken, Expected
    <3>2. CASE ErrorCaught(s)
      <4>1. s.act \in wf.handles /\ wf \in Layouts
        BY <1>0, <3>2 DEF ErrorCaught, Catches, TypeOK
      <4> QED BY <4>1 DEF Deaf, SubsCurrent
    <3> QED BY <1>5, <3>1, <3>2
  <2>2. /\ level' = level /\ ~Uninitialised' /\ level \in Nat
        /\ \E r : /\ Launch(s.act, r, level, Spent(s), asyncs)
                  /\ Chain'.at = "result" /\ Chain'.res = r
    BY <1>0, <1>2, <1>5, ResumeMoves DEF Uninitialised, TypeOK
  <2>3. level >= level
    BY <2>2
  <2> QED BY <1>0, <1>2, <1>3, <1>4, <2>1, <2>2, <2>3, LaunchKeepsCurrent
<1>6. CASE ReplyIgnored(s)
  <2>1. UNCHANGED <<status, level, launched, ctl>> /\ subs' = subs \ {s}
    BY <1>2, <1>6 DEF ReplyIgnored
  <2> QED BY <2>1 DEF SubsCurrent, Moving, Chain, Uninitialised
<1>7. CASE ErrorForced(s)
  <2>1. /\ UNCHANGED <<level, launched>> /\ subs' = subs \ {s}
        /\ Impose(Error) /\ Go(Handler, At("exec", Error))
    BY <1>2, <1>7 DEF ErrorForced
  <2>2. ~Uninitialised'
    BY <1>0, <2>1, ResetStarts, StepsAreIds DEF Impose
  <2>3. ~Moving'
    BY <1>0, <2>1, Moved DEF At, Moving
  <2> QED BY <1>4, <2>1, <2>2, <2>3 DEF SubsCurrent
<1> QED BY <1>1, <1>5, <1>6, <1>7

\* The reply an action is given is the one to its own last sub-request: getLevel
\* in the reply's target keeps out what was launched before an interruption or
\* an error, however late it comes.
THEOREM RepliesAlwaysMatch ==
    ASSUME Sequential, AnsweredOnce, Deaf \/ Undisturbed
    PROVE  Spec => RepliesMatch
<1> DEFINE Inv == FitInv /\ SubsCurrent
<1>1. Init => Inv
  <2>1. Init => SubsCurrent
    BY DEF Init, SubsCurrent, Moving, Idle, At, Chain, Threads
  <2> QED BY <2>1, FitInit
<1>2. Inv /\ [Next]_vars => Inv'
  <2> SUFFICES ASSUME FitInv, SubsCurrent, [Next]_vars PROVE SubsCurrent'
    BY FitNext
  <2>1. CASE UNCHANGED vars
    BY <2>1 DEF vars, tables, puts, caller, work, SubsCurrent, Moving, Chain,
                Uninitialised
  <2>2. CASE \E t \in Threads : Step(t)
    BY <2>2, StepKeepsCurrent
  <2>3. CASE Begin \/ InterruptReceived \/ ErrorReceived \/ StatusReceived
    BY <2>3, RequestKeepsCurrent
  <2>4. CASE SubAnswered \/ OperationEnds
    BY <2>4, AnswerKeepsCurrent
  <2> QED BY <2>1, <2>2, <2>3, <2>4 DEF Next, Rest
<1>3. Inv => \A s \in subs : ReplyTaken(s) => s.no = launched
  BY DEF ReplyTaken, Expected, SubsCurrent
<1> QED BY <1>1, <1>2, <1>3, PTL DEF Spec, RepliesMatch

=============================================================================
