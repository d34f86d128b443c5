------------------------------ MODULE Exchange ------------------------------
(***************************************************************************)
(* Workflows that call each other: the way of a request from the           *)
(* ControllerManager through a Controller's thread pool into               *)
(* Workflow::perform, and the way of its answer back.                      *)
(*                                                                         *)
(* core/workflow.cpp, core/controller.cpp, service/controller_manager.cpp, *)
(* Request::createReply, Action::executeSyncRequest and the answers of     *)
(* action_wrappers.cpp.  What the state machine does between two requests  *)
(* is module StateMachine's matter; here it calls, finishes or fails.      *)
(***************************************************************************)
EXTENDS Integers, Sequences, FiniteSets

CONSTANTS
    Workflows,  \* names of workflows
    Temporary,  \* those a request brings along (controller "temporary")
    Outside,    \* whoever sits behind a client
    Entries,    \* the workflows clients ask for
    Calls,      \* the workflows each workflow may call, a function
    MayFail,    \* workflows whose actions may fail
    Catching,   \* workflows whose calling action handles errors
    Pool,       \* threads of the controllers
    Nobody,     \* no thread
    MaxIds,     \* bound: requests with an identifier of their own
    MaxAsks,    \* bound: requests for a status
    Garbage     \* what an uninitialised RunningSession::active may be

ASSUME ExchangeAssumption ==
    /\ Temporary \subseteq Workflows /\ MayFail \subseteq Workflows
    /\ Catching \subseteq Workflows /\ Entries \subseteq Workflows
    /\ Outside \notin Workflows /\ Nobody \notin Pool
    /\ Calls \in [Workflows -> SUBSET (Workflows \ Temporary)]
    /\ MaxIds \in Nat /\ MaxAsks \in Nat
    /\ Garbage \subseteq BOOLEAN /\ FALSE \in Garbage

Ids     == 1 .. MaxIds
Kinds   == {"DefaultAction", "Reply", "Error", "Status", "NoReply"}
Address == [wf : Workflows \cup {Outside}, id : Ids, kind : Kinds, level : Nat]
Message == [to : Address, back : Address, json : BOOLEAN]

\* A session: "none" until it is created, "kept" when its first request went
\* straight to the pending ones.
Phases  == {"none", "kept", "running", "waiting", "over"}

VARIABLES
    made,      \* identifiers handed out
    asks,      \* status requests sent
    posted,    \* requests posted to the ControllerManager
    tasks,     \* requests posted to the pools: bound calls of Workflow::perform
    known,     \* Controller::workflows
    lock,      \* Workflow::mutex: the thread that holds it
    pc,        \* what each thread does
    msg,       \* the request each thread works on
    phase, level, active, original,   \* Workflow::sessions, by workflow and id
    queued,    \* RunningSession::pendingRequests
    answers    \* what came out of the clients, by id

wires   == <<posted, tasks>>
threads == <<lock, pc, msg>>
table   == <<phase, level, active, original, queued>>
vars    == <<made, asks, wires, known, threads, table, answers>>

Unset == [to   |-> [wf |-> Outside, id |-> 0, kind |-> "Reply", level |-> 0],
          back |-> [wf |-> Outside, id |-> 0, kind |-> "Reply", level |-> 0],
          json |-> FALSE]

Each(x) == [w \in Workflows |-> [i \in Ids |-> x]]

Init ==
    /\ made = 0 /\ asks = 0
    /\ posted = {} /\ tasks = {}
    /\ known = Workflows \ Temporary
    /\ lock = [w \in Workflows |-> Nobody]
    /\ pc = [t \in Pool |-> "idle"]
    /\ msg = [t \in Pool |-> Unset]
    /\ phase = Each("none") /\ level = Each(1) /\ active = Each(FALSE)
    /\ original = Each(Unset) /\ queued = Each({})
    /\ answers = [i \in Ids |-> << >>]

-----------------------------------------------------------------------------
(* Requests. *)

To(w, i, k, l) == [wf |-> w, id |-> i, kind |-> k, level |-> l]

\* Mutant: the reply does not say where it comes from.
CreateReplyAnonymous(m) == [to |-> m.back, back |-> Unset.back, json |-> FALSE]

\* Request::createReply
CreateReply(m) == [to |-> m.back, back |-> m.to, json |-> FALSE]

\* What ErrorWrapper makes of it.
ErrorOf(m) == [CreateReply(m) EXCEPT !.to.kind = "Error"]

\* A request with an identifier of its own.
NewRequest(w, back) ==
    [to |-> To(w, made + 1, "DefaultAction", 0), back |-> back,
     json |-> w \in Temporary]

\* Everything that is on its way to a session.
InFlight == posted \cup tasks \cup {msg[t] : t \in {u \in Pool : pc[u] = "blocked"}}

\* Someone outside asks for w.  A name is made up for every temporary workflow,
\* so each serves one request.
Ask(w) ==
    /\ w \in Entries /\ made < MaxIds
    /\ w \in Temporary => /\ \A i \in Ids : original[w][i] = Unset
                          /\ \A m \in InFlight : m.to.wf # w
    /\ made' = made + 1
    /\ posted' = posted \cup {NewRequest(w, To(Outside, made + 1, "Reply", 0))}
    /\ UNCHANGED <<asks, tasks, known, threads, table, answers>>

\* Someone outside wants to know about request i, maybe before w has heard of it.
Inquire(w, i) ==
    /\ asks < MaxAsks
    /\ w \notin Temporary
    /\ \E m \in InFlight \cup {original[w][i]} :
           m.to = To(w, i, "DefaultAction", 0) /\ m.back.wf = Outside
    /\ asks' = asks + 1
    /\ posted' = posted \cup {[to   |-> To(w, i, "Status", 0),
                               back |-> To(Outside, i, "NoReply", 0),
                               json |-> FALSE]}
    /\ UNCHANGED <<made, tasks, known, threads, table, answers>>

-----------------------------------------------------------------------------
(* ControllerManager::perform, on a thread of its own pool: the requests   *)
(* are taken in any order.                                                 *)

\* A NoReply goes nowhere.
Abort(m) ==
    /\ m.to.kind = "NoReply"
    /\ posted' = posted \ {m}
    /\ UNCHANGED <<made, asks, tasks, known, threads, table, answers>>

\* ClientManager::perform hands the answer over.
Deliver(m) ==
    /\ m.to.wf = Outside /\ m.to.kind # "NoReply"
    /\ answers' = [answers EXCEPT ![m.to.id] = Append(@, m.to.kind)]
    /\ posted' = posted \ {m}
    /\ UNCHANGED <<made, asks, tasks, known, threads, table>>

\* Controller::perform posts the request to its pool.
Route(m) ==
    /\ m.to.wf \in known
    /\ m.to.wf \in Temporary => m.to.kind = "Reply"
    /\ tasks' = tasks \cup {m}
    /\ posted' = posted \ {m}
    /\ UNCHANGED <<made, asks, known, threads, table, answers>>

\* TemporaryController::perform registers the workflow the request brings.
Register(m) ==
    /\ m.json
    /\ m.to.wf \in Temporary \ known
    /\ known' = known \cup {m.to.wf}
    /\ tasks' = tasks \cup {m}
    /\ posted' = posted \ {m}
    /\ UNCHANGED <<made, asks, threads, table, answers>>

\* The workflow the request brings may not validate: the answer is a Reply.
Misfit(m) ==
    /\ m.json
    /\ m.to.wf \in Temporary \ known
    /\ posted' = (posted \ {m}) \cup {CreateReply(m)}
    /\ UNCHANGED <<made, asks, tasks, known, threads, table, answers>>

\* Without a workflow, TemporaryController::perform takes replies only.
Refuse(m) ==
    /\ m.to.wf \in Temporary
    /\ ~m.json
    /\ m.to.kind # "Reply"
    /\ posted' = (posted \ {m}) \cup {CreateReply(m)}
    /\ UNCHANGED <<made, asks, tasks, known, threads, table, answers>>

\* A reply to a temporary workflow that is gone would be lost.  It never comes:
\* the dispatch would stop at it, and the runs look for such a stop.
Dispatch == \E m \in posted :
    Abort(m) \/ Deliver(m) \/ Route(m) \/ Register(m) \/ Misfit(m)
    \/ Refuse(m)

-----------------------------------------------------------------------------
(* Workflow::perform, on a thread of a controller's pool. *)

Has(w, i) == phase[w][i] # "none"

\* Mutant: Error is missing from the list of what a session takes.
CanExecuteNoError(m) ==
    IF Has(m.to.wf, m.to.id) THEN m.to.kind \in {"Reply", "Status"}
    ELSE m.to.kind \in {"DefaultAction", "Status"}

\* canExecuteRequest
CanExecute(m) ==
    IF Has(m.to.wf, m.to.id) THEN m.to.kind \in {"Reply", "Error", "Status"}
    ELSE m.to.kind \in {"DefaultAction", "Status"}

\* Mutant: Workflow::perform takes no lock.
FreeAlways(w) == TRUE

Free(w) == lock[w] = Nobody

Goto(t, l) == pc' = [pc EXCEPT ![t] = l]

\* Workflow::perform returns.
Return(t) == /\ Goto(t, "idle")
             /\ msg' = [msg EXCEPT ![t] = Unset]

Set(f, w, i, v) == [f EXCEPT ![w][i] = v]

Take(t) ==
    /\ pc[t] = "idle"
    /\ \E m \in tasks : /\ tasks' = tasks \ {m}
                        /\ msg' = [msg EXCEPT ![t] = m]
    /\ Goto(t, "blocked")
    /\ UNCHANGED <<made, asks, posted, known, lock, table, answers>>

\* The lock is taken; a new session, for a status request too, is created before shouldMakePending looks
\* at its active flag, which no constructor sets.
Open(t) ==
    LET m == msg[t]  w == m.to.wf  i == m.to.id
    IN  /\ pc[t] = "blocked" /\ Free(w)
        /\ CanExecute(m) /\ ~Has(w, i)
        /\ \E garbage \in Garbage :
           /\ phase' = Set(phase, w, i, IF garbage THEN "kept" ELSE "running")
           /\ original' = Set(original, w, i, m)
           /\ active' = Set(active, w, i, TRUE)
           /\ queued' = Set(queued, w, i, IF garbage THEN {m} ELSE {})
           /\ lock' = IF garbage THEN lock ELSE [lock EXCEPT ![w] = t]
           /\ IF garbage THEN Return(t) ELSE Goto(t, "run") /\ UNCHANGED msg
        /\ UNCHANGED <<made, asks, wires, known, level, answers>>

\* A request to a session whose active flag is set is kept, and that is all.
Keep(t) ==
    LET m == msg[t]  w == m.to.wf  i == m.to.id
    IN  /\ pc[t] = "blocked" /\ Free(w)
        /\ CanExecute(m) /\ Has(w, i) /\ active[w][i]
        /\ queued' = Set(queued, w, i, queued[w][i] \cup {m})
        /\ Return(t)
        /\ UNCHANGED <<made, asks, wires, known, lock, phase, level, active,
                       original, answers>>

\* Mutant: the execution level of the next call is expected.
ExpectedNext(m) == /\ phase[m.to.wf][m.to.id] = "waiting"
                   /\ \/ m.to.kind = "Reply" /\ m.to.level = level[m.to.wf][m.to.id] + 1
                      \/ m.to.kind = "Error" /\ m.to.wf \in Catching

\* StateMachine::execute: an answer the waiting action takes.
Expected(m) == /\ phase[m.to.wf][m.to.id] = "waiting"
               /\ \/ m.to.kind = "Reply" /\ m.to.level = level[m.to.wf][m.to.id]
                  \/ m.to.kind = "Error" /\ m.to.wf \in Catching

\* The session goes on with the answer, with its error flow, or ignores it (a
\* status action would change nothing here).
Enter(t) ==
    LET m == msg[t]  w == m.to.wf  i == m.to.id
    IN  /\ pc[t] = "blocked" /\ Free(w)
        /\ CanExecute(m) /\ Has(w, i) /\ ~active[w][i]
        /\ \/ /\ Expected(m)
              /\ phase' = Set(phase, w, i, "running")
              /\ Goto(t, "run")
           \/ /\ ~Expected(m) /\ m.to.kind = "Error"
              /\ phase' = Set(phase, w, i, "running")
              /\ Goto(t, "fail")
           \/ /\ ~Expected(m) /\ m.to.kind \in {"Reply", "Status"}
              /\ Goto(t, "leave")
              /\ UNCHANGED phase
        /\ active' = Set(active, w, i, TRUE)
        /\ lock' = [lock EXCEPT ![w] = t]
        /\ UNCHANGED <<made, asks, wires, known, msg, level, original, queued, answers>>

\* errorReply
Reject(t) ==
    LET m == msg[t]
    IN  /\ pc[t] = "blocked" /\ Free(m.to.wf)
        /\ ~CanExecute(m)
        /\ posted' = posted \cup {CreateReply(m)}
        /\ Return(t)
        /\ UNCHANGED <<made, asks, tasks, known, lock, table, answers>>

\* An action calls another workflow: executeSyncRequest, then wait.
Call(t) ==
    LET w == msg[t].to.wf  i == msg[t].to.id
    IN  /\ pc[t] = "run" /\ made < MaxIds
        /\ made' = made + 1
        /\ \E c \in Calls[w] :
               posted' = posted \cup
                   {NewRequest(c, To(w, i, "Reply", level[w][i]))}
        /\ Goto(t, "wait")
        /\ UNCHANGED <<asks, tasks, known, lock, msg, table, answers>>

Wait(t) ==
    LET w == msg[t].to.wf  i == msg[t].to.id
    IN  /\ pc[t] = "wait"
        /\ phase' = Set(phase, w, i, "waiting")
        /\ Goto(t, "leave")
        /\ UNCHANGED <<made, asks, wires, known, lock, msg, level, active, original,
                       queued, answers>>

\* FinishWrapper or ErrorWrapper answers; the steps that follow raise the
\* execution level twice on the way to Die.
Answer(t) ==
    LET w == msg[t].to.wf  i == msg[t].to.id
    IN  /\ \/ /\ pc[t] = "run"
              /\ posted' = posted \cup {CreateReply(original[w][i])}
           \/ /\ pc[t] = "fail" \/ (pc[t] = "run" /\ w \in MayFail)
              /\ posted' = posted \cup {ErrorOf(original[w][i])}
        /\ level' = Set(level, w, i, level[w][i] + 2)
        /\ Goto(t, "die")
        /\ UNCHANGED <<made, asks, tasks, known, lock, msg, phase, active, original,
                       queued, answers>>

\* Mutant: Controller::requestFinished, which does nothing, is not overridden.
DroppedNever(w) == known

\* TemporaryController::requestFinished drops the workflow.
Dropped(w) == known \ ({w} \cap Temporary)

Die(t) ==
    LET w == msg[t].to.wf  i == msg[t].to.id
    IN  /\ pc[t] = "die"
        /\ phase' = Set(phase, w, i, "over")
        /\ known' = Dropped(w)
        /\ Goto(t, "leave")
        /\ UNCHANGED <<made, asks, wires, lock, msg, level, active, original, queued,
                       answers>>

\* perform returns.  Nothing sets Session::finished, so the session stays.
Leave(t) ==
    LET w == msg[t].to.wf  i == msg[t].to.id
    IN  /\ pc[t] = "leave"
        /\ active' = Set(active, w, i, FALSE)
        /\ lock' = [lock EXCEPT ![w] = Nobody]
        /\ Return(t)
        /\ UNCHANGED <<made, asks, wires, known, phase, level, original, queued,
                       answers>>

Perform(t) == \/ Take(t) \/ Open(t) \/ Keep(t) \/ Enter(t) \/ Reject(t)
              \/ Call(t) \/ Wait(t) \/ Answer(t) \/ Die(t) \/ Leave(t)

-----------------------------------------------------------------------------
Quiet == /\ posted = {} /\ tasks = {}
         /\ \A t \in Pool : pc[t] = "idle"

\* Nothing is left to happen: not a deadlock.
Rest == Quiet /\ UNCHANGED vars

Next == \/ \E w \in Workflows : Ask(w)
        \/ \E w \in Workflows, i \in Ids : Inquire(w, i)
        \/ Dispatch
        \/ \E t \in Pool : Perform(t)
        \/ Rest

Spec == Init /\ [][Next]_vars

\* io_service runs every handler posted to it, and a handler runs to its end.
FairSpec == /\ Spec
            /\ WF_vars(Dispatch)
            /\ \A t \in Pool : WF_vars(Perform(t))

-----------------------------------------------------------------------------
(* Properties *)

TypeOK ==
    /\ made \in 0 .. MaxIds /\ asks \in 0 .. MaxAsks
    /\ posted \subseteq Message /\ tasks \subseteq Message
    /\ known \subseteq Workflows
    /\ lock \in [Workflows -> Pool \cup {Nobody}]
    /\ pc \in [Pool -> {"idle", "blocked", "run", "fail", "wait", "die", "leave"}]
    /\ msg \in [Pool -> Message \cup {Unset}]
    /\ phase \in [Workflows -> [Ids -> Phases]]
    /\ level \in [Workflows -> [Ids -> Nat]]
    /\ active \in [Workflows -> [Ids -> BOOLEAN]]
    /\ original \in [Workflows -> [Ids -> Message \cup {Unset}]]
    /\ queued \in [Workflows -> [Ids -> SUBSET Message]]
    /\ answers \in [Ids -> Seq({"Reply", "Error"})]

\* A session that waits is always going to be woken: the call it made is on its
\* way, or runs, or its answer is on its way with the execution level the
\* session is at.
CallersWake ==
    \A w \in Workflows, i \in Ids : phase[w][i] = "waiting" =>
        \/ \E m \in InFlight :
            \/ m.to = To(w, i, "Reply", level[w][i])
            \/ m.to.wf = w /\ m.to.id = i /\ m.to.kind = "Error"
            \/ m.back = To(w, i, "Reply", level[w][i])
        \/ \E c \in Workflows, j \in Ids :
            /\ original[c][j].back = To(w, i, "Reply", level[w][i])
            /\ phase[c][j] \in {"running", "waiting"}

\* No reply is ignored: none reaches Workflow::perform before the caller waits
\* for it, after it has stopped waiting, or with another execution level.
NoReplyIgnored ==
    [][\A t \in Pool :
        (Enter(t) /\ msg[t].to.kind = "Reply") => Expected(msg[t])]_vars

\* A temporary workflow is in its controller while its request is served, and
\* no longer (TemporaryController::perform and requestFinished).
TemporaryInUse ==
    \A w \in Temporary :
        LET served == \E i \in Ids : phase[w][i] \in {"kept", "running", "waiting"}
        IN  /\ served => w \in known
            /\ w \in known => served \/ \E m \in InFlight : m.to.wf = w

\* Every request from outside is answered, one that a status request overtook
\* too, as long as no session starts active.
EveryCallAnswered ==
    \A i \in Ids :
        (made >= i /\ \E m \in posted : m.to.id = i /\ m.back.wf = Outside)
            ~> answers[i] # << >>

\* The exchange of messages comes to an end: nobody answers answers for ever.
MessagesEnd == <>[](posted = {} /\ tasks = {})

\* An error that comes back for a call is not the end of the caller: it leaves
\* the wait (steps.h:9: the "Error state is triggered when either, an action
\* report an error, ... or when an async request comes back with error").
ErrorsComeBack ==
    \A w \in Workflows, i \in Ids :
        (phase[w][i] = "waiting" /\ \E m \in posted : m.to = To(w, i, "Error", level[w][i]))
            ~> phase[w][i] # "waiting"

=============================================================================
