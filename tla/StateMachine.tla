---------------------------- MODULE StateMachine ----------------------------
(***************************************************************************)
(* The state machine that runs one session of a workflow:                  *)
(* core/state_machine.cpp with the parts of session.cpp, action.cpp and    *)
(* action_wrappers.cpp it calls.                                           *)
(*                                                                         *)
(* StateMachine::execute is one long chain of calls (executeAction,        *)
(* actionExecuted, bindResults, getNext, executeAction, ...), each in tail *)
(* position.  The chain is kept as a control record per thread: one action *)
(* of this module is one link of the chain.  Two kinds of thread run it:   *)
(* the pool thread that delivers a request (under the workflow's mutex,    *)
(* so there is one, Handler) and the threads on which actions report the   *)
(* end of an asynchronous operation (Workers; no mutex is taken).          *)
(***************************************************************************)
EXTENDS Integers, Sequences, FiniteSets

CONSTANTS
    Layouts,       \* the workflows that may be run (records, see LayoutOK)
    UserIds,       \* ids of the actions a workflow's author adds
    Puts,          \* names of inputs and outputs
    Handler,       \* the thread that holds the workflow's mutex
    Workers,       \* the threads that report asynchronous completions
    Kinds,         \* targets of the requests that come from outside
    MaxRequests,   \* bound: requests from outside, the first one included
    MaxSubs,       \* bound: sub-requests and asynchronous operations launched
    AnswersPerSub  \* bound: answers one sub-request may get

Die       == -1666
Cleanup   == -1020
Error     == -1015
Finish    == -1010
Interrupt == -1005
None      == -1

StepIds   == {Die, Cleanup, Error, Finish, Interrupt}
Ids       == StepIds \cup UserIds
\* Mutant: Finish missing from the list of getNext.
TerminalNoFinish == {Die, Cleanup}

Terminal  == {Die, Cleanup, Finish}
Threads   == {Handler} \cup Workers

\* "Absent" is an id with no entry in Session::status.
Statuses  == {"Absent", "Unplanned", "Pending", "Planned", "Skipped",
              "Waiting", "Async", "Done"}
\* A put holds nothing, a context that fits its definition, a SkipCtx, or a
\* context the definition refuses (wrong type, or an empty list to ignore).
Values    == {"nil", "ctx", "skip", "bad"}
Results   == {"Done", "Wait", "Error", "Finish", "Async"}
Places    == {"idle", "start", "next", "exec", "result", "bind"}

Binding   == [to : Ids, in : Puts, from : Puts]
Starter   == [act : UserIds, in : Puts, from : Puts]
OutputDef == [put : Puts, must : BOOLEAN, skip : BOOLEAN, lax : BOOLEAN]
Control   == [at : Places, act : Ids \cup {None}, n : Nat, res : Results]
Sub       == [act : Ids, level : Nat, no : Nat, left : Nat]
Operation == [act : Ids, no : Nat]

(***************************************************************************)
(* A layout is a workflow accepted by StateMachine::validate.  "" is the   *)
(* unnamed put: a pure ordering constraint.                                *)
(*   acts      the ids with an action, the default steps among them        *)
(*   out       the bindings of each action, in the order they were added   *)
(*   starters  the bindings of the request's contexts                      *)
(*   takes     the inputs an action defines, needs those it cannot miss,   *)
(*             lax those whose checker is the plain TypeChecker, which is    *)
(*             always happy: with a SkipCtx too                              *)
(*   offers    the outputs an action defines, in the order of their names  *)
(*   does      the results perform may return, later those replyReceived   *)
(*             or an asynchronous end may                                  *)
(*   yields    what one perform may put on the outputs                     *)
(*   picky     actions whose canPerform may say no                         *)
(*   handles   actions whose canHandleError says yes                       *)
(***************************************************************************)
LayoutOK(w) ==
    /\ w.acts \in SUBSET (Ids \ {Die})
    /\ {Cleanup, Error, Finish} \subseteq w.acts
    /\ w.out \in [Ids -> Seq(Binding)]
    /\ \A a \in Ids : \A i \in 1 .. Len(w.out[a]) :
            w.out[a][i].to \in w.acts \cup {Die}
    /\ \A a \in Ids \ w.acts : w.out[a] = << >>
    /\ w.starters \in Seq(Starter)
    /\ \A i \in 1 .. Len(w.starters) : w.starters[i].act \in w.acts
    /\ w.takes \in [Ids -> SUBSET Puts]
    /\ w.needs \in [Ids -> SUBSET Puts]
    /\ w.lax \in [Ids -> SUBSET Puts]
    /\ w.offers \in [Ids -> Seq(OutputDef)]
    /\ w.does \in [Ids -> SUBSET Results]
    /\ w.later \in [Ids -> SUBSET Results]
    /\ \A a \in Ids : \A y \in w.yields[a] :
            \E P \in SUBSET Puts : y \in [P -> Values]
    /\ w.picky \subseteq w.acts
    /\ w.handles \subseteq w.acts

ASSUME ConstantsAssumption ==
    /\ UserIds \subseteq Nat
    /\ Handler \notin Workers
    /\ "" \in Puts
    /\ Kinds \subseteq {"Interrupt", "Error", "Status"}
    /\ MaxRequests \in Nat /\ MaxSubs \in Nat /\ AnswersPerSub \in Nat

ASSUME LayoutsAssumption == \A w \in Layouts : LayoutOK(w)

VARIABLES
    wf,        \* the workflow's layout, fixed
    status,    \* Session::status
    nexts,     \* Session::nexts
    pendings,  \* Session::pendings
    inputs,    \* Session::inputs
    outputs,   \* Session::outputs
    level,     \* Session::current_execution_level
    answers,   \* replies sent to the caller, in order
    ended,     \* Controller::requestFinished has been called
    late,      \* history: an error or an interruption came after an answer
    ctl,       \* where each thread is in the chain of calls
    asked,     \* targets of the requests received, the first one included
    subs,      \* sub-requests that may still be answered
    launched,   \* how many sub-requests and operations have been launched
    asyncs,    \* asynchronous operations under way
    crashed    \* the process dereferenced a null action

tables  == <<status, nexts, pendings>>
puts    == <<inputs, outputs>>
caller  == <<answers, ended, late>>
work    == <<subs, launched, asyncs>>
vars    == <<wf, tables, puts, level, caller, ctl, asked, work, crashed>>

-----------------------------------------------------------------------------
(* Control. *)

At(place, a)  == [at |-> place, act |-> a, n |-> 0, res |-> "Done"]
Idle          == At("idle", None)
Go(t, c)      == ctl' = [ctl EXCEPT ![t] = c]
IsAt(t, place) == ~crashed /\ ctl[t].at = place

-----------------------------------------------------------------------------
(* Scheduling: std::set<int32_t> iterates in ascending order. *)

Least(S) == CHOOSE x \in S : \A y \in S : x <= y

\* Mutant: the set's first element, terminal or not.
FirstIsLeast(S) == Least(S)

\* A terminal step is passed over when there is anything else.
FirstOf(S) ==
    LET c == Least(S)
    IN  IF c \in Terminal /\ S # {c} THEN Least(S \ {c}) ELSE c

\* getNext promotes a pending action when nexts holds no other work.
Promotes == /\ pendings # {}
            /\ nexts = {} \/ \E c \in Terminal : nexts = {c}

\* inputs_map: the actions bound to a.
Producers(a) == {b \in wf.acts : \E i \in 1 .. Len(wf.out[b]) : wf.out[b][i].to = a}

\* Action::checkInputs: it does not look at what the action does not define.
InputsFit(ins, a) ==
    \A p \in wf.takes[a] :
        IF ins[a][p] = "nil" THEN p \notin wf.needs[a]
                             ELSE ins[a][p] = "ctx" \/ p \in wf.lax[a]

\* Mutant: the producers are not looked at.
CanExecuteEarly(ins, st, a, willing) == InputsFit(ins, a) /\ willing

\* canExecuteAction; willing is what canPerform answers.
CanExecute(ins, st, a, willing) ==
    /\ InputsFit(ins, a)
    /\ willing
    /\ \A b \in Producers(a) : st[b] = "Done"

CanPend(ins, a) == InputsFit(ins, a)

Willing(a) == IF a \in wf.picky THEN BOOLEAN ELSE {TRUE}

\* One output against its definition: the loop's body in Action::checkOutputs.
Verdict(a, i) ==
    LET d == wf.offers[a][i]
        v == outputs[a][d.put]
    IN  CASE v = "nil"            -> IF d.must THEN "broken" ELSE "pass"
          [] v = "ctx" \/ d.lax   -> "fits"
          [] v = "skip" /\ d.skip -> "pass"
          [] OTHER                -> "broken"

\* Action::checkOutputs: the first output with a verdict decides.
OutputsFit(a) ==
    LET decided == {i \in 1 .. Len(wf.offers[a]) : Verdict(a, i) # "pass"}
    IN  \A i \in decided : (\A j \in decided : i <= j) => Verdict(a, i) = "fits"

\* canExecuteFinish, once nexts and pendings are empty.
FinishReached == \E b \in Producers(Finish) : status[b] = "Done"

\* Mutant: the status table is not cleared.
AllUnplannedKeeps == [a \in Ids |-> IF a \in wf.acts /\ status[a] = "Absent"
                                  THEN "Unplanned" ELSE status[a]]

\* Every action unplanned, as firstCall, interruptReceived, errorReceived and
\* executeAction leave it.
AllUnplanned == [a \in Ids |-> IF a \in wf.acts THEN "Unplanned" ELSE "Absent"]

-----------------------------------------------------------------------------
Init ==
    /\ wf \in Layouts
    /\ status = [a \in Ids |-> "Absent"]
    /\ nexts = {} /\ pendings = {}
    /\ inputs = [a \in Ids |-> [p \in Puts |-> "nil"]]
    /\ outputs = [a \in Ids |-> [p \in Puts |-> "nil"]]
    /\ level = 1
    /\ answers = << >> /\ ended = FALSE /\ late = FALSE
    /\ ctl = [t \in Threads |-> Idle]
    /\ asked = << >>
    /\ subs = {} /\ launched = 0 /\ asyncs = {}
    /\ crashed = FALSE

\* The session exists: Workflow::perform accepts follow-up requests.
Uninitialised == \A a \in Ids : status[a] = "Absent"
Accepts(kind) == /\ IsAt(Handler, "idle")
                 /\ Len(asked) < MaxRequests
                 /\ asked' = Append(asked, kind)

-----------------------------------------------------------------------------
(* firstCall: map the request's contexts, then schedule the starters. *)

\* The last starter that names the input decides, and whatever the request
\* holds under its name is copied: a SkipCtx, or what the input refuses, too.
StarterInput(a, p, given) ==
    LET hits == {i \in 1 .. Len(wf.starters) :
                    /\ wf.starters[i].act = a /\ wf.starters[i].in = p
                    /\ p # "" /\ wf.starters[i].from # ""}
    IN  IF hits = {} THEN "nil"
        ELSE given[wf.starters[CHOOSE i \in hits : \A j \in hits : j <= i].from]

\* The first request of a session, whatever its target is.
FirstCall(kind, given) ==
    /\ Uninitialised
    /\ Accepts(kind)
    /\ status' = AllUnplanned
    /\ inputs' = [a \in Ids |-> [p \in Puts |-> StarterInput(a, p, given)]]
    /\ Go(Handler, [At("start", None) EXCEPT !.n = 1])
    /\ UNCHANGED <<wf, nexts, pendings, outputs, level, caller, work, crashed>>

\* One turn of the loop that schedules the starters.
ScheduleStarter(t) ==
    /\ IsAt(t, "start")
    /\ ctl[t].n <= Len(wf.starters)
    /\ LET a == wf.starters[ctl[t].n].act
       IN  \E willing \in Willing(a) :
           \/ /\ CanExecute(inputs, status, a, willing)
              /\ nexts' = nexts \cup {a}
              /\ status' = [status EXCEPT ![a] = "Planned"]
              /\ UNCHANGED pendings
           \/ /\ ~CanExecute(inputs, status, a, willing)
              /\ CanPend(inputs, a)
              /\ pendings' = pendings \cup {a}
              /\ status' = [status EXCEPT ![a] = "Pending"]
              /\ UNCHANGED nexts
           \/ /\ ~CanPend(inputs, a)
              /\ UNCHANGED tables
    /\ Go(t, [ctl[t] EXCEPT !.n = @ + 1])
    /\ UNCHANGED <<wf, puts, level, caller, asked, work, crashed>>

StartersDone(t) ==
    /\ IsAt(t, "start")
    /\ ctl[t].n > Len(wf.starters)
    /\ Go(t, At("next", None))
    /\ UNCHANGED <<wf, tables, puts, level, caller, asked, work, crashed>>

-----------------------------------------------------------------------------
(* getNext and tryPromotePending. *)

Promote(t) ==
    /\ IsAt(t, "next")
    /\ Promotes
    /\ LET p == FirstOf(pendings)
       IN  /\ pendings' = pendings \ {p}
           /\ nexts' = nexts \cup {p}
           /\ status' = [status EXCEPT ![p] = "Planned"]
    /\ UNCHANGED <<wf, puts, level, caller, ctl, asked, work, crashed>>

Pick(t) ==
    /\ IsAt(t, "next")
    /\ ~Promotes
    /\ nexts # {}
    /\ Go(t, At("exec", FirstOf(nexts)))
    /\ UNCHANGED <<wf, tables, puts, level, caller, asked, work, crashed>>

\* Mutant: the chain of calls returns, with no error sent.
NothingToExecuteStops(t) ==
    /\ IsAt(t, "next")
    /\ nexts = {} /\ pendings = {}
    /\ IF FinishReached
       THEN /\ nexts' = {Finish}
            /\ status' = [status EXCEPT ![Finish] = "Planned"]
            /\ Go(t, At("exec", Finish))
       ELSE /\ Go(t, Idle)
            /\ UNCHANGED <<nexts, status>>
    /\ UNCHANGED <<wf, pendings, puts, level, caller, asked, work, crashed>>

\* executeAction(-1): finish early if one producer of Finish is done, else
\* report that the workflow has no end.  (The second getNext of that branch
\* finds the two sets empty again.)
NothingToExecute(t) ==
    /\ IsAt(t, "next")
    /\ nexts = {} /\ pendings = {}
    /\ LET a == IF FinishReached THEN Finish ELSE Error
       IN  /\ nexts' = {a}
           /\ status' = [status EXCEPT ![a] = "Planned"]
           /\ Go(t, At("exec", a))
    /\ UNCHANGED <<wf, pendings, puts, level, caller, asked, work, crashed>>

-----------------------------------------------------------------------------
(* executeAction *)

\* Die has no action: the controller is told and the chain of calls returns.
EndSession(t) ==
    /\ IsAt(t, "exec")
    /\ ctl[t].act = Die
    /\ ended' = TRUE
    /\ Go(t, Idle)
    /\ UNCHANGED <<wf, tables, puts, level, answers, late, asked, work, crashed>>

\* The bookkeeping before perform.
Restarts(a) == a \in {Interrupt, Error, Cleanup}

\* What the wrapper of a step does before the wrapped action's perform.
RaisesLevel(a) == a \in {Interrupt, Finish, Error, Cleanup}
Answer(a) == CASE a = Finish -> <<"Reply">>
               [] a = Error  -> <<"Error">>
               [] OTHER      -> << >>

\* The outputs of a after one perform that sets those in y.
Overlay(a, y) ==
    [outputs EXCEPT ![a] =
        [p \in Puts |-> IF p \in DOMAIN y THEN y[p] ELSE @[p]]]

\* executeSyncRequest, or the start of an asynchronous operation, at the
\* execution level lvl; rest and restAsync are what is under way besides.
Launch(a, r, lvl, rest, restAsync) ==
    /\ r \in {"Wait", "Async"} => launched < MaxSubs
    /\ launched' = IF r \in {"Wait", "Async"} THEN launched + 1 ELSE launched
    /\ subs' = rest \cup
            {[act |-> a, level |-> lvl, no |-> launched', left |-> AnswersPerSub]
                : x \in {r} \cap {"Wait"}}
    /\ asyncs' = restAsync \cup
            {[act |-> a, no |-> launched'] : x \in {r} \cap {"Async"}}

Execute(t) ==
    /\ IsAt(t, "exec")
    /\ ctl[t].act # Die
    /\ LET a == ctl[t].act
       IN  /\ IF Restarts(a)
              THEN /\ nexts' = {} /\ pendings' = {}
                   /\ status' = [AllUnplanned EXCEPT ![a] = "Planned"]
              ELSE /\ nexts' = nexts \ {a} /\ pendings' = pendings \ {a}
                   /\ UNCHANGED status
           /\ level' = IF RaisesLevel(a) THEN level + 1 ELSE level
           /\ answers' = answers \o Answer(a)
           /\ \E r \in wf.does[a], y \in wf.yields[a] :
                /\ outputs' = Overlay(a, y)
                /\ Launch(a, r, level', subs, asyncs)
                /\ Go(t, [At("result", a) EXCEPT !.res = r])
    /\ UNCHANGED <<wf, inputs, ended, late, asked, crashed>>

-----------------------------------------------------------------------------
(* actionExecuted *)

ContractBroken(t) ==
    /\ IsAt(t, "result")
    /\ ctl[t].res = "Done"
    /\ ~OutputsFit(ctl[t].act)
    /\ Go(t, At("exec", Error))
    /\ UNCHANGED <<wf, tables, puts, level, caller, asked, work, crashed>>

\* Done and Finish: the results are bound, then the next action or Finish.
ActionDone(t) ==
    /\ IsAt(t, "result")
    /\ \/ ctl[t].res = "Done" /\ OutputsFit(ctl[t].act)
       \/ ctl[t].res = "Finish"
    /\ status' = [status EXCEPT ![ctl[t].act] = "Done"]
    /\ Go(t, [ctl[t] EXCEPT !.at = "bind", !.n = 1])
    /\ UNCHANGED <<wf, nexts, pendings, puts, level, caller, asked, work, crashed>>

\* Mutant: the chain of calls goes on with the next action.
ActionSuspendsNot(t) ==
    /\ IsAt(t, "result")
    /\ \/ /\ ctl[t].res = "Wait"
          /\ status' = [status EXCEPT ![ctl[t].act] = "Waiting"]
       \/ /\ ctl[t].res = "Async"
          /\ status' = [status EXCEPT ![ctl[t].act] = "Async"]
    /\ Go(t, At("next", None))
    /\ UNCHANGED <<wf, nexts, pendings, puts, level, caller, asked, work, crashed>>

\* Wait and Async: the chain of calls returns.
ActionSuspends(t) ==
    /\ IsAt(t, "result")
    /\ \/ /\ ctl[t].res = "Wait"
          /\ status' = [status EXCEPT ![ctl[t].act] = "Waiting"]
       \/ /\ ctl[t].res = "Async"
          /\ status' = [status EXCEPT ![ctl[t].act] = "Async"]
    /\ Go(t, Idle)
    /\ UNCHANGED <<wf, nexts, pendings, puts, level, caller, asked, work, crashed>>

ActionFails(t) ==
    /\ IsAt(t, "result")
    /\ ctl[t].res = "Error"
    /\ status' = [status EXCEPT ![ctl[t].act] = "Done"]
    /\ Go(t, At("exec", Error))
    /\ UNCHANGED <<wf, nexts, pendings, puts, level, caller, asked, work, crashed>>

-----------------------------------------------------------------------------
(* bindResults: one turn of its loop. *)

\* Where an action with inputs ins goes: skipped, planned, pending or nowhere.
Skips(ins, a) == \E p \in Puts : ins[a][p] = "skip"

\* Mutant: an action made pending stays in nexts.
PlaceTwice(a, place) ==
    /\ nexts' = IF place = "Planned" THEN nexts \cup {a} ELSE nexts
    /\ pendings' = IF place = "Pending" THEN pendings \cup {a}
                   ELSE pendings \ {a}
    /\ status' = [status EXCEPT ![a] = place]

Place(a, place) ==
    /\ nexts' = IF place = "Planned" THEN nexts \cup {a}
                ELSE nexts \ {a}
    /\ pendings' = IF place = "Pending" THEN pendings \cup {a}
                   ELSE pendings \ {a}
    /\ status' = [status EXCEPT ![a] = place]

\* Mutant: bindResults looks for a SkipCtx no more than firstCall does.
VerdictsUnskipped(ins, a) ==
    {IF CanExecute(ins, status, a, willing) THEN "Planned"
     ELSE IF CanPend(ins, a) THEN "Pending" ELSE "Unplanned"
        : willing \in Willing(a)}

Verdicts(ins, a) ==
    IF Skips(ins, a) THEN {"Skipped"}
    ELSE {IF CanExecute(ins, status, a, willing) THEN "Planned"
          ELSE IF CanPend(ins, a) THEN "Pending" ELSE "Unplanned"
            : willing \in Willing(a)}

Bind(t) ==
    /\ IsAt(t, "bind")
    /\ ctl[t].n <= Len(wf.out[ctl[t].act])
    /\ LET b == wf.out[ctl[t].act][ctl[t].n]
       IN  \/ /\ b.to \in wf.acts
              /\ inputs' = [inputs EXCEPT ![b.to][b.in] =
                                outputs[ctl[t].act][b.from]]
              /\ \E place \in Verdicts(inputs', b.to) : Place(b.to, place)
           \/ /\ b.to = Die
              /\ Place(Die, "Planned")
              /\ UNCHANGED inputs
    /\ Go(t, [ctl[t] EXCEPT !.n = @ + 1])
    /\ UNCHANGED <<wf, outputs, level, caller, asked, work, crashed>>

BindDone(t) ==
    /\ IsAt(t, "bind")
    /\ ctl[t].n > Len(wf.out[ctl[t].act])
    /\ Go(t, IF ctl[t].res = "Finish" THEN At("exec", Finish)
             ELSE At("next", None))
    /\ UNCHANGED <<wf, tables, puts, level, caller, asked, work, crashed>>

-----------------------------------------------------------------------------
(* Requests to a session that has been started. *)

\* errorReceived and interruptReceived forget the flow and force a step.
Impose(a) ==
    /\ status' = [AllUnplanned EXCEPT ![a] = "Planned"]
    /\ nexts' = {a}
    /\ pendings' = {}
    /\ late' = (late \/ answers # << >>)
    /\ UNCHANGED <<answers, ended>>

\* Without an Interrupt action addToNext dereferences a null pointer.
InterruptReceived ==
    /\ ~Uninitialised
    /\ "Interrupt" \in Kinds /\ Accepts("Interrupt")
    /\ Impose(Interrupt)
    /\ IF Interrupt \in wf.acts
       THEN /\ Go(Handler, At("exec", Interrupt))
            /\ UNCHANGED crashed
       ELSE /\ crashed' = TRUE
            /\ UNCHANGED ctl
    /\ UNCHANGED <<wf, puts, level, work>>

\* An error that names no action of the workflow.
ErrorReceived ==
    /\ ~Uninitialised
    /\ "Error" \in Kinds /\ Accepts("Error")
    /\ Impose(Error)
    /\ Go(Handler, At("exec", Error))
    /\ UNCHANGED <<wf, puts, level, work, crashed>>

\* addAction refuses Step::Status, so no workflow has an action for it.
StatusReceived ==
    /\ ~Uninitialised
    /\ "Status" \in Kinds /\ Accepts("Status")
    /\ UNCHANGED <<wf, tables, puts, level, caller, ctl, work, crashed>>

-----------------------------------------------------------------------------
(* Answers to the sub-requests of waiting actions. *)

\* Mutant: an answered sub-request is kept.
SpentKept(s) == (subs \ {s}) \cup {[s EXCEPT !.left = @ - 1]}

\* What is left of the sub-requests once s has been answered.
Spent(s) == (subs \ {s}) \cup
            (IF s.left > 1 THEN {[s EXCEPT !.left = @ - 1]} ELSE {})

\* The action takes the answer, or its operation ends; actionExecuted goes on
\* with the result.
Resume(t, a, rest, restAsync) ==
    \E r \in wf.later[a], y \in wf.yields[a] :
        /\ outputs' = Overlay(a, y)
        /\ Launch(a, r, level, rest, restAsync)
        /\ Go(t, [At("result", a) EXCEPT !.res = r])

\* Mutant: the execution level is not looked at.
ExpectedAnyLevel(s) == status[s.act] = "Waiting"

\* execute ignores a reply of another execution level, replyReceived one the
\* action does not wait for.
Expected(s) == s.level = level /\ status[s.act] = "Waiting"

ReplyTaken(s) ==
    /\ IsAt(Handler, "idle")
    /\ Expected(s)
    /\ Resume(Handler, s.act, Spent(s), asyncs)
    /\ UNCHANGED <<wf, tables, inputs, level, caller, asked, crashed>>

ReplyIgnored(s) ==
    /\ IsAt(Handler, "idle")
    /\ ~Expected(s)
    /\ subs' = Spent(s)
    /\ UNCHANGED <<wf, tables, puts, level, caller, ctl, asked, launched, asyncs,
                   crashed>>

\* errorReceived for a sub-request: execute calls it before it looks at the
\* execution level.
Catches(s) == status[s.act] = "Waiting" /\ s.act \in wf.handles

ErrorCaught(s) ==
    /\ IsAt(Handler, "idle")
    /\ Catches(s)
    /\ Resume(Handler, s.act, Spent(s), asyncs)
    /\ UNCHANGED <<wf, tables, inputs, level, caller, asked, crashed>>

ErrorForced(s) ==
    /\ IsAt(Handler, "idle")
    /\ ~Catches(s)
    /\ Impose(Error)
    /\ Go(Handler, At("exec", Error))
    /\ subs' = Spent(s)
    /\ UNCHANGED <<wf, puts, level, asked, launched, asyncs, crashed>>

\* actionAsyncFinished, from asyncDone, asyncWait or asyncError: no mutex, and
\* no look at the action's status or at the execution level.
AsyncFinished(t, o) ==
    /\ IsAt(t, "idle")
    /\ Resume(t, o.act, subs, asyncs \ {o})
    /\ UNCHANGED <<wf, tables, inputs, level, caller, asked, crashed>>

-----------------------------------------------------------------------------
\* One link of the chain of calls on thread t.
Step(t) ==
    \/ ScheduleStarter(t) \/ StartersDone(t)
    \/ Promote(t) \/ Pick(t) \/ NothingToExecute(t)
    \/ EndSession(t) \/ Execute(t)
    \/ ContractBroken(t) \/ ActionDone(t) \/ ActionSuspends(t) \/ ActionFails(t)
    \/ Bind(t) \/ BindDone(t)

\* Names of the request's contexts the workflow's starters read.  Two starters
\* that read one name find it to fit both or neither.
Given == {wf.starters[i].from : i \in 1 .. Len(wf.starters)}

Begin == \E given \in [Given -> Values] :
            \/ FirstCall("DefaultAction", given)
            \/ "Status" \in Kinds /\ FirstCall("Status", given)

SubAnswered == \E s \in subs : \/ ReplyTaken(s) \/ ReplyIgnored(s)
                               \/ ErrorCaught(s) \/ ErrorForced(s)

OperationEnds == \E t \in Workers, o \in asyncs : AsyncFinished(t, o)

\* Nothing is left to happen: not a deadlock.
Rest ==
    /\ crashed \/ \A t \in Threads : ctl[t].at = "idle"
    /\ crashed \/ (subs = {} /\ (asyncs = {} \/ Workers = {}))
    /\ asked # << >>
    /\ UNCHANGED vars

Next ==
    \/ Begin
    \/ InterruptReceived \/ ErrorReceived \/ StatusReceived
    \/ SubAnswered
    \/ OperationEnds
    \/ \E t \in Threads : Step(t)
    \/ Rest

Spec == Init /\ [][Next]_vars

\* A chain of calls runs to its end; sub-requests are answered and operations
\* end some day; the request that opens the session arrives.
Fairness ==
    /\ WF_vars(Begin)
    /\ \A t \in Threads : WF_vars(Step(t))
    /\ WF_vars(SubAnswered)
    /\ WF_vars(OperationEnds)

FairSpec == Spec /\ Fairness

-----------------------------------------------------------------------------
(* Properties *)

TypeOK ==
    /\ wf \in Layouts
    /\ status \in [Ids -> Statuses]
    /\ nexts \subseteq Ids
    /\ pendings \subseteq Ids
    /\ inputs \in [Ids -> [Puts -> Values]]
    /\ outputs \in [Ids -> [Puts -> Values]]
    /\ level \in Nat
    /\ answers \in Seq({"Reply", "Error"})
    /\ ended \in BOOLEAN /\ late \in BOOLEAN
    /\ ctl \in [Threads -> Control]
    /\ asked \in Seq({"DefaultAction", "Interrupt", "Error", "Status"})
    /\ subs \subseteq Sub
    /\ launched \in Nat
    /\ asyncs \subseteq Operation
    /\ crashed \in BOOLEAN

\* The status table and the two scheduling sets never disagree: what getNext
\* can pick is planned, what tryPromotePending can promote is pending
\* (addToNext, addToPending, removeFrom*, the clears of executeAction).
TablesAgree ==
    /\ \A a \in nexts : status[a] = "Planned"
    /\ \A a \in pendings : status[a] = "Pending"

\* No action is lost when the chains of calls have returned: a planned or
\* pending action is queued, a waiting one still has a sub-request of the
\* current execution level to be answered, an asynchronous one an operation
\* under way.
NothingForgotten ==
    (~crashed /\ \A t \in Threads : ctl[t].at = "idle") =>
    \A a \in Ids :
        /\ status[a] = "Planned" => a \in nexts
        /\ status[a] = "Pending" => a \in pendings
        /\ status[a] = "Waiting" => \E s \in subs : s.act = a /\ s.level = level
        /\ status[a] = "Async" => \E o \in asyncs : o.act = a

\* b is done, and the loop of bindResults has been past all it binds to a.  An
\* action that failed binds nothing: Error is about to empty the queues.
HasBound(b, a) ==
    /\ status[b] = "Done"
    /\ \A t \in Threads :
          /\ (ctl[t].at = "bind" /\ ctl[t].act = b) =>
                 \A i \in 1 .. Len(wf.out[b]) : wf.out[b][i].to = a => i < ctl[t].n
          /\ ~(ctl[t].at = "exec" /\ ctl[t].act = Error)

\* What is queued has inputs its definition accepts, even when a later binding
\* overwrites an input of an action already queued.  A skipped input passes
\* firstCall, which does not look for it, where the input's checker accepts it
\* or the action does not define it; but the first results bound to the action
\* take it out of the queues.
QueuedFit ==
    \A a \in (nexts \cup pendings) \cap UserIds :
        /\ InputsFit(inputs, a)
        /\ Skips(inputs, a) => \A b \in Producers(a) : ~HasBound(b, a)

\* The session never stops before its end: when every thread is idle and
\* nothing is outstanding, Die has been reached.
StopsOnlyAtEnd ==
    (/\ ~crashed /\ asked # << >>
     /\ \A t \in Threads : ctl[t].at = "idle"
     /\ subs = {} /\ asyncs = {}) => ended

\* The caller gets one answer at most (FinishWrapper, ErrorWrapper), unless an
\* error or an interruption is received after it was answered.
OneAnswer == ~late => Len(answers) <= 1

\* One action at most is outstanding, and none while a chain of calls looks for
\* the next action: after Wait and Async the chain returns, and only the action
\* that waited, or an error, goes on.
Outstanding == {a \in Ids : status[a] \in {"Waiting", "Async"}}
OneOutstanding ==
    /\ \A a, b \in Outstanding : a = b
    /\ \A t \in Threads :
            ctl[t].at \in {"start", "next", "bind"} => Outstanding = {}

\* getNext picks a terminal step only when no other action is planned or
\* pending.
TerminalLast ==
    [][\A t \in Threads :
         (Pick(t) /\ ctl'[t].act \in Terminal) =>
             (nexts \cup pendings) \cap UserIds = {}]_vars

\* An action that is run before all its producers are done was the only one
\* planned: canExecuteAction held it back until there was nothing else to do.
\* It holds in workflows in which bindResults does not place an action again
\* while one it feeds is planned.
JoinsWait ==
    [][\A t \in Threads :
         (Pick(t) /\ ctl'[t].act \in UserIds
                  /\ \E b \in Producers(ctl'[t].act) : status[b] # "Done") =>
             nexts \cap UserIds = {ctl'[t].act}]_vars

\* A waiting action is given the reply to its own last sub-request: the
\* execution level keeps out replies from before an interruption or an error.
RepliesMatch ==
    [][\A s \in subs : ReplyTaken(s) => s.no = launched]_vars

-----------------------------------------------------------------------------
(* What the caller of a workflow may rely on: module Call. *)

Caller == INSTANCE Call WITH
            phase <- IF asked = << >> THEN "unknown"
                     ELSE IF ended THEN "over" ELSE "running"

\* As long as nobody interferes, a session is a call: opened once, answered
\* once, closed after its answer, and always closed.
IsCall == Caller!Spec

=============================================================================
