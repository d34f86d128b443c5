# libworkflow, verified

libworkflow runs *workflows*: graphs of actions whose outputs are bound to the inputs of other
actions. A request opens a *session* of a workflow; the session runs the graph, may call other
workflows and answers the request. This directory holds TLA+ models of it, TLC configurations
that check them, and TLAPS proofs about them. Source paths below are relative to `src/`.

## Inventory

| Component | State | Operations | Hard behaviour | What makes it correct |
|---|---|---|---|---|
| State machine (`core/state_machine.cpp`) and session (`core/session.cpp`) | per session: `status`, `nexts`, `pendings`, `inputs`, `outputs`, execution level, requests | `execute` (first call, reply, error, interruption, status), the chain `executeAction` → `actionExecuted` → `bindResults` → `getNext`, `actionAsyncFinished` | order of a mixed priority/readiness queue; interruption in the middle; asynchronous ends on other threads; late replies | the three tables agree, joins wait, terminal steps come last, the flow always reaches Die, one answer, no lost action |
| Building a workflow (`core/state_machine.cpp`, `tools/property_set.cpp`) | `actions`, `outputs`, `inputs_map`, `starters`, `exposed_properties`; a property set per action | `init`, `addAction`, `addInput`, `expose`, `unexpose`, `validate`, `save`, `load` | a long sequence of legal calls; what is derived must follow what it is derived from | what was accepted stays sound; JSON gives back what was saved |
| Actions and step wrappers (`core/action.cpp`, `core/action_wrappers.cpp`) | definitions of inputs and outputs | `checkInputs`, `checkOutputs`, `executeSyncRequest`, `async*`; the wrappers of Finish, Error, Cleanup, Interrupt answer and raise the execution level | several outputs, only some broken | contracts are met; an answer carries the level it was asked at |
| Workflow (`core/workflow.cpp`) | `sessions`, a recursive mutex, `active` and `pendingRequests` per session | `perform`, `canExecuteRequest`, `errorReply`, `requestTimedOut` | a reply racing the call that asked for it; requests to busy or finished sessions | callers wake, no reply lost, requests refused once and not for ever |
| Controllers (`core/controller.cpp`) | map of workflows, a thread pool | `perform`, `addWorkflow`, `dropWorkflow`, `requestFinished` | a temporary workflow is added on one thread and dropped on another | a temporary workflow is there while it is used, and no longer |
| Controller manager (`service/controller_manager.cpp`) | map of controllers | `perform`, on a pool of three threads under its mutex | requests overtake each other | every request reaches its controller or client |
| Calling actions (`actions/communication/`) | a cached copy of the called workflow's inputs and outputs, one for all sessions | `perform`, `replyReceived`, `canHandleError`, `checkInputs`, `prepare`, `expectInput`, `expectOutput` | errors that come back; sessions that call different workflows through one action; callees replaced or dropped | an error reaches the caller; a call is checked against its own callee |
| Client manager and clients (`service/client*.cpp`) | `receivedRequests`, `sentRequests`, status | `receiveNewRequest`, `sendRequest`, disconnection, `checkClients` | disconnection while requests are under way | exactly the open requests are interrupted |
| Server and active objects (`service/server.cpp`, `tools/active_object.cpp`) | counters of what is still to start, done flags | `startServer`, the started callbacks, `stopServer`, `terminate` | callbacks of objects that start on their own threads; joins under mutexes | actors after controllers, inputs last, everything starts; stopping returns |
| Timers, tool actions, error reports, logging, sockets | | | | not modelled, see below |

Interaction: a client or an action posts a request to the controller manager. It hands requests
that carry a client id to the client manager and the others to a controller, which posts a bound
call of `Workflow::perform` to its pool. There the workflow's mutex is taken and the state
machine runs until the session waits or ends. A call of another workflow is again a request to
the controller manager, whose reply address is the caller's session, action and execution level.
Asynchronous actions come back through `Action::asyncDone` and its siblings, straight into the
state machine, on a thread of their own.

## Modules

* `Call`: what a workflow promises whoever sends it a request: a session is opened once, answered
  once and closed after its answer, and always closed.
* `StateMachine`: one session. The workflow is a constant record, a *layout*: its actions, bindings,
  contracts, and what `perform` may return. `execute` is one long chain of calls, all in tail
  position; `ctl[t]` says which link of it thread `t` is at, and each link is an action:
  `ScheduleStarter` and `StartersDone` (firstCall), `Promote`, `Pick`, `NothingToExecute` (getNext and
  the -1 branch of executeAction), `Execute`, `EndSession` (executeAction), `ContractBroken`,
  `ActionDone`, `ActionSuspends`, `ActionFails` (actionExecuted), `Bind`, `BindDone` (bindResults).
  Requests and answers from outside are `FirstCall`, `InterruptReceived`, `ErrorReceived`,
  `StatusReceived`, `ReplyTaken`, `ReplyIgnored`, `ErrorCaught`, `ErrorForced` and `AsyncFinished`.
  The thread `Handler` stands for whichever pool thread holds the workflow's mutex; `Workers` are
  the threads that end asynchronous operations, which take no mutex. `late`, `launched` and the
  numbers of sub-requests are history variables. A context is one of four values: absent, fitting,
  a SkipCtx, or refused by its definition. A definition whose checker is the plain `TypeChecker` is
  `lax`: it accepts them all.
* `Exchange`: many sessions. Requests travel `posted` (to the controller manager) → `tasks` (in a
  pool) → a thread's `msg`; the actions follow `ControllerManager::perform` (`Abort`, `Deliver`,
  `Route`, `Register`, `Misfit`, `Refuse`) and `Workflow::perform` (`Take` to `Leave`). What the
  state machine does in a session is reduced to: it calls a workflow and waits, it answers, or it
  fails; `StateMachine` and its refinement of `Call` are what entitles it to that.
* `Server`: start-up. `main` is how far `startServer` is on the main thread (`ConstructManager`,
  `SetFunction`), `adding` how far `controllersManagerStarted` is on the manager's thread
  (`ManagerTold`, `StartController`, `RegisterController`); `started`, `up` and `told` are the active
  objects that have a thread, an io_service, and have looked for their start function
  (`CreateService`, `Report`: the three steps of `ActiveObject::start` and `run` that others can see).
  `queue`, `handling` and `missing` are the handlers posted to the server, how far its thread is in
  one, and `controllers_expected` and `clients_expected` (`ControllerReported`, `StartActor`,
  `AddClient`, `NoActors`, `ClientReported`). `events` is a history of the user's callbacks.
* `Client`: an actor and the client manager. `actor`, `pool`, `checker` and `main` say where its own
  thread is, one thread of the controller manager's pool, the client manager's, and the thread in
  `stopServer`. `received` and `sent` are the two books, which nothing locks: `Publish`
  (`receiveNewRequest`), `Send` (`sendRequest`) and `Handle` (the actor answers) change them while
  `Interrupt` walks them, entry by entry (`walk`). The mutexes of the two managers are not
  variables: `ClientsHeld` and `ControllersHeld` say from the places of the threads whether they are
  held. `Kick`, `Check`, `Stopped`, `Terminate` and `Joined` are `checkClients` and what follows;
  `CallStop`, `StopClients`, `StopControllers` and `StopEnds` are `stopServer`, which waits for the client
  manager's mutex between the first two. A workflow is here only whether it has a session open for a
  request (`session`). Identifiers are those of the code: the request an action sends to the actor while
  it serves one (`Ask`) carries the request id of the served one (`Root`) and, as reply address, its
  identifier (`Back`) or that of a workflow called from there. `due` is a history variable.
* `PropertySet`: sets of properties, guarded or not, and the layers an action reads them through.
* `Structure`: what a workflow is made of, as a record, and every operation that builds it (`WithAction`,
  `WithInput`, `Exposing`, `Unexposing`, `UnexposingAlias`, `NewWorkflow`), saves and loads it (`Saved`,
  `Loaded`) or reads off what a call of it takes and offers (`InputsOf`, `OutputsOf`, `PropertiesWith`,
  `CallThrows`). Operators only, no state.
* `Building`: authors, a controller and sessions. `heap` holds the `Workflow` objects, `draft` those
  authors are still working at, `workflows` the controller's map. Authors make drafts, change them,
  copy them by way of JSON and hand them over (`AddWorkflow`, with all of `validate`, which prepares the
  calls it meets); sessions are opened with the bypasses of their request and look at the inputs of
  a calling action (`Check`: `checkInputs` and `prepare`). `checks` is a history of the calls found fit.
* `MCStateMachine`, `MCExchange`, `MCServer`, `MCClient`, `MCBuilding`: the layouts and the small
  systems the runs use.
* `StateMachineProofs`: theorems about `StateMachine` for all sets of threads. `SequentialProofs` extends
  it for workflows without asynchronous actions, and `FlowProofs` that one for workflows that have an
  end of their own.
* `ExchangeProofs`: types, mutexes and running sessions of `Exchange`. `CallProofs` extends it with what
  waiting sessions are owed, and with temporary workflows.
* `ServerProofs`, `ClientProofs`: theorems about `Server` and `Client`.
* `BuildingProofs`: theorems about `Building`, and the lemmas about `PropertySet` and `Structure` they
  rest on: what each operation that builds a workflow, saves, loads, validates or prepares one leaves
  as it is.

Definitions named as mutants in their comment are plausible mistakes in the definition that
follows; each breaks the property it was written for and no specification uses them.

## Runs

| Run | What it asks | Bounds |
|---|---|---|
| `MCStateMachine` | types; `TablesAgree`, `NothingForgotten`, `QueuedFit`, `StopsOnlyAtEnd`, `OneAnswer`, `OneOutstanding`; `TerminalLast`, `JoinsWait`, `RepliesMatch` | the diamond, condition and loop of tests 13-15, two interruptible workflows, and all bindings of two actions in which the second takes an input, that it needs or not, with a checker of its own or the plain one; a request that carries nothing, a fitting context, a SkipCtx or one that is refused; three requests to the session, two sub-requests, one answer each; no asynchronous action |
| `MCCall` | a session implements `Call`, liveness included | acyclic layouts, nobody interferes |
| `MCAsync` | `OneAnswer`, `TerminalLast`, `JoinsWait` with asynchronous ends | two asynchronous branches, joined or not, one completing thread besides the handler |
| `MCExchange` | `CallersWake`, `NoReplyIgnored`, `EveryCallAnswered`, `MessagesEnd` | a chain of three workflows, two pool threads, three requests with an identifier, one status request; sessions start inactive |
| `MCVisit` | `TemporaryInUse` | a temporary workflow calling a stored one; a new session may look active; three identifiers |
| `MCServer` | `ActorsAfterControllers`, `InputsLast`, `DefaultRegistered`, `ComesUp` | one controller of the user's beside the two the server adds, two actors, one input; every interleaving of their threads, the manager's, the server's and the main thread |
| `MCClient` | types and the way of messages; `OpenBooked`, `DisconnectionInterrupts`; `StopReturns` | an actor that publishes two requests, one answered and one failed, one of them its own reply address and one with a reply address of its own, as the tests have it, and is asked something by an action that serves the first; an actor that may look up controllers and has a heartbeat, either of which it may leave |
| `MCBuilding` | what is accepted has the shape `TypeOK` says; `StockSound`, `RoundTrip`; `FirstCheckFresh` | a controller with a callee, a second callee and a dynamic caller; one more object, three edits out of six parts, two starters and an exposed property; two sessions, with and without a bypass; two calls found fit |
| `MCRace`, `MCRefused`, `MCStart`, `MCStale` | one statement of a comment each, which the code does not keep | |

Why the bounds are enough to be interesting: an interruption, the answer it overtakes and a second
interruption need three requests; a call answered late and its repetition need two sub-requests; a
join needs three actions and a promotion against a terminal step two; a reply can race its caller
with two pool threads; and a chain of three has a workflow that is caller and called at once, in
which an error is passed on; a server with three controllers can be caught between any two of them,
and with two actors between the first and the last. A book goes wrong with two entries, or with an
entry whose reply has another identifier; three edits make a draft, new or
a copy by way of JSON, and change it twice, so that an action is replaced or an alias exposed and
removed; a stale contract takes two sessions and two callees. `MaxRequests`, `MaxSubs`,
`AnswersPerSub`, `MaxIds`, `MaxAsks`, `MaxEdits`, `MaxChecks` and `Objects` only limit the environment and the number of calls, and appear in guards of those actions.

Fairness (`FairSpec`): a chain of calls runs to its end (it is ordinary code on one thread), posted
handlers are run (`io_service`), and, in `StateMachine`, a sub-request is answered and an
asynchronous operation ends some day. That a called workflow answers is what `EveryCallAnswered`
checks in `Exchange`, where nothing of the kind is assumed. Nothing makes the environment send
further requests. In `Server` every thread goes on. In `Client` each thread goes on too; `Found`
(an actor that waits for the controller manager's mutex) and `Stopping` (the server's thread, which
waits for the client manager's and then for that one) are strongly fair, as those who hold these mutexes
give them back time and again, unless they wait in a circle, and a mutex is not for ever given to somebody
else. Nobody is made to publish, answer or stop the server.
`Building` has no fairness: its properties are safety.

### What the violation runs show

* `MCRace`: an asynchronous end works on the session without the workflow's mutex, whatever the
  thread that began the operation has got to. A branch begins an operation; before its thread has marked
  the action `Async`, another thread sends a request and ends the operation with `asyncWait`. The first
  thread marks the action and returns; the reply is ignored, as the action is not `Waiting`; then the
  second thread marks it `Waiting`. Nothing is outstanding any more, the other branch stays planned and
  never runs. `workflow.h:40-43` says that two threads are too many for a state machine and then that it
  might still work; `action.h:123` offers `asyncWait` as the counterpart of `wait` without a doubt.
* `MCRefused`: the temporary controller refuses errors, so a temporary workflow never learns that
  its call failed, and the error is bounced for ever.
* `MCStart`: `ControllerManager::getInstance(true)` means to delay the start and hands its flag over
  as the size of a pool; the manager's thread may be past its look at the start function before
  `startServer` has set it, and then no controller is ever started.
* `MCStale`: the object of a calling action keeps the contract of one callee, and each session keeps
  its own mark of what it was prepared for. Two sessions that name different callees therefore
  pass each other's contract: the session that looks again is found prepared for what the other
  one asked for. `FirstCheckFresh` is what remains: a session's first look is at its own callee.

Because of these, the passing runs make the following restrictions, each a constant: `Workers = {}`
in `MCStateMachine`; `late` in `OneAnswer`; `Garbage = {FALSE}` and no temporary workflow in
`MCExchange`. `ComesUp` speaks of servers whose manager saw its function and whose own io_service was
there when the first controller reported (`crashed = "service"` is the other case). `MCServer` has
actors: without any the inputs start with the first controller (`server.cpp:117`), which
`server.h` does not say.

In `Client` there is one deadlock, and `StopReturns` names it (`CircularWait`): `checkClients` joins the
actor it disconnects under the client manager's mutex; if that actor waits for the controller
manager's mutex, and its holder for the client manager's, none of the three goes on, and
`stopServer`, which wants the client manager's mutex, hangs with them. It takes an actor that looks up
controllers and whose heartbeat times out. It is a fault of the code. `StopReturns` counts from the moment
the server is told to stop, before `stopServer` has any mutex, and says that it returns unless this
circle closes; TLC's deadlock check, on in `MCClient`, finds no other. `DisconnectionInterrupts` ends with the
disconnection: the interruptions are then posted, and those posted by a stop may never be taken.

In `Building` there is one controller, so that `prepare` is modelled without the mark of the
callee's controller (`__local_controller`), which never changes; authors do not touch a workflow the controller has
accepted; `prepare` is one step; requests bypass the name of the callee and no other property, and
the bypass for all actions is empty; no name holds a dot (a property tree would take it
apart), and nobody exposes the properties of a call. An exception thrown to the author or in a
session ends the program (`crashed`).

Disagreements that need no run of their own, each followed by the models:

* sessions are never erased (`setFinished` has no caller), so that a late interruption runs the flow
  again and answers again (`StateMachine`, `late`); `workflow.h:45` says they are erased;
* a workflow has no Interrupt action by default, and interrupting it dereferences a null pointer in
  `addToNext` (`StateMachine`, `crashed`);
* pending requests are never served (`Exchange`, `queued`), while `workflow.h:46` says they are served
  when the first has finished;
* a request that an action sent to a client stays booked after its answer: the answer is looked up by the
  request id and erased by the identifier (`client.cpp:78-80`), and both are those of the served request
  (`action.cpp:420-424`). A published request whose reply address has an identifier of its own stays
  booked too (`client.cpp:103`). A disconnection interrupts both again, the first by way of the served
  request's session (`Client`, `SentAfter`, `ReceivedAfter`, `Interrupted`); `client.cpp:122` speaks of pending
  requests;
* an asynchronous end that comes after an interruption is taken, and the interrupted flow goes on beside
  the one that ends it (`StateMachine`, `OperationEnds`), while `steps.h:11` says that asynchronous execution is
  ignored; `MCAsync` has no interruptions for it;
* an action that the request starts, and an input of which the request gives a SkipCtx, is run, not skipped: `firstCall` copies what
  the request carries and never looks for a SkipCtx, as `bindResults` does (`state_machine.cpp:277-299`). It takes
  an input that no definition declares or whose checker is the plain one (`StateMachine`, `StarterInput`,
  `QueuedFit`);
* `replyError` builds a reply and sends nothing (`Client`, `Handle`); the comment above it says that
  it will "reply with error";
* a workflow whose first action was left as `init` made it cannot be called: the look-up of the
  output with no name throws (`Structure`, `CallThrows`);
* a property that is a context does not survive JSON (`PropertySet`, `ReloadedValue`).

One more of the kind: `checkOutputs` returns at the first output that fits
(`action.cpp:87`), so a missing mandatory output after it is handed on, while `action.h:38-39` promises
that "the action will ensure this contract is met". `StateMachine` follows the code.

## Proofs

`StateMachineProofs` proves, for all layouts, bounds and sets of threads that meet the assumptions
`ConstantsAssumption` and `LayoutsAssumption`, asynchronous ends included:

* `TypeCorrectOK`: `Spec => []TypeOK`. `TypeOK` is not inductive: `Bind` and `ScheduleStarter` index
  the bindings with `ctl[t].n`, so the invariant `TypeInv` adds that a thread that binds or schedules
  is at an index of at least one and works on an action of the workflow. The proof goes action by
  action over a thread's step (`StepKeepsType`), the requests (`RequestKeepsType`) and the answers
  (`AnswerKeepsType`); that `getNext` picks an element of the set it looks at (`LeastId`, `FirstOfIn`)
  rests on every non-empty set of ids having a least one, from the order of the naturals.
* `WhatIsQueuedFits`: `Spec => []QueuedFit`, whatever the request carries. Only `bindResults` and `firstCall`
  queue a user's action, and both look at its inputs; but `firstCall` does not look for a SkipCtx, so
  that an action with a skipped input may be queued. `QueuedFit` says how long: until a producer of the action has bound its
  results (`HasBound`), for whatever `bindResults` places it has looked at. The strengthening says that
  an untouched session is empty and that, while the starters are being scheduled, no action is done.
  That it survives any interleaving with asynchronous ends is the point: they never touch inputs between
  the look and the queueing, which is one link of the chain.

`ClientProofs` proves, for any number of requests in either direction, any way they may end and any
identifiers that meet `ClientAssumption` and `IdentifiersAssumption` (no request is answered under the
identifier of another one of its own direction: every `Target` draws a uuid, and `prepareSyncRequest` gives
what an action sends to the actor the identifier of a request that went to a workflow, which may be one of
the actor's own):

* `ClientTypesOK`: `Spec => []TypeOK`, which is inductive; it includes that only answers to what the
  actor published and requests made for it are on their way to it.
* `OpenIsBooked`: `Spec => []OpenBooked`, and `InterruptsAll`: `Spec => []DisconnectionInterrupts`.
  Neither is inductive. The invariant `ClientInv` adds three things. `MessagesAgree`: a message on its
  way tells how far its session is, so that an answer that erases an entry is never ahead of the
  request it answers. `DueBegun`: what was open when the disconnection began had begun by then, so
  that it cannot open again behind the walk. `WalkMeets`: while the books are walked, what is due and
  still open is still to be visited; it starts from `OpenBooked` (an open request that is not booked
  would never be visited) and gives `DisconnectionInterrupts` when nothing is left to visit. Most
  steps touch one request only, and `OneKeepsInv` says what such a step has to leave alone.
  An interruption may reach two of them, the request and the session it was sent for
  (`InterruptedKeepsInv`). `IdentifiersAssumption` is what the erasures rest on: an answer erases from
  the book of its direction by the identifier of the reply address, which must not be that of another
  request in that book.

`SequentialProofs` proves about workflows without asynchronous actions (`Sequential`: `Workers = {}`; with
them the session is written by two threads at once, which `MCRace` refutes), for all layouts, numbers
of requests and answers, interruptions, errors and late replies:

* `TablesAlwaysAgree`: `Spec => []TablesAgree`, where firstCall starts no action that asks `canPerform`
  by two starters (`StartsSteady`). The invariant `QueuesHold` adds that no action is in both sets,
  that what is being run is planned and in neither (`Held`), and what the loop over the starters has
  put where.
* `OneIsOutstanding`: `Spec => []OneOutstanding`. `OneAtWork` adds where the chain of calls may be while
  an action waits.
* `NothingIsForgotten`: `Spec => []NothingForgotten`, and `StopsAtEndOnly`: `Spec => []StopsOnlyAtEnd`.
  `Owed` says of the moment between `Wait` and the return of the chain that the sub-request is
  launched at the current level; `Quiet` that nothing happens before the first request; `Stops`
  that a chain that has returned reached Die or waits. The state when the chain returns is not
  inductive by itself: what holds then is decided several links earlier.
* `RepliesAlwaysMatch`: `Spec => RepliesMatch`, where a sub-request is answered once (`AnsweredOnce`)
  and no action catches errors (`Deaf`) or nobody interrupts or reports an error (`Undisturbed`).
  `SubsCurrent`: of the sub-requests still open, those of the current level are the last one launched,
  and there is none while the chain goes on to run another action.

`FlowProofs` adds hypotheses on the workflow. `Orderly(F)`: `F` names for each layout the actions of its
end, Cleanup and Die among them; only Finish, Error or Interrupt lead there, nothing leads out, none of
them fails or has outputs to check, the way to Cleanup and Die is there, and no action returns
`Finish`. `StateMachine::init` (`state_machine.cpp:28-41`) leaves exactly such an end, authors bind
to Finish, and no action of the repository returns `EType::Finish`; with actions of his own an author
can leave the class, and then the statements are false (below). `Diamond`, which lets its last action
return `Finish`, is outside it too: there the runs show `OneAnswer`, no theorem does.

* `OneAnswerOnly`: `Spec => []OneAnswer`. `Unmixed`: what is queued is all of the end or all before it,
  and agrees with what runs. `Closing`: after an answer only the end is queued or at work, and there
  is always something ahead that leads to Die (`EndAhead`): else getNext would find nothing and answer
  with an error. `Unskipped`: Cleanup cannot be lost to a SkipCtx.
* `TerminalIsLast`: `Spec => TerminalLast`, when Cleanup leads to Die and to nothing else
  (`StraightEnd`). `DieAlone` and `Unmixed` give `OneTerminal`: no two terminal steps are queued, so
  that passing over one, as getNext does, is enough.
* `SessionIsCall`: the safety part of the refinement of `Call`: `Spec` implies `Caller!Init` and
  `[][Caller!Next]_(Caller!vars)`, for sessions nobody disturbs whose end calls no other workflow
  (`Quick`). The mapping is that of `Caller` in `StateMachine`. `Execute` of Finish or Error is `Reply`,
  `EndSession` is `Close`, the first request is `Open`, every other step stutters. `Calm`: before the
  answer no action of the end is queued or at work and the session is not closed; after it nothing is
  left that an answer or an error could start the flow with.
* `JoinsWaitUnlessUndone`: `Spec /\ [][Settles]_vars => JoinsWait`, for all layouts. `Settles` says that no
  step takes back what a planned action waited for. The invariant `OnlyPromoted`: an action that is
  planned too early was promoted while no other work was planned, and is the next to run. The
  hypothesis is the other way a join can fail, and a real one (below): the theorem says that there
  is no third.

`ServerProofs` proves, for any number of controllers, actors and inputs: `ServerTypesOK`
(`Spec => []TypeOK`, no object runs before it is started), `DefaultIsRegistered`
(`Spec => []DefaultRegistered`), `ActorsWait` (`Spec => []ActorsAfterControllers`) and, in servers
with actors, `InputsWait` (`Spec => []InputsLast`). The heart of `ServerInv` is `Counted`: each of
the two counters is the number of objects that have not reported plus that of reports in the
queue. Hence a counter at zero means that all have reported. `Registering` and `StartsActors`
say how far the two loops are, each of which starts an object, or registers it, in
between the steps of others.

`ExchangeProofs` and `CallProofs` prove, for any number of workflows, sessions, pool
threads and requests:

* `ExchangeTypesOK`: `Spec => []TypeOK`, temporary workflows and sessions that start active included.
  `SoundInv` adds the four shapes a message may have (`Shapes`), that whoever works in a workflow
  holds its mutex (`Locks`), and that a session runs while a thread works for it (`Sessions`).
* `RepliesAwaited`: `Spec => NoReplyIgnored`. A call is a token that is in one place at a time: with the
  controller manager, in a pool, in a thread's hands, or in the session it opened, where its answer
  takes over. `OwedOnce`: nobody is owed two things; `OwedAwaited`: what is owed is awaited, at the
  level it bears; `AwaitedOwed`: whoever waits is owed something. That the reply of a callee on another
  thread cannot overtake its caller, which is still between its call and its return, is the
  workflow's mutex: `Locks`.
* `CallersAlwaysWake`: `Spec => []CallersWake`, if no session starts active and temporary workflows call
  only workflows that do not fail (`Dependable`). `PlainInv` says of every message who asked whom.
* `GuestsInUse`: `Spec => []TemporaryInUse`. `VisitOnce`: one token at most brings a given temporary
  workflow; `InUse`: its controller knows it exactly while that token is on its way or its session
  is not over.

`BuildingProofs` proves, for any stock of workflows, any parts authors may add, any factory, any number
of objects, sessions and edits that meet `PutsAssumption`, `PartsAssumption`, `StockAssumption` and
`BoundAssumption` (the parts have the types the code gives them, the stock consists of workflows as
`init` and `addAction` leave them):

* `TypeCorrect`: `Spec => []TypeOK`. `Made` is the part that says something about workflows: every
  action has its list of bindings, the steps `init` adds stay, no other id is negative, and only an
  `ExecuteWorkflow` is ever prepared. `TypeInv` adds that objects are numbered as they are made
  (`Counted`), so that `Make` overwrites none, and carries the set of keys nobody exposes, which the
  theorems below need (`HeapMade`).
* `RoundTripRestores`: `Spec => []RoundTrip`, if the stock's joins follow its bindings (`StockIndexed`) and
  the factory knows what authors use (`FactoryKnows`). `JsonInv` is of every object, accepted, dropped
  or draft: its joins are the ones of its bindings (`Indexed`), and each of its actions is one the
  factory makes again or the one `init` adds (`Restorable`). A call that has been prepared has more
  properties than the factory gives it, never fewer, which is why the invariant survives sessions.
* `AcceptedStaysSound`: `Spec => []StockSound`, if no request and no callee decides whether a call is
  dynamic (`NoneDynamic`, `Hidden(Reserved)`). `StockSound` is not inductive: it says nothing of the
  session that is about to prepare an action of the workflow again. `SoundInv` adds that sessions
  bring no property `dynamic` (`OwnQuiet`) and that the joins of objects nobody has accepted yet
  follow their bindings (`AllIndexed`); what a step may do to an accepted workflow is then bounded: its
  bindings stay, and so does whether a call is dynamic (`Retouched`), and a prepared call that is not
  dynamic is left as it is (`Steady`). That `validate` leaves an accepted workflow sound is an induction over its bindings
  (`UpTo`, `Found`): a binding found valid stays so while the calls of later ones are prepared.
* `FirstCheckIsFresh`: `Spec => FirstCheckFresh`, if no callee exposes the name of a callee
  (`Hidden(Address)`), and calls name what they call while requests leave the mark alone
  (`CallsNamed`). `FreshInv`: who has a mark has checked (`MarksChecked`), and no call or bypass gives the
  empty name (`AllAddressed`, `OwnNamed`), which is what a session without a mark reads. A first
  check therefore prepares, and `AgreesIsFresh` says that what `prepare` has copied is what the
  callee takes and offers afterwards, even when the callee is the caller's own workflow, whose
  contract `prepare` changes while it reads it.

The first look of a second session is what makes the last one hard: the action it looks at may have
been prepared by another session, for another callee, or for a workflow of that name that was
replaced since. `MCStale` shows that the second look of a session does not have the property.
`MCBuilding` meets the hypotheses of all four.

What the hypotheses leave out is not for the prover's sake. Without them the statements are false of
the code, as TLC shows on a small instance of each:

* firstCall does not take an action out of the other set, as `bindResults` does
  (`state_machine.cpp:284-299`): an action named by two starters whose `canPerform` changes its mind
  is planned and pending at once (`StartsSteady`).
* An action that returns `Finish` while others are planned answers, and the others then lead to Finish
  again: two answers. So do an end that leads back and an end that fails (`Orderly`).
* getNext passes over one terminal step only. An action bound to Die, to Finish and to a third has
  Finish run before the third; the comment at `state_machine.cpp:602` trusts that there are not two
  in one stack (`Orderly`, `StraightEnd`).
* `errorReceived` does not look at the execution level. An action that catches errors
  (`ExecuteWorkflow` with `allow_error`) and waits again may be given the error of an earlier
  sub-request (`Deaf \/ Undisturbed`).
* An error sent to a temporary workflow is refused and bounces (`MCRefused`), and a session that is
  created active keeps its request for ever: its caller is never woken (`CallersAlwaysWake`).
* Without actors the inputs start with the first controller (`server.cpp:117`; `InputsWait`).
* bindResults places an action again without a look at what it feeds, which may be planned already and is
  then run before it. It takes a loop that leads back to an action whose consumers are still planned,
  or no loop at all: let 2 be bound to 0 and 1, 1 to 0, and start with 1 and 2, where 2 also waits for
  an action that never runs; 1 and 0 are promoted before 2, and 2 then plans both again (`Settles`).

* A request whose bypass makes a call `dynamic` that its author did not has the one object of that call
  prepared for another callee; the bindings of its workflow may then lead from outputs and to inputs the
  call does not have any more, for all sessions (`NoneDynamic`).
* A callee that exposes a property `dynamic` or `workflow` replaces the caller's own of that key
  (`execute_workflow.cpp:184-213`): a dynamic call is one no more, or calls another workflow (`Hidden`).
* load adds to the properties the factory gives: one that the saved action lacks is new (`FactoryKnows`).
* A session that has not marked a callee reads the mark as the empty name. With a dynamic call of the
  workflow of that name, or with a bypass that brings `__local_workflow`, the first check is taken for
  a repeated one and the contract of another callee is used (`CallsNamed`).

Only model-checked:

* liveness, which is out of TLAPS's reach: that a session is answered and closed at all (the fairness
  of `Call`), `EveryCallAnswered`, `MessagesEnd`, `ComesUp`, `StopReturns`;
* `Settles` of the layouts of the runs, the hypothesis of `JoinsWaitUnlessUndone` (a separate run of TLC on
  those of `MCStateMachine` finds it kept; no run here states it);
* `OneAnswer`, `TerminalLast` and `JoinsWait` with asynchronous actions (`MCAsync`).

What a recursive definition computes for every input is out of its reach too: induction over data takes
an operator as a parameter. The three recursive functions of `Structure` and `Building` (`Starting`,
`Validation`, `Stocking`) are reasoned about through `UpTo`, an induction over a set of numbers
that follows from the well-foundedness of the naturals.

## Not modelled

The text of JSON, its parser and what neither keeps nor loses structure; contexts other than
property sets. The session time-out, whose timer is never started. The race inside one access to a
controller's map of workflows and inside one `prepare`: both are undefined behaviour of a
container, and the models take them as one step. Actions that fail inside the error flow without
end. Clients that refuse to send (`TCPClient`) and several clients at once: the clients share no
state but the client manager's mutex. The controllers' and the server's own `terminate`, which
follow the managers' and join threads that wait for nobody. Timers, tool actions, error reports and
logging are sequential code without state that outlives a call; network clients and inputs are
pure input and output.

## Plan

1. `StateMachine`, `Call` and their runs: done; the proofs of types and of `QueuedFit`: done.
2. `Exchange` and its runs: done.
3. `Server` and its run, start-up: done; stopping is in `Client`.
4. `Client`, its run and the proofs of its safety properties: done.
5. `PropertySet`, `Structure`, `Building` and their runs: done.
6. Left to model: several controllers in `Building`, and the composition of `Client` with `Exchange`.
7. Proofs: the safety properties of `StateMachine`, `Exchange`, `Server`, `Client` and `Building`: done. Left: a
   class of workflows for which `Settles` can be proved.
