------------------------------- MODULE Server -------------------------------
(***************************************************************************)
(* How a server starts: Server::startServer on the main thread, the        *)
(* ControllerManager that starts the controllers on its own thread, the    *)
(* controllers, actors and inputs that come up on theirs, and the server's *)
(* thread, which counts them (service/server.cpp, tools/active_object.cpp, *)
(* the constructor of service/controller_manager.cpp).                     *)
(***************************************************************************)
EXTENDS Integers, Sequences, FiniteSets

CONSTANTS
    Added,     \* the controllers the user adds, in order
    Default,   \* the two controllers startServer adds
    Temporary,
    Actors,    \* the actors, in order
    Inputs,    \* the inputs
    Manager,   \* the ControllerManager, an active object
    Server     \* the server, an active object too

Members(s) == {s[i] : i \in 1 .. Len(s)}

\* Mutant: the default controller is added last.
OrderSwapped == Added \o << Temporary, Default >>

\* controllers_to_add
Order == Added \o << Default, Temporary >>

Controllers == Members(Added) \cup {Default, Temporary}
Objects     == Controllers \cup Members(Actors) \cup Inputs \cup {Manager, Server}

Distinct(s) == \A i, j \in 1 .. Len(s) : s[i] = s[j] => i = j

\* An object is one thing: no controller is added twice, and none is an actor.
ASSUME ServerAssumption ==
    /\ Added \in Seq(Members(Added)) /\ Actors \in Seq(Members(Actors))
    /\ Distinct(Order) /\ Distinct(Actors)
    /\ Controllers \cap Members(Actors) = {}
    /\ Inputs \cap (Controllers \cup Members(Actors)) = {}
    /\ Manager # Server
    /\ {Manager, Server} \cap (Controllers \cup Members(Actors) \cup Inputs) = {}

VARIABLES
    main,       \* how far startServer is
    started,    \* active objects that have a thread
    up,         \* those whose run has created the io_service
    function,   \* the manager's start function is set
    told,       \* those that have looked for their start function
    adding,     \* how far controllersManagerStarted is, -1 before it is called
    registered, \* ControllerManager::controllers
    queue,      \* what the server's io_service has to run
    handling,   \* how far the server's thread is in a handler
    missing,    \* controllers_expected and clients_expected
    clients,    \* actors known to the ClientManager
    events,     \* history: the user's callbacks, in order
    crashed     \* what null pointer was dereferenced

vars == <<main, started, up, function, told, adding, registered, queue,
          handling, missing, clients, events, crashed>>

Idle == [at |-> "idle", n |-> 0]

\* The server's own thread is started by its constructor; what the user adds
\* starts later ("it's expected that their start to be delayed", server.h).
Init ==
    /\ main = "construct"
    /\ started = {Server} /\ up = {} /\ told = {}
    /\ function = FALSE
    /\ adding = -1 /\ registered = {}
    /\ queue = << >> /\ handling = Idle
    /\ missing = [controllers |-> Cardinality(Controllers), clients |-> Len(Actors)]
    /\ clients = {} /\ events = << >>
    /\ crashed = "no"

Goes == crashed = "no"

-----------------------------------------------------------------------------
(* startServer, on the main thread. *)

\* ControllerManager::getInstance(true) hands its flag over as the size of a
\* pool, so the manager starts in its constructor.
ConstructManager ==
    /\ Goes /\ main = "construct"
    /\ started' = started \cup {Manager}
    /\ main' = "function"
    /\ UNCHANGED <<up, function, told, adding, registered, queue, handling,
                   missing, clients, events, crashed>>

\* setStartedFunction.  The two calls of start that follow find a thread.
SetFunction ==
    /\ Goes /\ main = "function"
    /\ function' = TRUE
    /\ main' = "done"
    /\ UNCHANGED <<started, up, told, adding, registered, queue, handling,
                   missing, clients, events, crashed>>

-----------------------------------------------------------------------------
(* ActiveObject::run, on the thread of an object. *)

\* Mutant: an object does not wait for start.
CreateServiceAnyTime(o) ==
    /\ Goes /\ o \notin up
    /\ up' = up \cup {o}
    /\ UNCHANGED <<main, started, function, told, adding, registered, queue,
                   handling, missing, clients, events, crashed>>

CreateService(o) ==
    /\ Goes /\ o \in started \ up
    /\ up' = up \cup {o}
    /\ UNCHANGED <<main, started, function, told, adding, registered, queue,
                   handling, missing, clients, events, crashed>>

\* decreaseControllersCounter, decreaseClientsCounter: a handler is posted to
\* the server, if it has an io_service yet.
Report(o, what) ==
    /\ Goes /\ o \in up \ told
    /\ told' = told \cup {o}
    /\ IF Server \in up
       THEN queue' = Append(queue, what) /\ UNCHANGED crashed
       ELSE crashed' = "service" /\ UNCHANGED queue
    /\ UNCHANGED <<main, started, up, function, adding, registered, handling,
                   missing, clients, events>>

\* The manager looks for its start function once.
ManagerTold ==
    /\ Goes /\ Manager \in up \ told
    /\ told' = told \cup {Manager}
    /\ adding' = IF function THEN 0 ELSE adding
    /\ UNCHANGED <<main, started, up, function, registered, queue, handling,
                   missing, clients, events, crashed>>

-----------------------------------------------------------------------------
(* controllersManagerStarted, on the manager's thread: each controller is   *)
(* started, then registered.                                                *)

StartController ==
    /\ Goes /\ adding \in 0 .. Len(Order) - 1
    /\ Order[adding + 1] \notin started
    /\ started' = started \cup {Order[adding + 1]}
    /\ UNCHANGED <<main, up, function, told, adding, registered, queue,
                   handling, missing, clients, events, crashed>>

RegisterController ==
    /\ Goes /\ adding \in 0 .. Len(Order) - 1
    /\ Order[adding + 1] \in started
    /\ registered' = registered \cup {Order[adding + 1]}
    /\ adding' = adding + 1
    /\ UNCHANGED <<main, started, up, function, told, queue, handling, missing,
                   clients, events, crashed>>

-----------------------------------------------------------------------------
(* The handlers of the server's thread. *)

Called(e) == e \in Members(events)

\* Mutant: one controller less is waited for.
ControllersReadyEarly == missing'.controllers = 1 /\ ~Called("controllers")

\* controllers_done and clients_done are set with the user's callbacks.
ControllersReady == missing'.controllers = 0 /\ ~Called("controllers")

\* Mutant: any actor will do.
ClientsReadyEarly == Called("controllers") /\ ~Called("clients")

\* Mutant: the counter is looked at before it goes down.
ClientsReadyLate == /\ missing.clients = 0
                    /\ Called("controllers") /\ ~Called("clients")

ClientsReady == /\ missing'.clients = 0
                /\ Called("controllers") /\ ~Called("clients")

Takes(what) == /\ Goes /\ Server \in up /\ handling = Idle
               /\ queue # << >> /\ Head(queue) = what
               /\ queue' = Tail(queue)
               /\ missing' = [missing EXCEPT ![what] = IF @ > 0 THEN @ - 1 ELSE @]

\* clientsStarted calls the user back and starts the inputs.
ClientsStarted == /\ events' = Append(events, "clients")
                  /\ started' = started \cup Inputs

\* decreaseControllersCounter, and controllerStarted up to its loop: the default
\* workflow is added to the default controller, the user is called back.
ControllerReported ==
    /\ Takes("controllers")
    /\ \/ /\ ControllersReady
          /\ crashed' = IF Default \in registered THEN crashed ELSE "controller"
          /\ events' = Append(events, "controllers")
          /\ handling' = [at |-> "start", n |-> 1]
       \/ /\ ~ControllersReady
          /\ handling' = [at |-> "after", n |-> 0]
          /\ UNCHANGED <<events, crashed>>
    /\ UNCHANGED <<main, started, up, function, told, adding, registered, clients>>

\* The loop of controllerStarted: an actor is started, then added.
StartActor ==
    /\ Goes /\ handling.at = "start"
    /\ IF handling.n <= Len(Actors)
       THEN /\ started' = started \cup {Actors[handling.n]}
            /\ handling' = [handling EXCEPT !.at = "add"]
       ELSE /\ handling' = [at |-> "after", n |-> 0]
            /\ UNCHANGED started
    /\ UNCHANGED <<main, up, function, told, adding, registered, queue, missing,
                   clients, events, crashed>>

AddClient ==
    /\ Goes /\ handling.at = "add"
    /\ clients' = clients \cup {Actors[handling.n]}
    /\ handling' = [at |-> "start", n |-> handling.n + 1]
    /\ UNCHANGED <<main, started, up, function, told, adding, registered, queue,
                   missing, events, crashed>>

\* The end of decreaseControllersCounter: when there are no actors the inputs
\* are started, with the first controller.
NoActors ==
    /\ Goes /\ handling.at = "after"
    /\ handling' = Idle
    /\ IF missing.clients = 0 /\ ~Called("clients")
       THEN ClientsStarted ELSE UNCHANGED <<events, started>>
    /\ UNCHANGED <<main, up, function, told, adding, registered, queue, missing,
                   clients, crashed>>

\* decreaseClientsCounter
ClientReported ==
    /\ Takes("clients")
    /\ IF ClientsReady THEN ClientsStarted ELSE UNCHANGED <<events, started>>
    /\ UNCHANGED <<main, up, function, told, adding, registered, handling,
                   clients, crashed>>

-----------------------------------------------------------------------------
ServerThread == \/ ControllerReported \/ StartActor \/ AddClient \/ NoActors
                \/ ClientReported
ManagerThread == \/ CreateService(Manager) \/ ManagerTold
                 \/ StartController \/ RegisterController

Comes(o) == \/ CreateService(o)
            \/ o \in Controllers /\ Report(o, "controllers")
            \/ o \in Members(Actors) /\ Report(o, "clients")

\* Nothing is left to do, or the process is gone: not a deadlock.
Over == \/ ~Goes
        \/ /\ main = "done" /\ adding \in {-1, Len(Order)}
           /\ started \subseteq up /\ started \ (Inputs \cup {Server}) \subseteq told
           /\ queue = << >> /\ handling = Idle

Rest == Over /\ UNCHANGED vars

Next == \/ ConstructManager \/ SetFunction
        \/ ManagerThread
        \/ ServerThread
        \/ \E o \in Objects \ {Manager} : Comes(o)
        \/ Rest

Spec == Init /\ [][Next]_vars

\* Every thread goes on, the main thread too.
FairSpec ==
    /\ Spec
    /\ WF_vars(ConstructManager) /\ WF_vars(SetFunction)
    /\ WF_vars(ManagerThread) /\ WF_vars(ServerThread)
    /\ \A o \in Objects \ {Manager} : WF_vars(Comes(o))

-----------------------------------------------------------------------------
(* Properties *)

TypeOK ==
    /\ main \in {"construct", "function", "done"}
    /\ started \subseteq Objects /\ up \subseteq started /\ told \subseteq up
    /\ function \in BOOLEAN
    /\ adding \in -1 .. Len(Order)
    /\ registered \subseteq Controllers
    /\ queue \in Seq({"controllers", "clients"})
    /\ handling \in [at : {"idle", "start", "add", "after"}, n : 0 .. Len(Actors) + 1]
    /\ missing \in [{"controllers", "clients"} -> Nat]
    /\ clients \subseteq Members(Actors)
    /\ events \in Seq({"controllers", "clients"})
    /\ crashed \in {"no", "service", "controller"}

\* No actor has a thread before every controller is up and all but the last one
\* are registered (controllerStarted starts the actors).
ActorsAfterControllers ==
    started \cap Members(Actors) # {} =>
        /\ Controllers \subseteq told
        /\ Members(SubSeq(Order, 1, Len(Order) - 1)) \subseteq registered

\* No input takes a request before all actors run and can be found as clients
\* (clientsStarted; server.h: inputs are "started after actors").
InputsLast ==
    started \cap Inputs # {} =>
        /\ Controllers \cup Members(Actors) \subseteq told
        /\ clients = Members(Actors)
        /\ events = << "controllers", "clients" >>

\* The default controller is there when the default workflow is added to it,
\* whichever thread is faster.
DefaultRegistered == crashed # "controller"

\* Once the manager has called controllersManagerStarted the server comes up
\* whole, if its own io_service was there in time.
ComesUp == adding >= 0 ~> (crashed = "service" \/ Inputs \subseteq up)

\* A server that is started comes up (server.h: startServer "will trigger Server
\* start, starting controllers manager and clients managers").
Starts == <>(crashed = "service" \/ Inputs \subseteq up)

=============================================================================
