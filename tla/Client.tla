------------------------------- MODULE Client -------------------------------
(***************************************************************************)
(* An actor, the client manager that knows it, and the ways in and out:    *)
(* service/client.cpp, service/actor.cpp, service/client_manager.cpp, the  *)
(* dispatch of service/controller_manager.cpp, ActiveObject::terminate and *)
(* Server::stopServer.                                                     *)
(*                                                                         *)
(* Four threads meet here: the actor's own, one of the controller          *)
(* manager's pool (it holds that manager's mutex from the first line of    *)
(* perform to the last, so one at a time does anything), the client        *)
(* manager's, and the thread that stops the server.  No lock protects the  *)
(* two books of a client.  The workflows behind the controllers are module *)
(* Exchange's matter: here a session is open until it answers or is        *)
(* interrupted.                                                            *)
(***************************************************************************)
EXTENDS Integers, Sequences, FiniteSets

CONSTANTS
    Outgoing,  \* ids of the requests the actor publishes
    Incoming,  \* ids of the requests that are sent to the actor
    Back,      \* identifier of a request's reply address: of the session it wakes
    Root,      \* the request_id an incoming request carries, its own or inherited
    Wants,     \* target of a request's reply address, a function
    Ends,      \* how a request may end: kinds of answer, a function
    Habits     \* what actors do besides: sets of "looks" and "beats"

Ids == Outgoing \cup Incoming

ASSUME ClientAssumption ==
    /\ Outgoing \subseteq Nat /\ Incoming \subseteq Nat
    /\ Outgoing \cap Incoming = {}
    /\ Back \in [Ids -> Nat] /\ Root \in [Incoming -> Nat]
    /\ Wants \in [Ids -> {"Reply", "DefaultAction", "NoReply"}]
    /\ Ends \in [Outgoing -> SUBSET {"Reply", "Error"}]
    /\ Habits \subseteq SUBSET {"looks", "beats"}

\* Identifiers are uuids that targets draw.  An action that waits for the answer of
\* a client gives its request the identifier of the session it works for as reply
\* address (action.cpp:420): that of one of the actor's requests, or of another
\* workflow's.  What the actor publishes has a reply address of its own, or is its
\* own reply address.  No request is answered under the name of another one that
\* goes the same way.
ASSUME IdentifiersAssumption ==
    /\ \A x \in Outgoing : Back[x] \in Outgoing => Back[x] = x
    /\ \A x \in Incoming : Back[x] \in Incoming => Back[x] = x

\* A message of request id: the request itself, an answer, an interruption.
Message == [id : Ids, kind : {"DefaultAction", "Reply", "Error", "Interrupt"}]

VARIABLES
    habit,     \* what this actor does
    status,    \* Client::status
    received,  \* Client::receivedRequests, by id
    sent,      \* Client::sentRequests, by id
    actor,     \* where the actor's thread is
    halted,    \* the active objects whose io_service is stopped
    queue,     \* Actor::pending_requests
    known,     \* whether the actor is in ClientManager::clients
    posted,    \* requests posted to the ControllerManager
    pool,      \* what the thread of its pool does, and with which message
    checker,   \* where the client manager's thread is
    armed,     \* the timer of the client manager has not fired yet
    walk,      \* what internalStatusChanged has still to visit
    main,      \* how far stopServer is
    session,   \* the workflow behind each request
    due,       \* history: open when a disconnection began, not interrupted yet
    crashed    \* an iterator was used after its entry was erased

books   == <<received, sent>>
client  == <<status, books, walk>>
threads == <<actor, pool, checker, main, halted>>
vars    == <<habit, client, threads, queue, known, posted, armed, session,
             due, crashed>>

Nothing == 0
Live    == ~crashed /\ main # "done"
Msg(x, kind) == [id |-> x, kind |-> kind]
Free         == [at |-> "free", msg |-> Msg(Nothing, "none")]

Init ==
    /\ habit \in Habits
    /\ status = "Disconnected"
    /\ received = {} /\ sent = {} /\ walk = {}
    /\ actor = "begin" /\ pool = Free
    /\ checker = "loop" /\ main = "run" /\ halted = {}
    /\ queue = << >> /\ known = "no" /\ posted = {} /\ armed = TRUE
    /\ session = [x \in Ids |-> "none"]
    /\ due = {} /\ crashed = FALSE

-----------------------------------------------------------------------------
(* The mutexes of the two managers, as far as they are held over a step. *)

\* Mutant: ClientManager::stopped takes the mutex, as checkClients does.
ClientsHeldStopping == checker \in {"check", "kick", "join", "stop", "stopjoin"}

\* checkClients holds the client manager's mutex, stopped does not.
ClientsHeld == checker \in {"check", "kick", "join"}

\* ControllerManager::perform holds its manager's mutex.
ControllersHeld == pool # Free

-----------------------------------------------------------------------------
(* The books. *)

\* A request whose answer is still expected.
Expects(x) == Wants[x] # "NoReply"

\* receiveNewRequest books only who asked for a Reply by name, before
\* doReceiveRequest turns the reply address into one.
BooksReceived(x) == Wants[x] = "Reply"

\* Mutant: the first answer empties the book.
ReceivedAfterClears(x, kind) == IF kind = "Reply" THEN {} ELSE received

\* sendRequest: a reply is looked up by its own identifier, which is that of
\* the reply address; an error leaves the book alone.
ReceivedAfter(x, kind) == IF kind = "Reply" THEN received \ {Back[x]} ELSE received

\* sendRequest books a request from inside.
SentWith(x) == IF Expects(x) THEN sent \cup {x} ELSE sent

\* receiveNewRequest: a reply is looked up by request id and erased by identifier.
\* What an action waits for bears the request id of the request it serves
\* (action.cpp:424), which is not booked here, and stays in the book.
SentAfter(x) == IF Root[x] \in sent THEN sent \ {Back[x]} ELSE sent

\* The walk has no lock: a new entry may be met, one that goes is not met any
\* more, and if it was the one being visited the iterator is lost.
Walking == checker \in {"kick", "stop"}
Added(x) == walk' \in IF Walking THEN {walk, walk \cup {x}} ELSE {walk}
Gone(xs) == /\ walk' = walk \ xs
            /\ crashed' \in IF Walking /\ xs # {} THEN BOOLEAN ELSE {crashed}

-----------------------------------------------------------------------------
(* The actor's thread. *)

Actor(place) == Live /\ actor = place

\* started: the tests' actor connects itself first.
Connect ==
    /\ Actor("begin")
    /\ status' = "Connected"
    /\ actor' = "loop"
    /\ UNCHANGED <<habit, books, walk, pool, checker, main, halted, queue, known,
                   posted, armed, session, due, crashed>>

\* A handler begins only while the io_service runs.
Handles == Actor("loop") /\ "actor" \notin halted

\* An actor that asks for a controller (tests: getController()->addWorkflow)
\* waits for the controller manager's mutex.
LookUp ==
    /\ Handles /\ "looks" \in habit
    /\ actor' = "look"
    /\ UNCHANGED <<habit, client, pool, checker, main, halted, queue, known,
                   posted, armed, session, due, crashed>>

Found ==
    /\ Actor("look") /\ ~ControllersHeld
    /\ actor' = "loop"
    /\ UNCHANGED <<habit, client, pool, checker, main, halted, queue, known,
                   posted, armed, session, due, crashed>>

\* An actor with a heartbeat of its own waits for it.
ExpectHeartbeat ==
    /\ Handles /\ "beats" \in habit /\ status = "Connected"
    /\ status' = "HeartbeatExpected"
    /\ UNCHANGED <<habit, books, walk, threads, queue, known, posted, armed,
                   session, due, crashed>>

\* publishRequest: booked, then posted (what is posted comes in any order, so
\* that nothing can tell the two apart).
Publish(x) ==
    /\ Handles
    /\ session[x] = "none"
    /\ session' = [session EXCEPT ![x] = "sent"]
    /\ IF BooksReceived(x) THEN received' = received \cup {x} /\ Added(x)
       ELSE UNCHANGED <<received, walk>>
    /\ posted' = posted \cup {Msg(x, "DefaultAction")}
    /\ UNCHANGED <<habit, status, sent, threads, queue, known, armed, due,
                   crashed>>

\* newRequestReceived.  A request may be answered (receiveNewRequest with a
\* reply) or not: replyError builds a reply and sends nothing.
Handle ==
    /\ Handles /\ queue # << >>
    /\ queue' = Tail(queue)
    /\ LET m == Head(queue)  x == m.id
       IN  \/ /\ m.kind = "DefaultAction" /\ Expects(x)
              /\ sent' = SentAfter(x)
              /\ Gone(sent \ SentAfter(x))
              /\ posted' = posted \cup {Msg(x, "Reply")}
              /\ session' = [session EXCEPT ![x] = "answered"]
           \/ UNCHANGED <<sent, walk, crashed, posted, session>>
    /\ UNCHANGED <<habit, status, received, threads, known, armed, due>>

\* run: the io_service has been stopped.
ActorEnds ==
    /\ Actor("loop") /\ "actor" \in halted
    /\ actor' = "gone"
    /\ UNCHANGED <<habit, client, pool, checker, main, halted, queue, known,
                   posted, armed, session, due, crashed>>

-----------------------------------------------------------------------------
(* ControllerManager::perform and ClientManager::perform, on a thread of   *)
(* the controller manager's pool.                                          *)

\* Mutant: what a message is decides, not whether it bears a client id.
ToClientByKind(m) == m.kind # "Interrupt"

\* The messages that bear a client id: answers to what the actor published (the
\* reply address doReceiveRequest filled in) and requests made for it.
ToClient(m) == IF m.id \in Outgoing THEN m.kind \in {"Reply", "Error"}
                                    ELSE m.kind = "DefaultAction"

\* Whom an interruption reaches: the request, and the session its answer would
\* wake, for it is sent to the reply address (createReply).
Interrupted(x) == IF x \in Incoming THEN {x, Back[x]} ELSE {x}

\* What a request does to the workflow behind it.
Reached(m) ==
    CASE m.kind = "DefaultAction" -> [session EXCEPT ![m.id] = "open"]
      [] m.kind = "Interrupt"     ->
            [y \in Ids |-> IF y \in Interrupted(m.id) /\ session[y] \in {"open", "delivered"}
                           THEN "interrupted" ELSE session[y]]
      [] OTHER                    -> session

Dispatch(m) ==
    /\ Live /\ ~ControllersHeld /\ "controllers" \notin halted
    /\ posted' = posted \ {m}
    /\ IF ToClient(m) THEN pool' = [at |-> "find", msg |-> m] /\ UNCHANGED session
                      ELSE session' = Reached(m) /\ UNCHANGED pool
    /\ UNCHANGED <<habit, client, actor, checker, main, halted, queue, known,
                   armed, due, crashed>>

\* getClient: a message to an unknown client is lost.
GetClient ==
    /\ Live /\ pool.at = "find" /\ ~ClientsHeld
    /\ pool' = IF known = "yes" THEN [pool EXCEPT !.at = "send"] ELSE Free
    /\ UNCHANGED <<habit, client, actor, checker, main, halted, queue, known,
                   posted, armed, session, due, crashed>>

\* sendRequest: the books, then doSendRequest, which an actor never refuses,
\* its thread alive or not.
Send ==
    LET m == pool.msg  x == m.id
    IN  /\ Live /\ pool.at = "send"
        /\ IF m.kind = "DefaultAction"
           THEN /\ sent' = SentWith(x)
                /\ Added(x)
                /\ UNCHANGED <<received, crashed>>
           ELSE /\ received' = ReceivedAfter(x, m.kind)
                /\ Gone(received \ received')
                /\ UNCHANGED sent
        /\ queue' = Append(queue, m)
        /\ session' = [session EXCEPT ![x] = CASE @ = "asked"    -> "delivered"
                                               [] @ = "answered" -> "closed"
                                               [] OTHER          -> @]
        /\ pool' = Free
        /\ UNCHANGED <<habit, status, actor, checker, main, halted, known,
                       posted, armed, due>>

-----------------------------------------------------------------------------
(* The workflows, and the server's thread that starts the actor.           *)

\* A session answers, or fails; nobody is told if the reply is a NoReply.
Answer(x) ==
    /\ Live /\ session[x] = "open"
    /\ session' = [session EXCEPT ![x] = IF Expects(x) THEN "answered" ELSE "closed"]
    /\ \E kind \in Ends[x] :
           posted' = IF Expects(x) THEN posted \cup {Msg(x, kind)} ELSE posted
    /\ UNCHANGED <<habit, client, threads, queue, known, armed, due, crashed>>

\* An action that works for a request y of the actor's sends it one: it waits for the
\* answer in y's session or in that of a workflow called from there, with the
\* request id of y (prepareSyncRequest), or it sends a request just so.
Ask(x) ==
    /\ Live /\ session[x] = "none"
    /\ \E y \in Outgoing : /\ session[y] = "open" /\ Root[x] \in {x, y}
                           /\ Back[x] \in Outgoing => Back[x] = y
    /\ session' = [session EXCEPT ![x] = "asked"]
    /\ posted' = posted \cup {Msg(x, "DefaultAction")}
    /\ UNCHANGED <<habit, client, threads, queue, known, armed, due, crashed>>

\* controllerStarted adds an actor to the manager after having started it.
AddClient ==
    /\ Live /\ known = "no" /\ ~ClientsHeld
    /\ known' = "yes"
    /\ UNCHANGED <<habit, client, threads, queue, posted, armed, session, due,
                   crashed>>

-----------------------------------------------------------------------------
(* The client manager's thread: checkClients, disconnect, stopped.         *)

Checker(place) == Live /\ checker = place

\* The timer is armed once.
Fire ==
    /\ Checker("loop") /\ armed /\ "clients" \notin halted
    /\ armed' = FALSE
    /\ checker' = "check"
    /\ UNCHANGED <<habit, client, actor, pool, main, halted, queue, known, posted,
                   session, due, crashed>>

\* Whose answer the client or a workflow is still to get.
Open(x) == \/ x \in Incoming /\ Expects(x) /\ session[x] = "delivered"
           \/ /\ x \in Outgoing /\ BooksReceived(x)
              /\ session[x] \in {"sent", "open", "answered"}

\* Mutant: only what came in is interrupted.
ToVisitReceived == received

ToVisit == received \cup sent

\* setStatus does something only if the status changes.
BeginDisconnect(place) ==
    /\ status' = "Disconnected"
    /\ walk' = IF status = "Disconnected" THEN {} ELSE ToVisit
    /\ due' = IF status = "Disconnected" THEN {} ELSE {x \in Ids : Open(x)}
    /\ checker' = place

\* checkClients: a client whose heartbeat has timed out is disconnected.
Kick ==
    /\ Checker("check")
    /\ known = "yes" /\ status = "HeartbeatExpected"
    /\ BeginDisconnect("kick")
    /\ UNCHANGED <<habit, books, actor, pool, main, halted, queue, known, posted,
                   armed, session, crashed>>

\* Else it may be asked for a heartbeat, or is connected again (start finds the
\* thread it had, so that this revives nobody).
StatusChecked ==
    CASE known = "yes" /\ status = "Disconnected" -> {"Connected"}
      [] known = "yes" /\ status = "Connected" /\ "beats" \in habit
                                                -> {status, "HeartbeatExpected"}
      [] OTHER                                  -> {status}

Check ==
    /\ Checker("check")
    /\ status' \in StatusChecked
    /\ checker' = "loop"
    /\ UNCHANGED <<habit, books, walk, actor, pool, main, halted, queue, known,
                   posted, armed, session, due, crashed>>

\* stopped: every client is disconnected.
Stopped ==
    /\ Checker("loop") /\ "clients" \in halted
    /\ IF known = "yes" THEN BeginDisconnect("stop")
       ELSE checker' = "gone" /\ UNCHANGED <<status, walk, due>>
    /\ UNCHANGED <<habit, books, actor, pool, main, halted, queue, known, posted,
                   armed, session, crashed>>

\* internalStatusChanged: one entry of a book.
Interrupt(x) ==
    /\ Live /\ Walking /\ x \in walk
    /\ walk' = walk \ {x}
    /\ due' = due \ {x}
    /\ posted' = posted \cup {Msg(x, "Interrupt")}
    /\ UNCHANGED <<habit, status, books, threads, queue, known, armed, session,
                   crashed>>

\* Actor::disconnect goes on with terminate, which stops the actor's io_service
\* and joins its thread.
Terminate ==
    /\ Live /\ Walking /\ walk = {}
    /\ halted' = halted \cup {"actor"}
    /\ checker' = IF checker = "kick" THEN "join" ELSE "stopjoin"
    /\ UNCHANGED <<habit, client, actor, pool, main, queue, known, posted, armed,
                   session, due, crashed>>

\* After a check the client is removed or kept, after the stop all are removed.
Joined ==
    /\ checker \in {"join", "stopjoin"} /\ Actor("gone")
    /\ due' = {}
    /\ known' \in IF checker = "join" THEN {known, "removed"} ELSE {"removed"}
    /\ checker' = IF checker = "join" THEN "loop" ELSE "gone"
    /\ UNCHANGED <<habit, client, actor, pool, main, halted, queue, posted, armed,
                   session, crashed>>

-----------------------------------------------------------------------------
(* Server::stopServer, on a thread of its own: stop takes the mutex of the *)
(* object it stops, terminate joins its threads.                           *)

\* The server is told to stop.
CallStop ==
    /\ Live /\ main = "run"
    /\ main' = "told"
    /\ UNCHANGED <<habit, client, actor, pool, checker, halted, queue, known,
                   posted, armed, session, due, crashed>>

Stops(from, to, object) ==
    /\ Live /\ main = from
    /\ main' = to
    /\ halted' = halted \cup {object}
    /\ UNCHANGED <<habit, client, actor, pool, checker, queue, known, posted,
                   armed, session, due, crashed>>

StopClients     == ~ClientsHeld /\ Stops("told", "clients", "clients")
StopControllers == /\ checker = "gone" /\ ~ControllersHeld
                   /\ Stops("clients", "controllers", "controllers")

\* With the pool at rest the controllers and the server follow.
StopEnds ==
    /\ ~ControllersHeld
    /\ Stops("controllers", "done", "controllers")

-----------------------------------------------------------------------------
ActorThread == \/ Connect \/ LookUp \/ Found \/ ExpectHeartbeat \/ Handle
               \/ ActorEnds
               \/ \E x \in Outgoing : Publish(x)
PoolThread  == GetClient \/ Send \/ \E m \in posted : Dispatch(m)
CheckThread == \/ Fire \/ Kick \/ Check \/ Stopped \/ Terminate \/ Joined
               \/ \E x \in Ids : Interrupt(x)
Stopping    == StopClients \/ StopControllers \/ StopEnds

\* checkClients, under the client manager's mutex, joins an actor that waits for the
\* controller manager's, whose holder waits for the client manager's.
CircularWait == checker = "join" /\ actor = "look" /\ pool.at = "find"

\* The server has stopped, the process is gone, or its threads wait in a circle.
Rest == (~Live \/ CircularWait) /\ UNCHANGED vars

Next == \/ ActorThread \/ PoolThread \/ CheckThread
        \/ \E x \in Outgoing : Answer(x)
        \/ \E x \in Incoming : Ask(x)
        \/ AddClient
        \/ CallStop \/ Stopping
        \/ Rest

Spec == Init /\ [][Next]_vars

\* Each thread goes on; nothing makes anybody send anything or call stopServer.
FairSpec ==
    /\ Spec
    /\ WF_vars(Connect) /\ SF_vars(Found)
    /\ WF_vars(Handle) /\ WF_vars(ActorEnds)
    /\ WF_vars(GetClient \/ Send)
    /\ WF_vars(CheckThread) /\ SF_vars(Stopping)

-----------------------------------------------------------------------------
(* Properties *)

ForClient == [id : Outgoing, kind : {"Reply", "Error"}]
                \cup [id : Incoming, kind : {"DefaultAction"}]

\* Types, and which way a message in the actor's queue or in a pool's hands goes:
\* only answers to what the actor published and requests made for it.
TypeOK ==
    /\ habit \in Habits
    /\ status \in {"Connected", "HeartbeatExpected", "Disconnected"}
    /\ received \subseteq Outgoing /\ sent \subseteq Incoming
    /\ walk \subseteq Ids
    /\ actor \in {"begin", "loop", "look", "gone"}
    /\ pool \in {Free} \cup [at : {"find", "send"}, msg : ForClient]
    /\ checker \in {"loop", "check", "kick", "join", "stop", "stopjoin", "gone"}
    /\ main \in {"run", "told", "clients", "controllers", "done"}
    /\ halted \subseteq {"actor", "clients", "controllers"}
    /\ queue \in Seq(ForClient)
    /\ known \in {"no", "yes", "removed"} /\ armed \in BOOLEAN
    /\ posted \subseteq Message
    /\ session \in [Ids -> {"none", "sent", "asked", "delivered", "open", "answered",
                            "closed", "interrupted"}]
    /\ due \subseteq Ids
    /\ crashed \in BOOLEAN

\* Every request somebody still waits for is in its book, so that a
\* disconnection would find it (client.h: clients "get to know what request
\* they emitted outside and which request they sent processing here").
OpenBooked == \A x \in Ids : Open(x) => x \in received \cup sent

\* When a disconnection has ended, the requests that were open when it began
\* have been interrupted, but for those that were answered meanwhile,
\* whatever the actor and the controller manager's pool did to the books
\* (client.h: a client that is disconnected "interrupts all requests").
DisconnectionInterrupts ==
    (~crashed /\ ~Walking) => \A x \in due : ~Open(x)

\* A server that is told to stop does, from the wait for the client manager's mutex
\* on, unless the one circle of waiting closes that the code has: the thread that
\* joins the actor, the actor that looks up a controller and the pool that looks
\* for a client (Server::stopServer).
StopReturns == main # "run" ~> main = "done" \/ crashed \/ CircularWait

=============================================================================
