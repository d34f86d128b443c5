---------------------------- MODULE ClientProofs ----------------------------
(***************************************************************************)
(* What Client promises for every number of requests, whichever way each   *)
(* of them is answered, and every interleaving of the four threads.        *)
(***************************************************************************)
EXTENDS Client, TLAPS

LEMMA Constants ==
    /\ Outgoing \cap Incoming = {} /\ Outgoing \subseteq Ids /\ Incoming \subseteq Ids
    /\ \A x \in Outgoing : Ends[x] \subseteq {"Reply", "Error"}
  BY ClientAssumption DEF ClientAssumption, Ids

LEMMA PostedDisjoint ==
    ASSUME NEW x, NEW kind
    PROVE  /\ Msg(x, kind).id = x
           /\ Msg(x, kind).kind = kind
  BY DEF Msg

-----------------------------------------------------------------------------
(* Types *)

LEMMA InitType == Init => TypeOK
<1> SUFFICES ASSUME Init PROVE TypeOK
  OBVIOUS
<1>1. queue \in Seq(ForClient)
  BY DEF Init
<1> QED BY <1>1 DEF Init, TypeOK, Free

\* The actor's own thread.
LEMMA ActorKeepsType ==
    ASSUME TypeOK, ActorThread
    PROVE  TypeOK'
<1> USE Constants
<1>1. CASE Connect
  BY <1>1 DEF TypeOK, Connect, Actor, books
<1>2. CASE LookUp
  BY <1>2 DEF TypeOK, LookUp, client, books
<1>3. CASE Found
  BY <1>3 DEF TypeOK, Found, client, books
<1>4. CASE ExpectHeartbeat
  BY <1>4 DEF TypeOK, ExpectHeartbeat, books, threads
<1>5. CASE Handle
  <2>1. Head(queue) \in ForClient /\ Tail(queue) \in Seq(ForClient)
    BY <1>5 DEF TypeOK, Handle
  <2> DEFINE x == Head(queue).id
  <2>2. x \in Ids
    BY <2>1 DEF ForClient
  <2>3. CASE /\ sent' = SentAfter(x)
             /\ Gone(sent \ SentAfter(x))
             /\ posted' = posted \cup {Msg(x, "Reply")}
             /\ session' = [session EXCEPT ![x] = "answered"]
    <3>1. sent' \subseteq Incoming
      BY <2>3 DEF SentAfter, TypeOK
    <3>2. walk' \subseteq Ids /\ crashed' \in BOOLEAN
      BY <2>3 DEF Gone, TypeOK
    <3>3. posted' \subseteq Message
      BY <2>2, <2>3 DEF TypeOK, Message, Msg
    <3>4. session' \in [Ids -> {"none", "sent", "asked", "delivered", "open",
                               "answered", "closed", "interrupted"}]
      BY <2>2, <2>3 DEF TypeOK
    <3> QED BY <1>5, <2>1, <3>1, <3>2, <3>3, <3>4 DEF TypeOK, Handle, threads
  <2>4. CASE UNCHANGED <<sent, walk, crashed, posted, session>>
    BY <1>5, <2>1, <2>4 DEF TypeOK, Handle, threads
  <2> QED BY <1>5, <2>3, <2>4 DEF Handle
<1>6. CASE ActorEnds
  BY <1>6 DEF TypeOK, ActorEnds, client, books
<1>7. ASSUME NEW x \in Outgoing, Publish(x)
      PROVE  TypeOK'
  <2>1. received' \subseteq Outgoing /\ walk' \subseteq Ids
    BY <1>7 DEF TypeOK, Publish, Added
  <2>2. posted' \subseteq Message
    BY <1>7 DEF TypeOK, Publish, Message, Msg
  <2>3. session' \in [Ids -> {"none", "sent", "asked", "delivered", "open",
                             "answered", "closed", "interrupted"}]
    BY <1>7 DEF TypeOK, Publish
  <2> QED BY <1>7, <2>1, <2>2, <2>3 DEF TypeOK, Publish, threads
<1> QED BY <1>1, <1>2, <1>3, <1>4, <1>5, <1>6, <1>7 DEF ActorThread

\* The thread of the controller manager's pool.
LEMMA ToClientIsForClient ==
    ASSUME NEW m \in Message, ToClient(m)
    PROVE  m \in ForClient
<1>1. CASE m.id \in Outgoing
  BY <1>1 DEF Message, ToClient, ForClient
<1>2. CASE m.id \notin Outgoing
  BY <1>2 DEF Message, ToClient, ForClient, Ids
<1> QED BY <1>1, <1>2

LEMMA PoolKeepsType ==
    ASSUME TypeOK, PoolThread
    PROVE  TypeOK'
<1> USE Constants
<1>1. CASE GetClient
  <2>1. pool' \in {Free} \cup [at : {"find", "send"}, msg : ForClient]
    <3>1. pool \in [at : {"find", "send"}, msg : ForClient]
      BY <1>1 DEF TypeOK, GetClient, Free
    <3>2. pool' = Free \/ pool' = [pool EXCEPT !.at = "send"]
      BY <1>1 DEF GetClient
    <3>3. [pool EXCEPT !.at = "send"] \in [at : {"find", "send"}, msg : ForClient]
      BY <3>1
    <3> QED BY <3>2, <3>3
  <2> QED BY <1>1, <2>1 DEF TypeOK, GetClient, client, books
<1>2. CASE Send
  <2> DEFINE x == pool.msg.id
  <2>1. pool.msg \in ForClient
    BY <1>2 DEF TypeOK, Send, Free
  <2>2. x \in Ids /\ (pool.msg.kind = "DefaultAction" => x \in Incoming)
    BY <2>1 DEF ForClient
  <2>3. sent' \subseteq Incoming /\ received' \subseteq Outgoing
    BY <1>2, <2>2 DEF TypeOK, Send, SentWith, ReceivedAfter
  <2>4. walk' \subseteq Ids /\ crashed' \in BOOLEAN
    BY <1>2, <2>2 DEF TypeOK, Send, Added, Gone
  <2>5. queue' \in Seq(ForClient)
    BY <1>2, <2>1 DEF TypeOK, Send
  <2>6. session' \in [Ids -> {"none", "sent", "asked", "delivered", "open",
                             "answered", "closed", "interrupted"}]
    BY <1>2, <2>2 DEF TypeOK, Send
  <2>7. pool' = Free
    BY <1>2 DEF Send
  <2> QED BY <1>2, <2>3, <2>4, <2>5, <2>6, <2>7 DEF TypeOK, Send
<1>3. ASSUME NEW m \in posted, Dispatch(m)
      PROVE  TypeOK'
  <2>1. m \in Message
    BY DEF TypeOK
  <2>2. CASE ToClient(m)
    <3>1. m \in ForClient
      BY <2>1, <2>2, ToClientIsForClient
    <3>2. pool' = [at |-> "find", msg |-> m] /\ UNCHANGED session
      BY <1>3, <2>2 DEF Dispatch
    <3> QED BY <1>3, <3>1, <3>2 DEF TypeOK, Dispatch, client, books
  <2>3. CASE ~ToClient(m)
    <3>1. session' = Reached(m) /\ UNCHANGED pool
      BY <1>3, <2>3 DEF Dispatch
    <3>2. Reached(m) \in [Ids -> {"none", "sent", "asked", "delivered", "open",
                                 "answered", "closed", "interrupted"}]
      BY <2>1 DEF TypeOK, Reached, Message
    <3> QED BY <1>3, <3>1, <3>2 DEF TypeOK, Dispatch, client, books
  <2> QED BY <2>2, <2>3
<1> QED BY <1>1, <1>2, <1>3 DEF PoolThread

\* The client manager's thread.
LEMMA CheckerKeepsType ==
    ASSUME TypeOK, CheckThread
    PROVE  TypeOK'
<1> USE Constants
<1>1. CASE Fire
  BY <1>1 DEF TypeOK, Fire, client, books
<1>2. ASSUME NEW place \in {"kick", "stop"}, BeginDisconnect(place),
             UNCHANGED <<habit, books, actor, pool, main, halted, queue, known, posted,
                         armed, session, crashed>>
      PROVE  TypeOK'
  BY <1>2 DEF TypeOK, BeginDisconnect, ToVisit, books
<1>3. CASE Kick
  BY <1>2, <1>3 DEF Kick
<1>4. CASE Check
  <2>1. status' \in {"Connected", "HeartbeatExpected", "Disconnected"}
    BY <1>4 DEF TypeOK, Check, StatusChecked
  <2> QED BY <1>4, <2>1 DEF TypeOK, Check, books
<1>5. CASE Stopped
  <2>1. CASE known = "yes"
    BY <1>2, <1>5, <2>1 DEF Stopped
  <2>2. CASE known # "yes"
    BY <1>5, <2>2 DEF TypeOK, Stopped, books
  <2> QED BY <2>1, <2>2
<1>6. CASE Terminate
  BY <1>6 DEF TypeOK, Terminate, client, books
<1>7. CASE Joined
  BY <1>7 DEF TypeOK, Joined, client, books
<1>8. ASSUME NEW x \in Ids, Interrupt(x)
      PROVE  TypeOK'
  <2>1. posted' \subseteq Message
    BY <1>8 DEF TypeOK, Interrupt, Message, Msg
  <2> QED BY <1>8, <2>1 DEF TypeOK, Interrupt, books, threads
<1> QED BY <1>1, <1>3, <1>4, <1>5, <1>6, <1>7, <1>8 DEF CheckThread

\* Everybody else.
LEMMA OthersKeepType ==
    ASSUME TypeOK,
           \/ \E x \in Outgoing : Answer(x)
           \/ \E x \in Incoming : Ask(x)
           \/ AddClient \/ CallStop \/ Stopping
    PROVE  TypeOK'
<1> USE Constants
<1>1. ASSUME NEW x \in Outgoing, Answer(x)
      PROVE  TypeOK'
  <2>1. posted' \subseteq Message
    BY <1>1 DEF TypeOK, Answer, Message, Msg
  <2>2. session' \in [Ids -> {"none", "sent", "asked", "delivered", "open",
                             "answered", "closed", "interrupted"}]
    BY <1>1 DEF TypeOK, Answer
  <2> QED BY <1>1, <2>1, <2>2 DEF TypeOK, Answer, client, books, threads
<1>2. ASSUME NEW x \in Incoming, Ask(x)
      PROVE  TypeOK'
  <2>1. posted' \subseteq Message
    BY <1>2 DEF TypeOK, Ask, Message, Msg
  <2>2. session' \in [Ids -> {"none", "sent", "asked", "delivered", "open",
                             "answered", "closed", "interrupted"}]
    BY <1>2 DEF TypeOK, Ask
  <2> QED BY <1>2, <2>1, <2>2 DEF TypeOK, Ask, client, books, threads
<1>3. CASE AddClient
  BY <1>3 DEF TypeOK, AddClient, client, books, threads
<1>4. CASE CallStop
  BY <1>4 DEF TypeOK, CallStop, client, books
<1>5. CASE Stopping
  <2>1. PICK from \in {"told", "clients", "controllers"},
             to \in {"clients", "controllers", "done"},
             object \in {"clients", "controllers"} : Stops(from, to, object)
    BY <1>5 DEF StopClients, Stopping, StopControllers, StopEnds
  <2> QED BY <2>1 DEF TypeOK, Stops, client, books
<1> QED BY <1>1, <1>2, <1>3, <1>4, <1>5

LEMMA NextKeepsType == TypeOK /\ [Next]_vars => TypeOK'
<1>1. ASSUME TypeOK, UNCHANGED vars PROVE TypeOK'
  BY <1>1 DEF TypeOK, vars, client, books, threads
<1> QED BY <1>1, ActorKeepsType, PoolKeepsType, CheckerKeepsType, OthersKeepType
       DEF Next, Rest

\* Every state has the types the code declares, and every message in the actor's
\* queue or in a pool's hands is one that is meant for the actor (the client_id
\* test of ControllerManager::perform).
THEOREM ClientTypesOK == Spec => []TypeOK
  BY InitType, NextKeepsType, PTL DEF Spec

-----------------------------------------------------------------------------
(* The books and the disconnection.                                        *)

\* A request of the actor's is not begun while it is posted, and answered once its
\* answer is on its way.
MessagesAgree ==
    \A x \in Outgoing :
        /\ Msg(x, "DefaultAction") \in posted => session[x] = "sent"
        /\ \A kind \in {"Reply", "Error"} :
            Msg(x, kind) \in posted \/ pool.msg = Msg(x, kind)
                => session[x] \in {"answered", "closed"}

\* What was open when a disconnection began never opens again.
DueBegun == \A x \in due : /\ session[x] # "none"
                           /\ x \in Incoming => session[x] # "asked"

\* While the books are walked, what is still open is still to be visited.
WalkMeets == Walking /\ ~crashed => \A x \in due : Open(x) => x \in walk

ClientInv ==
    /\ TypeOK
    /\ MessagesAgree
    /\ OpenBooked
    /\ DueBegun
    /\ WalkMeets
    /\ DisconnectionInterrupts

LEMMA InitInv == Init => ClientInv
<1> SUFFICES ASSUME Init PROVE ClientInv
  OBVIOUS
<1>1. TypeOK
  BY InitType
<1>2. \A x \in Ids : ~Open(x)
  BY DEF Init, Open
<1>3. MessagesAgree
  BY PostedDisjoint DEF Init, MessagesAgree, Free, Msg
<1> QED BY <1>1, <1>2, <1>3
       DEF Init, ClientInv, OpenBooked, DueBegun, WalkMeets, DisconnectionInterrupts, Walking

\* Steps that touch neither books nor sessions nor the walk.
LEMMA QuietKeepsInv ==
    ASSUME ClientInv, TypeOK',
           UNCHANGED <<received, sent, walk, posted, session, due, crashed>>,
           pool'.msg \in {pool.msg, Free.msg},
           Walking' <=> Walking
    PROVE  ClientInv'
<1>1. MessagesAgree'
  <2>1. \A x \in Outgoing, kind \in {"Reply", "Error"} : Free.msg # Msg(x, kind)
    BY DEF Free, Msg
  <2> QED BY <2>1 DEF ClientInv, MessagesAgree
<1>2. \A x \in Ids : Open(x)' <=> Open(x)
  BY DEF Open
<1>3. OpenBooked'
  BY <1>2 DEF ClientInv, OpenBooked
<1>4. due \subseteq Ids
  BY DEF ClientInv, TypeOK
<1>5. DueBegun' /\ WalkMeets' /\ DisconnectionInterrupts'
  BY <1>2, <1>4 DEF ClientInv, DueBegun, WalkMeets, DisconnectionInterrupts
<1> QED BY <1>1, <1>3, <1>5 DEF ClientInv

\* A step on one request x: whatever else is open was, and is booked and to be
\* visited as before; if x was due, it does not open again.
LEMMA OneKeepsInv ==
    ASSUME ClientInv, TypeOK', MessagesAgree',
           NEW x \in Ids,
           \A y \in Ids \ {x} : session'[y] = session[y],
           \A y \in Ids \ {x} : y \in received \cup sent => y \in received' \cup sent',
           \A y \in Ids \ {x} : y \in walk => y \in walk',
           due' \subseteq due,
           x \in due' => /\ session'[x] # "none"
                         /\ x \in Incoming => session'[x] # "asked",
           Open(x)' => x \in received' \cup sent',
           x \in due' /\ Open(x)' => Open(x) /\ (x \in walk => x \in walk'),
           Walking' <=> Walking,
           ~crashed
    PROVE  ClientInv'
<1> USE DEF ClientInv
<1>1. \A y \in Ids \ {x} : Open(y)' <=> Open(y)
  BY DEF Open
<1>2. OpenBooked'
  BY <1>1 DEF OpenBooked
<1>3. due \subseteq Ids
  BY DEF TypeOK
<1>4. DueBegun'
  BY <1>3 DEF DueBegun
<1>5. WalkMeets'
  BY <1>1, <1>3 DEF WalkMeets
<1>6. DisconnectionInterrupts'
  BY <1>1, <1>3 DEF DisconnectionInterrupts
<1> QED BY <1>2, <1>4, <1>5, <1>6

\* A step that does no more than interrupt sessions.
LEMMA InterruptedKeepsInv ==
    ASSUME ClientInv, TypeOK',
           UNCHANGED <<received, sent, walk, due, crashed, pool, checker>>,
           posted' \subseteq posted,
           \A y \in Ids : \/ session'[y] = session[y]
                          \/ session[y] \in {"open", "delivered"} /\ session'[y] = "interrupted"
    PROVE  ClientInv'
<1> USE DEF ClientInv
<1>1. MessagesAgree'
  <2>1. SUFFICES ASSUME NEW x \in Outgoing
                 PROVE  /\ Msg(x, "DefaultAction") \in posted' => session'[x] = "sent"
                        /\ \A kind \in {"Reply", "Error"} :
                            Msg(x, kind) \in posted' \/ pool.msg = Msg(x, kind)
                                => session'[x] \in {"answered", "closed"}
    BY DEF MessagesAgree
  <2>2. /\ Msg(x, "DefaultAction") \in posted => session[x] = "sent"
        /\ \A kind \in {"Reply", "Error"} :
            Msg(x, kind) \in posted \/ pool.msg = Msg(x, kind)
                => session[x] \in {"answered", "closed"}
    BY DEF MessagesAgree
  <2> QED BY <2>2, Constants
<1>2. \A x \in Ids : Open(x)' => Open(x)
  BY DEF Open
<1>3. due \subseteq Ids
  BY DEF TypeOK
<1>4. OpenBooked' /\ WalkMeets' /\ DisconnectionInterrupts'
  BY <1>2, <1>3 DEF OpenBooked, WalkMeets, DisconnectionInterrupts, Walking
<1>5. DueBegun'
  BY <1>3 DEF DueBegun
<1> QED BY <1>1, <1>4, <1>5

LEMMA ActorKeepsInv ==
    ASSUME ClientInv, ActorThread
    PROVE  ClientInv'
<1> USE Constants
<1>0. TypeOK /\ TypeOK' /\ ~crashed
  BY ActorKeepsType
     DEF ClientInv, ActorThread, Connect, LookUp, Found, ExpectHeartbeat, Handle, Handles,
         ActorEnds, Publish, Actor, Live
<1>1. CASE Connect \/ LookUp \/ Found \/ ExpectHeartbeat \/ ActorEnds
  <2>1. UNCHANGED <<received, sent, walk, posted, session, due, crashed, pool, checker>>
    BY <1>1 DEF Connect, LookUp, Found, ExpectHeartbeat, ActorEnds, client, books, threads
  <2> QED BY <1>0, <2>1, QuietKeepsInv DEF Walking
<1>2. CASE Handle
  <2>3. PICK m \in ForClient : m = Head(queue)
    BY <1>0, <1>2 DEF TypeOK, Handle
  <2> DEFINE x == m.id
  <2>0. UNCHANGED <<received, pool, checker, due>>
    BY <1>2 DEF Handle, threads
  <2>1. CASE UNCHANGED <<sent, walk, crashed, posted, session>>
    BY <1>0, <2>0, <2>1, QuietKeepsInv DEF Walking
  <2>2. CASE /\ m.kind = "DefaultAction" /\ Expects(x)
             /\ sent' = SentAfter(x)
             /\ Gone(sent \ SentAfter(x))
             /\ posted' = posted \cup {Msg(x, "Reply")}
             /\ session' = [session EXCEPT ![x] = "answered"]
    <3>2. x \in Incoming /\ x \in Ids /\ x \notin Outgoing
      BY <2>2 DEF ForClient
    <3>3. \A y \in Ids : y # x => session'[y] = session[y]
      BY <1>0, <2>2, <3>2 DEF TypeOK
    <3>4. session'[x] = "answered"
      BY <1>0, <2>2, <3>2 DEF TypeOK
    <3>5. MessagesAgree'
      <4>1. ASSUME NEW y \in Outgoing, NEW kind
            PROVE  Msg(y, kind) \in posted' <=> Msg(y, kind) \in posted
        BY <2>2, <3>2 DEF Msg
      <4> QED BY <2>0, <3>2, <3>3, <4>1 DEF ClientInv, MessagesAgree
    <3>6. \A y \in Ids \ {x} : y \in sent => y \in sent'
      <4>1. \A y \in sent \ sent' : y = Back[x]
        BY <2>2 DEF SentAfter
      <4>2. sent \subseteq Incoming
        BY <1>0 DEF TypeOK
      <4> QED BY <3>2, <4>1, <4>2, IdentifiersAssumption DEF IdentifiersAssumption
    <3>7. \A y \in Ids \ {x} : y \in walk => y \in walk'
      <4>1. walk' = walk \ (sent \ sent')
        BY <2>2 DEF Gone
      <4> QED BY <3>6, <4>1
    <3>8. ~Open(x)'
      BY <3>2, <3>4 DEF Open
    <3> QED BY <1>0, <2>0, <3>2, <3>3, <3>4, <3>5, <3>6, <3>7, <3>8, OneKeepsInv DEF Walking
  <2> QED BY <1>2, <2>1, <2>2, <2>3 DEF Handle
<1>3. ASSUME NEW x \in Outgoing, Publish(x)
      PROVE  ClientInv'
  <2>0. UNCHANGED <<sent, pool, checker, due, crashed>> /\ x \in Ids /\ x \notin Incoming
    BY <1>3 DEF Publish, threads
  <2>1. /\ \A y \in Ids : y # x => session'[y] = session[y]
        /\ session'[x] = "sent" /\ session[x] = "none"
    BY <1>0, <1>3, <2>0 DEF TypeOK, Publish
  <2>2. MessagesAgree'
    <3>1. ASSUME NEW y \in Outgoing, NEW kind, y # x \/ kind # "DefaultAction"
          PROVE  Msg(y, kind) \in posted' <=> Msg(y, kind) \in posted
      BY <1>3, <3>1 DEF Publish, Msg
    <3> QED BY <2>0, <2>1, <3>1 DEF ClientInv, MessagesAgree
  <2>3. received \subseteq received' /\ walk \subseteq walk'
    BY <1>3 DEF Publish, Added
  <2>4. x \notin due
    BY <2>1 DEF ClientInv, DueBegun
  <2>5. Open(x)' => x \in received'
    BY <1>3, <2>0 DEF Open, Publish
  <2> QED BY <1>0, <2>0, <2>1, <2>2, <2>3, <2>4, <2>5, OneKeepsInv DEF Walking
<1> QED BY <1>1, <1>2, <1>3 DEF ActorThread

LEMMA PoolKeepsInv ==
    ASSUME ClientInv, PoolThread
    PROVE  ClientInv'
<1> USE Constants
<1>0. TypeOK /\ TypeOK' /\ ~crashed
  BY PoolKeepsType DEF ClientInv, PoolThread, GetClient, Send, Dispatch, Live
<1>1. CASE GetClient
  <2>1. UNCHANGED <<received, sent, walk, posted, session, due, crashed, checker>>
    BY <1>1 DEF GetClient, client, books
  <2>2. pool'.msg \in {pool.msg, Free.msg}
    <3>1. pool \in [at : {"find", "send"}, msg : ForClient]
      BY <1>0, <1>1 DEF TypeOK, GetClient, Free
    <3>2. pool' = Free \/ pool' = [pool EXCEPT !.at = "send"]
      BY <1>1 DEF GetClient
    <3> QED BY <3>1, <3>2
  <2> QED BY <1>0, <2>1, <2>2, QuietKeepsInv DEF Walking
<1>2. CASE Send
  <2>1. PICK m \in ForClient : m = pool.msg
    BY <1>0, <1>2 DEF TypeOK, Send, Free
  <2> DEFINE x == m.id
  <2>0. UNCHANGED <<posted, checker, due>> /\ pool' = Free
    BY <1>2 DEF Send
  <2>2. x \in Ids /\ m = Msg(x, m.kind)
    BY <2>1 DEF ForClient, Msg
  <2>3. \A y \in Ids : y # x => session'[y] = session[y]
    BY <1>0, <1>2, <2>1, <2>2 DEF TypeOK, Send
  <2>4. session'[x] = CASE session[x] = "asked"    -> "delivered"
                        [] session[x] = "answered" -> "closed"
                        [] OTHER                   -> session[x]
    BY <1>0, <1>2, <2>1, <2>2 DEF TypeOK, Send
  <2>5. MessagesAgree'
    <3>1. \A y \in Outgoing, kind \in {"Reply", "Error"} : Free.msg # Msg(y, kind)
      BY DEF Free, Msg
    <3> QED BY <2>0, <2>1, <2>2, <2>3, <2>4, <3>1 DEF ClientInv, MessagesAgree
  <2>6. CASE m.kind = "DefaultAction"
    <3>1. x \in Incoming /\ x \notin Outgoing
      BY <2>6 DEF ForClient
    <3>2. sent' = SentWith(x) /\ Added(x) /\ UNCHANGED <<received, crashed>>
      BY <1>2, <2>1, <2>6 DEF Send
    <3>3. sent \subseteq sent' /\ walk \subseteq walk'
      BY <3>2 DEF SentWith, Added
    <3>4. Open(x)' => x \in sent'
      BY <3>1, <3>2 DEF Open, SentWith
    <3>5. x \in due => (Open(x)' => Open(x))
      BY <2>4, <3>1 DEF ClientInv, DueBegun, Open
    <3>6. x \in due => session'[x] # "none" /\ session'[x] # "asked"
      BY <2>4, <3>1 DEF ClientInv, DueBegun
    <3> QED BY <1>0, <2>0, <2>2, <2>3, <2>5, <3>1, <3>2, <3>3, <3>4, <3>5, <3>6, OneKeepsInv
           DEF Walking
  <2>7. CASE m.kind # "DefaultAction"
    <3>1. x \in Outgoing /\ x \notin Incoming /\ m.kind \in {"Reply", "Error"}
      BY <2>7 DEF ForClient
    <3>2. /\ received' = ReceivedAfter(x, m.kind)
          /\ Gone(received \ received')
          /\ UNCHANGED sent
      BY <1>2, <2>1, <2>7 DEF Send
    <3>3. session[x] \in {"answered", "closed"}
      BY <2>1, <2>2, <3>1 DEF ClientInv, MessagesAgree
    <3>4. session'[x] = "closed"
      BY <2>4, <3>3
    <3>5. ~Open(x)'
      BY <3>1, <3>4 DEF Open
    <3>6. \A y \in Ids \ {x} : y \in received => y \in received'
      <4>1. \A y \in received \ received' : y = Back[x]
        BY <3>2 DEF ReceivedAfter
      <4>2. received \subseteq Outgoing
        BY <1>0 DEF TypeOK
      <4> QED BY <3>1, <4>1, <4>2, IdentifiersAssumption DEF IdentifiersAssumption
    <3>7. \A y \in Ids \ {x} : y \in walk => y \in walk'
      <4>1. walk' = walk \ (received \ received')
        BY <3>2 DEF Gone
      <4> QED BY <3>6, <4>1
    <3> QED BY <1>0, <2>0, <2>2, <2>3, <2>5, <3>1, <3>2, <3>4, <3>5, <3>6, <3>7, OneKeepsInv
           DEF Walking
  <2> QED BY <2>6, <2>7
<1>3. ASSUME NEW m \in posted, Dispatch(m)
      PROVE  ClientInv'
  <2>0. /\ UNCHANGED <<received, sent, walk, due, crashed, checker>>
        /\ posted' = posted \ {m}
    BY <1>3 DEF Dispatch, client, books
  <2>1. m \in Message /\ m.id \in Ids /\ m = Msg(m.id, m.kind)
    BY <1>0 DEF TypeOK, Message, Msg
  <2>2. CASE ToClient(m)
    <3>1. pool' = [at |-> "find", msg |-> m] /\ UNCHANGED session
      BY <1>3, <2>2 DEF Dispatch
    <3>2. MessagesAgree'
      BY <2>0, <3>1 DEF ClientInv, MessagesAgree
    <3>3. m.id \in due => session[m.id] # "none" /\ (m.id \in Incoming => session[m.id] # "asked")
      BY DEF ClientInv, DueBegun
    <3>4. Open(m.id)' <=> Open(m.id)
      BY <3>1 DEF Open
    <3>5. Open(m.id) => m.id \in received \cup sent
      BY <2>1 DEF ClientInv, OpenBooked
    <3> QED BY <1>0, <2>0, <2>1, <3>1, <3>2, <3>3, <3>4, <3>5, OneKeepsInv DEF Walking
  <2>3. CASE ~ToClient(m)
    <3> DEFINE x == m.id
    <3>1. session' = Reached(m) /\ UNCHANGED pool
      BY <1>3, <2>3 DEF Dispatch
    <3>2. CASE m.kind = "DefaultAction"
      <4>1. x \in Outgoing /\ x \notin Incoming
        BY <2>1, <2>3, <3>2 DEF ToClient, Ids
      <4>2. session[x] = "sent"
        BY <2>1, <3>2, <4>1 DEF ClientInv, MessagesAgree
      <4>3. session'[x] = "open" /\ \A y \in Ids : y # x => session'[y] = session[y]
        BY <1>0, <2>1, <3>1, <3>2 DEF TypeOK, Reached
      <4>4. Msg(x, "DefaultAction") \notin posted'
        BY <2>0, <2>1, <3>2
      <4>5. MessagesAgree'
        BY <2>0, <3>1, <4>2, <4>3, <4>4, Constants DEF ClientInv, MessagesAgree
      <4>6. Open(x)' => Open(x) /\ x \in received \cup sent
        BY <2>1, <4>1, <4>2 DEF ClientInv, OpenBooked, Open
      <4> QED BY <1>0, <2>0, <2>1, <4>1, <4>3, <4>5, <4>6, OneKeepsInv DEF Walking
    <3>3. CASE m.kind # "DefaultAction"
      <4>1. \A y \in Ids : \/ session'[y] = session[y]
                           \/ session[y] \in {"open", "delivered"} /\ session'[y] = "interrupted"
        BY <1>0, <3>1, <3>3 DEF TypeOK, Reached
      <4> QED BY <1>0, <2>0, <3>1, <4>1, InterruptedKeepsInv
    <3> QED BY <3>2, <3>3
  <2> QED BY <2>2, <2>3
<1> QED BY <1>1, <1>2, <1>3 DEF PoolThread

\* The client manager's thread leaves books, sessions and messages in hand alone:
\* what it changes is the walk and what is due.
LEMMA BooksAtRest ==
    ASSUME ClientInv, TypeOK',
           UNCHANGED <<received, sent, posted, session, pool>>
    PROVE  /\ MessagesAgree' /\ OpenBooked'
           /\ \A x \in Ids : Open(x)' <=> Open(x)
<1>1. MessagesAgree'
  BY DEF ClientInv, MessagesAgree
<1>2. \A x \in Ids : Open(x)' <=> Open(x)
  BY DEF Open
<1> QED BY <1>1, <1>2 DEF ClientInv, OpenBooked

\* A disconnection begins with every open request still to be visited.
LEMMA DisconnectKeepsInv ==
    ASSUME ClientInv, TypeOK', NEW place \in {"kick", "stop"}, BeginDisconnect(place),
           UNCHANGED <<received, sent, posted, session, pool>>
    PROVE  ClientInv'
<1>1. MessagesAgree' /\ OpenBooked' /\ \A x \in Ids : Open(x)' <=> Open(x)
  BY BooksAtRest
<1>2. Walking'
  BY DEF BeginDisconnect, Walking
<1>3. CASE status = "Disconnected"
  <2>1. due' = {}
    BY <1>3 DEF BeginDisconnect
  <2> QED BY <1>1, <2>1 DEF ClientInv, DueBegun, WalkMeets, DisconnectionInterrupts
<1>4. CASE status # "Disconnected"
  <2>1. due' = {x \in Ids : Open(x)} /\ walk' = received \cup sent
    BY <1>4 DEF BeginDisconnect, ToVisit
  <2>2. DueBegun'
    BY <2>1, Constants DEF DueBegun, Open
  <2>3. WalkMeets'
    BY <2>1 DEF ClientInv, OpenBooked, WalkMeets
  <2> QED BY <1>1, <1>2, <2>2, <2>3 DEF ClientInv, DisconnectionInterrupts
<1> QED BY <1>3, <1>4

LEMMA CheckerKeepsInv ==
    ASSUME ClientInv, CheckThread
    PROVE  ClientInv'
<1> USE Constants
<1>0. TypeOK /\ TypeOK' /\ ~crashed
  BY CheckerKeepsType
     DEF ClientInv, CheckThread, Fire, Kick, Check, Stopped, Terminate, Joined, Interrupt,
         Checker, Actor, Live
<1>1. CASE Fire \/ Check
  <2>1. UNCHANGED <<received, sent, walk, posted, session, due, crashed, pool>>
    BY <1>1 DEF Fire, Check, client, books
  <2>2. Walking' <=> Walking
    BY <1>1 DEF Fire, Check, Checker, Walking
  <2> QED BY <1>0, <2>1, <2>2, QuietKeepsInv
<1>2. CASE Kick
  BY <1>0, <1>2, DisconnectKeepsInv DEF Kick, books
<1>3. CASE Stopped
  <2>1. CASE known = "yes"
    BY <1>0, <1>3, <2>1, DisconnectKeepsInv DEF Stopped, books
  <2>2. CASE known # "yes"
    <3>1. UNCHANGED <<received, sent, walk, posted, session, due, crashed, pool>>
      BY <1>3, <2>2 DEF Stopped, books
    <3>2. Walking' <=> Walking
      BY <1>3, <2>2 DEF Stopped, Checker, Walking
    <3> QED BY <1>0, <3>1, <3>2, QuietKeepsInv
  <2> QED BY <2>1, <2>2
<1>4. CASE Terminate
  <2>1. /\ UNCHANGED <<received, sent, posted, session, pool, due, crashed>>
        /\ Walking /\ walk = {} /\ ~Walking'
    BY <1>4 DEF Terminate, client, books, Walking
  <2>2. MessagesAgree' /\ OpenBooked' /\ \A x \in Ids : Open(x)' <=> Open(x)
    BY <1>0, <2>1, BooksAtRest
  <2>3. \A x \in due : ~Open(x)
    BY <1>0, <2>1 DEF ClientInv, WalkMeets
  <2>4. DueBegun' /\ WalkMeets'
    BY <2>1 DEF ClientInv, DueBegun, WalkMeets
  <2>5. DisconnectionInterrupts'
    BY <1>0, <2>1, <2>2, <2>3 DEF TypeOK, DisconnectionInterrupts
  <2> QED BY <1>0, <2>2, <2>4, <2>5 DEF ClientInv
<1>5. CASE Joined
  <2>1. UNCHANGED <<received, sent, posted, session, pool>> /\ due' = {}
    BY <1>5 DEF Joined, client, books
  <2>2. MessagesAgree' /\ OpenBooked'
    BY <1>0, <2>1, BooksAtRest
  <2> QED BY <1>0, <2>1, <2>2 DEF ClientInv, DueBegun, WalkMeets, DisconnectionInterrupts
<1>6. ASSUME NEW x \in Ids, Interrupt(x)
      PROVE  ClientInv'
  <2>1. /\ UNCHANGED <<received, sent, session, pool, checker, crashed>>
        /\ walk' = walk \ {x} /\ due' = due \ {x}
    BY <1>6 DEF Interrupt, books, threads
  <2>2. MessagesAgree'
    <3>1. ASSUME NEW y \in Outgoing, NEW kind \in {"DefaultAction", "Reply", "Error"}
          PROVE  Msg(y, kind) \in posted' <=> Msg(y, kind) \in posted
      BY <1>6 DEF Interrupt, Msg
    <3> QED BY <2>1, <3>1 DEF ClientInv, MessagesAgree
  <2>3. Open(x)' => x \in received' \cup sent'
    BY <2>1 DEF ClientInv, OpenBooked, Open
  <2> QED BY <1>0, <2>1, <2>2, <2>3, OneKeepsInv DEF Walking
<1> QED BY <1>1, <1>2, <1>3, <1>4, <1>5, <1>6 DEF CheckThread

LEMMA OthersKeepInv ==
    ASSUME ClientInv,
           \/ \E x \in Outgoing : Answer(x)
           \/ \E x \in Incoming : Ask(x)
           \/ AddClient \/ CallStop \/ Stopping
    PROVE  ClientInv'
<1> USE Constants
<1>0. TypeOK /\ TypeOK' /\ ~crashed
  BY OthersKeepType
     DEF ClientInv, Answer, Ask, AddClient, CallStop, Stopping, StopClients,
         StopControllers, StopEnds, Stops, Live
<1>1. ASSUME NEW x \in Outgoing, Answer(x)
      PROVE  ClientInv'
  <2>0. UNCHANGED <<received, sent, walk, due, crashed, pool, checker>>
        /\ x \in Ids /\ x \notin Incoming /\ session[x] = "open"
    BY <1>1 DEF Answer, client, books, threads
  <2>1. /\ \A y \in Ids : y # x => session'[y] = session[y]
        /\ session'[x] \in {"answered", "closed"}
    BY <1>0, <1>1, <2>0 DEF TypeOK, Answer
  <2>2. PICK kind \in {"Reply", "Error"} : posted' \subseteq posted \cup {Msg(x, kind)}
    BY <1>1 DEF Answer
  <2>3. MessagesAgree'
    <3>1. ASSUME NEW y \in Outgoing, NEW k, y # x \/ k = "DefaultAction"
          PROVE  Msg(y, k) \in posted' => Msg(y, k) \in posted
      BY <2>2, <3>1 DEF Msg
    <3> QED BY <2>0, <2>1, <3>1 DEF ClientInv, MessagesAgree
  <2>4. Open(x)' => Open(x) /\ x \in received' \cup sent'
    BY <2>0, <2>1 DEF ClientInv, OpenBooked, Open
  <2> QED BY <1>0, <2>0, <2>1, <2>3, <2>4, OneKeepsInv DEF Walking
<1>2. ASSUME NEW x \in Incoming, Ask(x)
      PROVE  ClientInv'
  <2>0. UNCHANGED <<received, sent, walk, due, crashed, pool, checker>>
        /\ x \in Ids /\ x \notin Outgoing /\ session[x] = "none"
    BY <1>2 DEF Ask, client, books, threads
  <2>1. /\ \A y \in Ids : y # x => session'[y] = session[y]
        /\ session'[x] = "asked"
    BY <1>0, <1>2, <2>0 DEF TypeOK, Ask
  <2>2. MessagesAgree'
    <3>1. ASSUME NEW y \in Outgoing, NEW k
          PROVE  Msg(y, k) \in posted' <=> Msg(y, k) \in posted
      BY <1>2, <2>0 DEF Ask, Msg
    <3> QED BY <2>0, <2>1, <3>1 DEF ClientInv, MessagesAgree
  <2>3. x \notin due /\ ~Open(x)'
    BY <2>0, <2>1 DEF ClientInv, DueBegun, Open
  <2> QED BY <1>0, <2>0, <2>1, <2>2, <2>3, OneKeepsInv DEF Walking
<1>3. CASE AddClient \/ CallStop \/ Stopping
  <2>1. UNCHANGED <<received, sent, walk, posted, session, due, crashed, pool, checker>>
    BY <1>3 DEF AddClient, CallStop, Stopping, StopClients, StopControllers, StopEnds, Stops,
                client, books, threads
  <2> QED BY <1>0, <2>1, QuietKeepsInv DEF Walking
<1> QED BY <1>1, <1>2, <1>3

LEMMA NextKeepsInv == ClientInv /\ [Next]_vars => ClientInv'
<1>1. ASSUME ClientInv, UNCHANGED vars PROVE ClientInv'
  <2>1. TypeOK'
    BY <1>1, NextKeepsType DEF ClientInv
  <2>2. UNCHANGED <<received, sent, walk, posted, session, due, crashed, pool, checker>>
    BY <1>1 DEF vars, client, books, threads
  <2> QED BY <1>1, <2>1, <2>2, QuietKeepsInv DEF Walking
<1> QED BY <1>1, ActorKeepsInv, PoolKeepsInv, CheckerKeepsInv, OthersKeepInv DEF Next, Rest

LEMMA Invariance == Spec => []ClientInv
  BY InitInv, NextKeepsInv, PTL DEF Spec

\* A request somebody still waits for is in the book of its direction, whichever
\* requests go in and out and whatever the books lose to the answers of others
\* (Client::receiveNewRequest and sendRequest).
THEOREM OpenIsBooked == Spec => []OpenBooked
<1>1. ClientInv => OpenBooked
  BY DEF ClientInv
<1> QED BY <1>1, Invariance, PTL

\* A disconnection that has come to its end has interrupted every request that was
\* open when it began and has not been answered since, though nobody locks the
\* books it walks (Client::internalStatusChanged).
THEOREM InterruptsAll == Spec => []DisconnectionInterrupts
<1>1. ClientInv => DisconnectionInterrupts
  BY DEF ClientInv
<1> QED BY <1>1, Invariance, PTL

=============================================================================
