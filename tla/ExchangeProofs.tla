--------------------------- MODULE ExchangeProofs ---------------------------
(***************************************************************************)
(* What Exchange promises for any number of workflows, threads and         *)
(* requests: the state keeps its type, whoever works in a workflow holds   *)
(* its mutex, and a session runs while one thread works for it.            *)
(***************************************************************************)
EXTENDS Exchange, TLAPS

-----------------------------------------------------------------------------
(* Messages.                                                               *)

\* A request for a workflow, or an error that Refuse sent back to where it came
\* from.
IsQuestion(m) == /\ m.to.wf \in Workflows /\ m.to.kind = "DefaultAction"
                 /\ m.back.kind \in {"Reply", "Error"}
                 /\ m.json <=> m.to.wf \in Temporary
                 /\ m.to.wf \in Temporary => m.back.wf = Outside

IsStatus(m) == /\ m.to.wf \in Workflows \ Temporary /\ m.to.kind = "Status"
               /\ m.back.wf = Outside /\ m.back.kind = "NoReply" /\ ~m.json

IsAnswer(m) == /\ m.to.kind \in {"Reply", "Error"} /\ ~m.json
               /\ m.to.wf # Outside => /\ m.back.wf \in Workflows \ Temporary
                                       /\ m.back.kind = "DefaultAction"

\* What answers a request for a status.
IsVoid(m) == m.to.wf = Outside /\ m.to.kind = "NoReply" /\ ~m.json

Shaped(m) == IsQuestion(m) \/ IsStatus(m) \/ IsAnswer(m) \/ IsVoid(m)

\* What a session may have been opened with.
Opens(m) == IsQuestion(m) \/ IsStatus(m)

LEMMA Constants ==
    /\ Temporary \subseteq Workflows /\ Outside \notin Workflows /\ Nobody \notin Pool
    /\ \A w \in Workflows : Calls[w] \subseteq Workflows \ Temporary
    /\ \A w \in Entries : w \in Workflows
    /\ MaxIds \in Nat /\ MaxAsks \in Nat
    /\ Garbage \subseteq BOOLEAN
<1>1. ExchangeAssumption
  BY ExchangeAssumption
<1> QED BY <1>1 DEF ExchangeAssumption

LEMMA AddressParts ==
    ASSUME NEW m \in Message
    PROVE  /\ m.to \in Address /\ m.back \in Address /\ m.json \in BOOLEAN
           /\ m.to.wf \in Workflows \cup {Outside} /\ m.to.id \in Ids
           /\ m.to.kind \in Kinds /\ m.to.level \in Nat
           /\ m.back.wf \in Workflows \cup {Outside} /\ m.back.id \in Ids
           /\ m.back.kind \in Kinds /\ m.back.level \in Nat
  BY DEF Message, Address

\* The answers to a message.
LEMMA CreateReplyParts ==
    ASSUME NEW m \in Message
    PROVE  /\ CreateReply(m) \in Message
           /\ CreateReply(m).to = m.back /\ CreateReply(m).back = m.to
           /\ CreateReply(m).json = FALSE
  BY AddressParts DEF CreateReply, Message

LEMMA ErrorOfParts ==
    ASSUME NEW m \in Message
    PROVE  /\ ErrorOf(m) \in Message
           /\ ErrorOf(m).to.wf = m.back.wf /\ ErrorOf(m).to.id = m.back.id
           /\ ErrorOf(m).to.level = m.back.level
           /\ ErrorOf(m).to.kind = "Error" /\ ErrorOf(m).back = m.to
           /\ ErrorOf(m).json = FALSE
<1>1. m.back \in Address /\ m.to \in Address
  BY AddressParts
<1>2. PICK a : a = [m.back EXCEPT !.kind = "Error"]
  OBVIOUS
<1>3. a = [wf |-> m.back.wf, id |-> m.back.id, kind |-> "Error", level |-> m.back.level]
  BY <1>1, <1>2 DEF Address
<1>4. /\ a.wf = m.back.wf /\ a.id = m.back.id
      /\ a.level = m.back.level /\ a.kind = "Error"
  BY <1>3
<1>5. a \in Address
  BY <1>3, AddressParts DEF Address, Kinds
<1>6. ErrorOf(m) = [to |-> a, back |-> m.to, json |-> FALSE]
  <2>1. PICK r \in Message : r = CreateReply(m)
    BY CreateReplyParts
  <2>2. ErrorOf(m) = [r EXCEPT !.to.kind = "Error"]
    BY <2>1 DEF ErrorOf
  <2>3. r.to = m.back /\ r = [to |-> m.back, back |-> m.to, json |-> FALSE]
    BY <2>1, CreateReplyParts DEF CreateReply
  <2>4. [r EXCEPT !.to.kind = "Error"] = [r EXCEPT !.to = a]
    BY <1>2, <2>1, <2>3 DEF Message
  <2> QED BY <2>2, <2>3, <2>4
<1> QED BY <1>1, <1>4, <1>5, <1>6 DEF Message

LEMMA AnswersShaped ==
    ASSUME NEW m \in Message, Opens(m)
    PROVE  Shaped(CreateReply(m)) /\ Shaped(ErrorOf(m))
<1>1. Shaped(CreateReply(m))
  BY CreateReplyParts DEF Opens, Shaped, IsQuestion, IsStatus, IsAnswer, IsVoid
<1>2. Shaped(ErrorOf(m))
  BY ErrorOfParts DEF Opens, Shaped, IsQuestion, IsStatus, IsAnswer, IsVoid
<1> QED BY <1>1, <1>2

LEMMA NewRequestShaped ==
    ASSUME made \in 0 .. MaxIds, made < MaxIds, NEW w \in Workflows,
           NEW back \in Address, back.kind = "Reply",
           w \in Temporary => back.wf = Outside
    PROVE  /\ NewRequest(w, back) \in Message /\ Shaped(NewRequest(w, back))
           /\ NewRequest(w, back).back = back
           /\ NewRequest(w, back).to.wf = w
           /\ NewRequest(w, back).to.kind = "DefaultAction"
<1>1. made + 1 \in Ids
  BY Constants DEF Ids
<1>2. To(w, made + 1, "DefaultAction", 0) \in Address
  BY <1>1 DEF To, Address, Kinds
<1>3. NewRequest(w, back) \in Message /\ NewRequest(w, back).back = back
      /\ NewRequest(w, back).to = To(w, made + 1, "DefaultAction", 0)
      /\ NewRequest(w, back).json = (w \in Temporary)
  BY <1>2 DEF NewRequest, Message
<1>4. /\ To(w, made + 1, "DefaultAction", 0).wf = w
      /\ To(w, made + 1, "DefaultAction", 0).kind = "DefaultAction"
  BY DEF To
<1> QED BY <1>3, <1>4 DEF Shaped, IsQuestion

-----------------------------------------------------------------------------
(* Threads and sessions.                                                   *)

Working == {"run", "fail", "wait", "die"}

\* The thread works for the session, or has a request for it.
On(t, w, i) == msg[t].to.wf = w /\ msg[t].to.id = i

Shapes ==
    /\ \A m \in posted : Shaped(m)
    /\ \A m \in tasks : Shaped(m) /\ m.to.wf \in Workflows
    /\ \A t \in Pool : pc[t] # "idle" =>
        msg[t] \in Message /\ Shaped(msg[t]) /\ msg[t].to.wf \in Workflows
    /\ \A w \in Workflows, i \in Ids : Has(w, i) =>
        /\ original[w][i] \in Message /\ Opens(original[w][i])
        /\ original[w][i].to.wf = w /\ original[w][i].to.id = i

\* Whoever works in a workflow holds its mutex.
Locks == \A t \in Pool : pc[t] \in Working \cup {"leave"} => lock[msg[t].to.wf] = t

\* A session runs while a thread works for it, and is active while one has not
\* left it.
Sessions ==
    /\ \A t \in Pool : pc[t] \in Working => phase[msg[t].to.wf][msg[t].to.id] = "running"
    /\ \A t \in Pool : pc[t] = "leave" =>
        phase[msg[t].to.wf][msg[t].to.id] \in {"waiting", "over"}
    /\ \A w \in Workflows, i \in Ids :
        /\ phase[w][i] = "running" => \E t \in Pool : pc[t] \in Working /\ On(t, w, i)
        /\ active[w][i] => \/ phase[w][i] = "kept"
                           \/ \E t \in Pool : pc[t] \in Working \cup {"leave"} /\ On(t, w, i)
        /\ phase[w][i] = "kept" => active[w][i]

SoundInv == TypeOK /\ Shapes /\ Locks /\ Sessions

\* The request a thread has.
LEMMA Taken ==
    ASSUME SoundInv, NEW t \in Pool, pc[t] # "idle"
    PROVE  /\ msg[t] \in Message /\ Shaped(msg[t])
           /\ msg[t].to.wf \in Workflows /\ msg[t].to.id \in Ids
<1>1. msg[t] \in Message /\ Shaped(msg[t]) /\ msg[t].to.wf \in Workflows
  BY DEF SoundInv, Shapes
<1> QED BY <1>1, AddressParts

\* No two threads work in a workflow.
LEMMA Alone ==
    ASSUME SoundInv, NEW t \in Pool, NEW u \in Pool,
           pc[t] \in Working \cup {"leave"}, pc[u] \in Working \cup {"leave"},
           msg[t].to.wf = msg[u].to.wf
    PROVE  t = u
  BY DEF SoundInv, Locks

\* None does in one whose mutex is free.
LEMMA FreeMeans ==
    ASSUME SoundInv, NEW w \in Workflows, Free(w)
    PROVE  /\ \A t \in Pool : pc[t] \in Working \cup {"leave"} => msg[t].to.wf # w
           /\ \A i \in Ids : /\ phase[w][i] # "running"
                             /\ active[w][i] => phase[w][i] = "kept"
<1>1. \A t \in Pool : pc[t] \in Working \cup {"leave"} => msg[t].to.wf # w
  BY Constants DEF SoundInv, Locks, Free
<1> QED BY <1>1 DEF SoundInv, Sessions, On

LEMMA SetParts ==
    ASSUME NEW S, NEW f \in [Workflows -> [Ids -> S]],
           NEW w \in Workflows, NEW i \in Ids, NEW v \in S
    PROVE  /\ Set(f, w, i, v) \in [Workflows -> [Ids -> S]]
           /\ Set(f, w, i, v)[w][i] = v
           /\ \A c \in Workflows, j \in Ids :
                ~(c = w /\ j = i) => Set(f, w, i, v)[c][j] = f[c][j]
  BY DEF Set

\* Steps of the clients and of the ControllerManager.
LEMMA WiresKeep ==
    ASSUME SoundInv, TypeOK', UNCHANGED <<threads, table>>,
           \A m \in posted' : Shaped(m),
           \A m \in tasks' : Shaped(m) /\ m.to.wf \in Workflows
    PROVE  SoundInv'
<1>1. UNCHANGED <<lock, pc, msg, phase, level, active, original, queued>>
  BY DEF threads, table
<1>2. Shapes'
  BY <1>1 DEF SoundInv, Shapes, Has
<1>3. Locks' /\ Sessions'
  BY <1>1 DEF SoundInv, Locks, Sessions, On
<1> QED BY <1>2, <1>3 DEF SoundInv

LEMMA AskSound ==
    ASSUME SoundInv, NEW w \in Workflows, Ask(w)
    PROVE  SoundInv'
<1> DEFINE back == To(Outside, made + 1, "Reply", 0)
<1>1. /\ made \in 0 .. MaxIds /\ made < MaxIds /\ made' = made + 1
      /\ posted' = posted \cup {NewRequest(w, back)}
      /\ UNCHANGED <<asks, tasks, known, threads, table, answers>>
  BY DEF Ask, SoundInv, TypeOK
<1>2. back \in Address /\ back.kind = "Reply" /\ back.wf = Outside
  <2>1. made + 1 \in Ids
    BY <1>1, Constants DEF Ids
  <2> QED BY <2>1 DEF To, Address, Kinds
<1>3. NewRequest(w, back) \in Message /\ Shaped(NewRequest(w, back))
  BY <1>1, <1>2, NewRequestShaped
<1>4. made' \in 0 .. MaxIds
  BY <1>1, Constants DEF SoundInv, TypeOK
<1>5. TypeOK'
  BY <1>1, <1>3, <1>4 DEF SoundInv, TypeOK, threads, table
<1> QED BY <1>1, <1>3, <1>5, WiresKeep DEF SoundInv, Shapes

LEMMA InquireSound ==
    ASSUME SoundInv, NEW w \in Workflows, NEW i \in Ids, Inquire(w, i)
    PROVE  SoundInv'
<1>1. PICK s : /\ s = [to |-> To(w, i, "Status", 0), back |-> To(Outside, i, "NoReply", 0),
                       json |-> FALSE]
               /\ posted' = posted \cup {s}
               /\ asks < MaxAsks /\ asks' = asks + 1 /\ w \notin Temporary
               /\ UNCHANGED <<made, tasks, known, threads, table, answers>>
  BY DEF Inquire
<1>2. /\ To(w, i, "Status", 0) \in Address /\ To(Outside, i, "NoReply", 0) \in Address
      /\ To(w, i, "Status", 0).wf = w /\ To(w, i, "Status", 0).kind = "Status"
      /\ To(Outside, i, "NoReply", 0).wf = Outside
      /\ To(Outside, i, "NoReply", 0).kind = "NoReply"
  BY DEF To, Address, Kinds
<1>3. s \in Message /\ Shaped(s)
  BY <1>1, <1>2 DEF Message, Shaped, IsStatus
<1>4. asks' \in 0 .. MaxAsks
  BY <1>1, Constants DEF SoundInv, TypeOK
<1>5. TypeOK'
  BY <1>1, <1>3, <1>4 DEF SoundInv, TypeOK, threads, table
<1> QED BY <1>1, <1>3, <1>5, WiresKeep DEF SoundInv, Shapes

LEMMA DispatchSound ==
    ASSUME SoundInv, NEW m \in posted,
           Abort(m) \/ Deliver(m) \/ Route(m) \/ Register(m) \/ Misfit(m) \/ Refuse(m)
    PROVE  SoundInv'
<1>1. m \in Message /\ Shaped(m)
  BY DEF SoundInv, TypeOK, Shapes
<1>2. CASE Abort(m)
  <2>1. TypeOK'
    BY <1>2 DEF Abort, SoundInv, TypeOK, threads, table
  <2> QED BY <1>2, <2>1, WiresKeep DEF Abort, SoundInv, Shapes
<1>3. CASE Deliver(m)
  <2>1. m.to.kind \in {"Reply", "Error"} /\ m.to.id \in Ids
    BY <1>1, <1>3, Constants, AddressParts
       DEF Deliver, Shaped, IsQuestion, IsStatus, IsAnswer, IsVoid
  <2>2. answers' \in [Ids -> Seq({"Reply", "Error"})]
    <3>1. answers \in [Ids -> Seq({"Reply", "Error"})]
      BY DEF SoundInv, TypeOK
    <3>2. Append(answers[m.to.id], m.to.kind) \in Seq({"Reply", "Error"})
      BY <2>1, <3>1
    <3> QED BY <1>3, <2>1, <3>1, <3>2 DEF Deliver
  <2>3. TypeOK'
    BY <1>3, <2>2 DEF Deliver, SoundInv, TypeOK, threads, table
  <2> QED BY <1>3, <2>3, WiresKeep DEF Deliver, SoundInv, Shapes
<1>4. CASE Route(m) \/ Register(m)
  <2>1. m.to.wf \in Workflows
    BY <1>4, Constants DEF Route, Register, SoundInv, TypeOK
  <2>2. /\ tasks' = tasks \cup {m} /\ posted' = posted \ {m}
        /\ known' = known \cup {m.to.wf}
        /\ UNCHANGED <<made, asks, threads, table, answers>>
    BY <1>4 DEF Route, Register
  <2>3. TypeOK'
    BY <1>1, <2>1, <2>2 DEF SoundInv, TypeOK, threads, table
  <2> QED BY <1>1, <2>1, <2>2, <2>3, WiresKeep DEF SoundInv, Shapes
<1>5. CASE Misfit(m) \/ Refuse(m)
  <2>1. /\ posted' = (posted \ {m}) \cup {CreateReply(m)}
        /\ UNCHANGED <<made, asks, tasks, known, threads, table, answers>>
        /\ m.to.wf \in Temporary
    BY <1>5 DEF Misfit, Refuse
  <2>2. Shaped(CreateReply(m))
    <3>1. CASE Opens(m)
      BY <1>1, <3>1, AnswersShaped
    <3>2. CASE IsAnswer(m)
      <4>1. /\ m.to.wf # Outside /\ m.back.wf \in Workflows \ Temporary
            /\ m.back.kind = "DefaultAction" /\ m.to.kind \in {"Reply", "Error"}
        BY <2>1, <3>2, Constants DEF IsAnswer
      <4>2. IsQuestion(CreateReply(m))
        BY <1>1, <4>1, CreateReplyParts DEF IsQuestion
      <4> QED BY <4>2 DEF Shaped
    <3> QED BY <1>1, <2>1, <3>1, <3>2, Constants DEF Shaped, Opens, IsVoid
  <2>3. TypeOK'
    BY <1>1, <2>1, CreateReplyParts DEF SoundInv, TypeOK, threads, table
  <2> QED BY <2>1, <2>2, <2>3, WiresKeep DEF SoundInv, Shapes
<1> QED BY <1>2, <1>3, <1>4, <1>5

\* Where a thread goes.
LEMMA GotoParts ==
    ASSUME TypeOK, NEW t \in Pool, NEW l \in {"idle", "blocked", "leave"} \cup Working,
           Goto(t, l)
    PROVE  /\ pc' \in [Pool -> {"idle", "blocked", "run", "fail", "wait", "die", "leave"}]
           /\ pc'[t] = l /\ \A u \in Pool : u # t => pc'[u] = pc[u]
  BY DEF TypeOK, Goto, Working

LEMMA ReturnParts ==
    ASSUME TypeOK, NEW t \in Pool, Return(t)
    PROVE  /\ pc' \in [Pool -> {"idle", "blocked", "run", "fail", "wait", "die", "leave"}]
           /\ pc'[t] = "idle" /\ \A u \in Pool : u # t => pc'[u] = pc[u] /\ msg'[u] = msg[u]
           /\ msg' \in [Pool -> Message \cup {Unset}]
<1>1. Goto(t, "idle") /\ msg' = [msg EXCEPT ![t] = Unset]
  BY DEF Return
<1> QED BY <1>1, GotoParts DEF TypeOK

LEMMA LockParts ==
    ASSUME TypeOK, NEW t \in Pool \cup {Nobody}, NEW w \in Workflows,
           lock' = [lock EXCEPT ![w] = t]
    PROVE  /\ lock' \in [Workflows -> Pool \cup {Nobody}]
           /\ lock'[w] = t /\ \A c \in Workflows : c # w => lock'[c] = lock[c]
  BY DEF TypeOK

LEMMA TakeSound ==
    ASSUME SoundInv, NEW t \in Pool, Take(t)
    PROVE  SoundInv'
<1>1. PICK m \in tasks : tasks' = tasks \ {m} /\ msg' = [msg EXCEPT ![t] = m]
  BY DEF Take
<1>2. /\ pc[t] = "idle" /\ Goto(t, "blocked")
      /\ UNCHANGED <<made, asks, posted, known, lock, phase, level, active, original,
                     queued, answers>>
  BY DEF Take, table
<1>3. /\ pc' \in [Pool -> {"idle", "blocked", "run", "fail", "wait", "die", "leave"}]
      /\ pc'[t] = "blocked" /\ \A u \in Pool : u # t => pc'[u] = pc[u]
  BY <1>2, GotoParts DEF SoundInv
<1>4. m \in Message /\ Shaped(m) /\ m.to.wf \in Workflows
  BY DEF SoundInv, TypeOK, Shapes
<1>5. /\ msg' \in [Pool -> Message \cup {Unset}] /\ msg'[t] = m
      /\ \A u \in Pool : u # t => msg'[u] = msg[u]
  BY <1>1, <1>4 DEF SoundInv, TypeOK
<1>6. TypeOK'
  BY <1>1, <1>2, <1>3, <1>5 DEF SoundInv, TypeOK
<1>7. Shapes'
  BY <1>1, <1>2, <1>3, <1>4, <1>5 DEF SoundInv, Shapes, Has
<1>8. \A u \in Pool : pc'[u] \in Working \cup {"leave"} =>
        u # t /\ pc[u] \in Working \cup {"leave"}
  BY <1>3 DEF Working
<1>9. Locks'
  BY <1>2, <1>3, <1>5, <1>8 DEF SoundInv, Locks
<1>10. Sessions'
  BY <1>2, <1>3, <1>5, <1>8 DEF SoundInv, Sessions, On, Working
<1> QED BY <1>6, <1>7, <1>9, <1>10 DEF SoundInv

\* A step of thread t for session i of workflow w, in which no other thread
\* works.
LEMMA StepSound ==
    ASSUME SoundInv, NEW t \in Pool, NEW w \in Workflows, NEW i \in Ids,
           \A u \in Pool : u # t => pc'[u] = pc[u] /\ msg'[u] = msg[u],
           \A u \in Pool : u # t /\ pc[u] \in Working \cup {"leave"} => msg[u].to.wf # w,
           \A c \in Workflows, j \in Ids : ~(c = w /\ j = i) =>
                phase'[c][j] = phase[c][j] /\ active'[c][j] = active[c][j],
           \A c \in Workflows : c # w => lock'[c] = lock[c],
           pc[t] \in Working \cup {"leave"} => On(t, w, i),
           pc'[t] \in Working \cup {"leave"} => On(t, w, i)' /\ lock'[w] = t,
           pc'[t] \in Working <=> phase'[w][i] = "running",
           pc'[t] = "leave" => phase'[w][i] \in {"waiting", "over"},
           active'[w][i] => phase'[w][i] = "kept" \/ pc'[t] \in Working \cup {"leave"},
           phase'[w][i] = "kept" => active'[w][i]
    PROVE  Locks' /\ Sessions'
<1>1. \A u \in Pool : u # t /\ pc'[u] \in Working \cup {"leave"} =>
        /\ pc[u] \in Working \cup {"leave"} /\ msg[u].to.wf # w
        /\ msg[u].to.wf \in Workflows /\ msg[u].to.id \in Ids
  BY Taken DEF Working
<1>2. Locks'
  BY <1>1 DEF SoundInv, Locks, Working, On
<1>3. ASSUME NEW u \in Pool
      PROVE  /\ pc'[u] \in Working => phase'[msg'[u].to.wf][msg'[u].to.id] = "running"
             /\ pc'[u] = "leave" => phase'[msg'[u].to.wf][msg'[u].to.id] \in {"waiting", "over"}
  <2>1. CASE u = t
    BY <2>1 DEF On
  <2>2. CASE u # t
    BY <1>1, <2>2 DEF SoundInv, Sessions
  <2> QED BY <2>1, <2>2
<1>4. \A u \in Pool, c \in Workflows, j \in Ids : u # t => (On(u, c, j)' <=> On(u, c, j))
  BY DEF On
<1>5. ASSUME NEW c \in Workflows, NEW j \in Ids, ~(c = w /\ j = i)
      PROVE  /\ phase'[c][j] = "running" => \E u \in Pool : pc'[u] \in Working /\ On(u, c, j)'
             /\ active'[c][j] => \/ phase'[c][j] = "kept"
                                 \/ \E u \in Pool : pc'[u] \in Working \cup {"leave"} /\ On(u, c, j)'
             /\ phase'[c][j] = "kept" => active'[c][j]
  <2>1. ASSUME NEW u \in Pool, pc[u] \in Working \cup {"leave"}, On(u, c, j)
        PROVE  u # t /\ pc'[u] = pc[u] /\ On(u, c, j)'
    BY <1>4, <1>5, <2>1 DEF On
  <2>2. phase'[c][j] = phase[c][j] /\ active'[c][j] = active[c][j]
    BY <1>5
  <2> QED BY <2>1, <2>2 DEF SoundInv, Sessions
<1>6. /\ phase'[w][i] = "running" => \E u \in Pool : pc'[u] \in Working /\ On(u, w, i)'
      /\ active'[w][i] => \/ phase'[w][i] = "kept"
                          \/ \E u \in Pool : pc'[u] \in Working \cup {"leave"} /\ On(u, w, i)'
  OBVIOUS
<1>7. Sessions'
  BY <1>3, <1>5, <1>6 DEF Sessions
<1> QED BY <1>2, <1>7

\* A session that is opened is no thread's yet.
LEMMA OpenSound ==
    ASSUME SoundInv, NEW t \in Pool, Open(t)
    PROVE  SoundInv'
<1>1. PICK m \in Message, w \in Workflows, i \in Ids :
        m = msg[t] /\ w = m.to.wf /\ i = m.to.id /\ Shaped(m)
  BY Taken DEF Open
<1>2. /\ pc[t] = "blocked" /\ Free(w) /\ CanExecute(m) /\ ~Has(w, i)
      /\ original' = Set(original, w, i, m) /\ active' = Set(active, w, i, TRUE)
      /\ UNCHANGED <<made, asks, posted, tasks, known, level, answers>>
  BY <1>1 DEF Open, wires
<1>3. PICK first \in {"kept", "running"}, held \in SUBSET Message :
        /\ phase' = Set(phase, w, i, first) /\ queued' = Set(queued, w, i, held)
        /\ \/ first = "kept" /\ Return(t) /\ lock' = lock
           \/ first = "running" /\ Goto(t, "run") /\ msg' = msg /\ lock' = [lock EXCEPT ![w] = t]
  <2>1. PICK garbage \in Garbage :
          /\ phase' = Set(phase, w, i, IF garbage THEN "kept" ELSE "running")
          /\ queued' = Set(queued, w, i, IF garbage THEN {m} ELSE {})
          /\ lock' = IF garbage THEN lock ELSE [lock EXCEPT ![w] = t]
          /\ IF garbage THEN Return(t) ELSE Goto(t, "run") /\ UNCHANGED msg
    BY <1>1 DEF Open
  <2>2. CASE garbage
    <3>1. {m} \in SUBSET Message
      OBVIOUS
    <3> QED BY <2>1, <2>2, <3>1
  <2>3. CASE ~garbage
    <3>1. {} \in SUBSET Message
      OBVIOUS
    <3> QED BY <2>1, <2>3, <3>1
  <2> QED BY <2>2, <2>3
<1>4. Opens(m)
  BY <1>1, <1>2 DEF CanExecute, Shaped, Opens, IsAnswer, IsVoid
<1>5. TypeOK
  BY DEF SoundInv
<1>6. /\ phase' \in [Workflows -> [Ids -> Phases]] /\ phase'[w][i] = first
      /\ \A c \in Workflows, j \in Ids : ~(c = w /\ j = i) => phase'[c][j] = phase[c][j]
  BY <1>3, <1>5 DEF TypeOK, Set, Phases
<1>7. /\ original' \in [Workflows -> [Ids -> Message \cup {Unset}]] /\ original'[w][i] = m
      /\ \A c \in Workflows, j \in Ids : ~(c = w /\ j = i) => original'[c][j] = original[c][j]
  BY <1>2, <1>5 DEF TypeOK, Set
<1>8. /\ active' \in [Workflows -> [Ids -> BOOLEAN]] /\ active'[w][i] = TRUE
      /\ \A c \in Workflows, j \in Ids : ~(c = w /\ j = i) => active'[c][j] = active[c][j]
  BY <1>2, <1>5 DEF TypeOK, Set
<1>9. queued' \in [Workflows -> [Ids -> SUBSET Message]]
  BY <1>3, <1>5 DEF TypeOK, Set
<1>10. /\ pc' \in [Pool -> {"idle", "blocked", "run", "fail", "wait", "die", "leave"}]
       /\ msg' \in [Pool -> Message \cup {Unset}]
       /\ \A u \in Pool : u # t => pc'[u] = pc[u] /\ msg'[u] = msg[u]
       /\ lock' \in [Workflows -> Pool \cup {Nobody}]
       /\ \A c \in Workflows : c # w => lock'[c] = lock[c]
       /\ \/ first = "kept" /\ pc'[t] = "idle"
          \/ first = "running" /\ pc'[t] = "run" /\ msg'[t] = m /\ lock'[w] = t
  <2>1. CASE first = "kept"
    BY <1>3, <1>5, <2>1, ReturnParts DEF TypeOK
  <2>2. CASE first = "running"
    BY <1>1, <1>3, <1>5, <2>2, GotoParts, LockParts DEF TypeOK, Working
  <2> QED BY <2>1, <2>2
<1>11. TypeOK'
  BY <1>2, <1>5, <1>6, <1>7, <1>8, <1>9, <1>10 DEF TypeOK
<1>12. Shapes'
  <2>1. \A u \in Pool : pc'[u] # "idle" =>
            msg'[u] \in Message /\ Shaped(msg'[u]) /\ msg'[u].to.wf \in Workflows
    BY <1>1, <1>10 DEF SoundInv, Shapes
  <2>2. ASSUME NEW c \in Workflows, NEW j \in Ids, phase'[c][j] # "none"
        PROVE  /\ original'[c][j] \in Message /\ Opens(original'[c][j])
               /\ original'[c][j].to.wf = c /\ original'[c][j].to.id = j
    BY <1>1, <1>4, <1>6, <1>7, <2>2 DEF SoundInv, Shapes, Has
  <2> QED BY <1>2, <2>1, <2>2 DEF SoundInv, Shapes, Has
<1>13. \A u \in Pool : pc[u] \in Working \cup {"leave"} => msg[u].to.wf # w
  BY <1>2, FreeMeans
<1>14. pc[t] \notin Working \cup {"leave"}
  BY <1>2 DEF Working
<1>15. Locks' /\ Sessions'
  <2>1. /\ pc'[t] \in Working \cup {"leave"} => On(t, w, i)' /\ lock'[w] = t
        /\ pc'[t] \in Working <=> phase'[w][i] = "running"
        /\ pc'[t] # "leave"
        /\ active'[w][i] /\ (phase'[w][i] = "kept" \/ pc'[t] \in Working)
    BY <1>1, <1>6, <1>8, <1>10 DEF On, Working
  <2>2. /\ \A u \in Pool : u # t => pc'[u] = pc[u] /\ msg'[u] = msg[u]
        /\ \A u \in Pool : u # t /\ pc[u] \in Working \cup {"leave"} => msg[u].to.wf # w
        /\ \A c \in Workflows, j \in Ids : ~(c = w /\ j = i) =>
                phase'[c][j] = phase[c][j] /\ active'[c][j] = active[c][j]
        /\ \A c \in Workflows : c # w => lock'[c] = lock[c]
    BY <1>6, <1>8, <1>10, <1>13
  <2>3. /\ pc[t] \in Working \cup {"leave"} => On(t, w, i)
        /\ pc'[t] = "leave" => phase'[w][i] \in {"waiting", "over"}
        /\ active'[w][i] => phase'[w][i] = "kept" \/ pc'[t] \in Working \cup {"leave"}
        /\ phase'[w][i] = "kept" => active'[w][i]
    BY <1>14, <2>1
  <2> QED BY <2>1, <2>2, <2>3, StepSound
<1> QED BY <1>11, <1>12, <1>15 DEF SoundInv

\* perform returns without having entered a session.
LEMMA ReturnSound ==
    ASSUME SoundInv, NEW t \in Pool, pc[t] = "blocked", Return(t), TypeOK',
           \A m \in posted' : Shaped(m),
           UNCHANGED <<tasks, lock, phase, active, original>>
    PROVE  SoundInv'
<1>1. /\ pc'[t] = "idle" /\ \A u \in Pool : u # t => pc'[u] = pc[u] /\ msg'[u] = msg[u]
  BY ReturnParts DEF SoundInv
<1>2. Shapes'
  BY <1>1 DEF SoundInv, Shapes, Has
<1>3. \A u \in Pool : pc'[u] \in Working \cup {"leave"} <=> u # t /\ pc[u] \in Working \cup {"leave"}
  BY <1>1 DEF Working
<1>4. Locks'
  BY <1>1, <1>3 DEF SoundInv, Locks
<1>5. Sessions'
  <2>1. \A u \in Pool : (pc'[u] \in Working => u # t) /\ (pc'[u] = "leave" => u # t)
    BY <1>1 DEF Working
  <2>2. \A u \in Pool : pc[u] \in Working \cup {"leave"} => u # t
    BY DEF Working
  <2> QED BY <1>1, <2>1, <2>2 DEF SoundInv, Sessions, On
<1> QED BY <1>2, <1>4, <1>5 DEF SoundInv

LEMMA KeepSound ==
    ASSUME SoundInv, NEW t \in Pool, Keep(t)
    PROVE  SoundInv'
<1>1. PICK m \in Message, w \in Workflows, i \in Ids :
        m = msg[t] /\ w = m.to.wf /\ i = m.to.id
  BY Taken DEF Keep
<1>2. /\ pc[t] = "blocked" /\ Return(t)
      /\ queued' = Set(queued, w, i, queued[w][i] \cup {m})
      /\ UNCHANGED <<made, asks, posted, tasks, known, lock, phase, level, active,
                     original, answers>>
  BY <1>1 DEF Keep, wires
<1>3. TypeOK
  BY DEF SoundInv
<1>4. queued' \in [Workflows -> [Ids -> SUBSET Message]]
  <2>1. queued[w][i] \cup {m} \in SUBSET Message
    BY <1>3 DEF TypeOK
  <2> QED BY <1>2, <1>3, <2>1 DEF TypeOK, Set
<1>5. TypeOK'
  BY <1>2, <1>3, <1>4, ReturnParts DEF TypeOK
<1> QED BY <1>2, <1>5, ReturnSound DEF SoundInv, Shapes

LEMMA RejectSound ==
    ASSUME SoundInv, NEW t \in Pool, Reject(t)
    PROVE  SoundInv'
<1>1. PICK m \in Message :
        /\ m = msg[t] /\ Shaped(m) /\ m.to.wf \in Workflows
        /\ pc[t] = "blocked" /\ Return(t) /\ ~CanExecute(m)
        /\ posted' = posted \cup {CreateReply(m)}
        /\ UNCHANGED <<made, asks, tasks, known, lock, table, answers>>
  BY Taken DEF Reject
<1>2. Shaped(CreateReply(m))
  <2>1. CASE Opens(m)
    BY <2>1, AnswersShaped
  <2>2. CASE IsAnswer(m)
    <3>1. /\ m.to.wf # Outside /\ m.back.wf \in Workflows \ Temporary
          /\ m.back.kind = "DefaultAction" /\ m.to.kind \in {"Reply", "Error"}
      BY <1>1, <2>2, Constants DEF IsAnswer
    <3>2. IsQuestion(CreateReply(m))
      BY <3>1, CreateReplyParts DEF IsQuestion
    <3> QED BY <3>2 DEF Shaped
  <2> QED BY <1>1, <2>1, <2>2, Constants DEF Shaped, Opens, IsVoid
<1>3. TypeOK
  BY DEF SoundInv
<1>4. CreateReply(m) \in Message
  BY CreateReplyParts
<1>5. TypeOK'
  BY <1>1, <1>3, <1>4, ReturnParts DEF TypeOK, table
<1> QED BY <1>1, <1>2, <1>5, ReturnSound DEF SoundInv, Shapes, table

LEMMA EnterSound ==
    ASSUME SoundInv, NEW t \in Pool, Enter(t)
    PROVE  SoundInv'
<1>1. PICK m \in Message, w \in Workflows, i \in Ids :
        m = msg[t] /\ w = m.to.wf /\ i = m.to.id
  BY Taken DEF Enter
<1>2. /\ pc[t] = "blocked" /\ Free(w) /\ Has(w, i) /\ ~active[w][i]
      /\ active' = Set(active, w, i, TRUE)
      /\ lock' = [lock EXCEPT ![w] = t]
      /\ UNCHANGED <<made, asks, posted, tasks, known, msg, level, original, queued,
                     answers>>
  BY <1>1 DEF Enter, wires
<1>3. TypeOK
  BY DEF SoundInv
<1>4. phase[w][i] \in {"waiting", "over"}
  <2>1. phase[w][i] # "running" /\ phase[w][i] # "kept"
    BY <1>2, FreeMeans DEF SoundInv, Sessions
  <2> QED BY <1>2, <1>3, <2>1 DEF TypeOK, Phases, Has
<1>5. PICK l \in {"run", "fail", "leave"}, p \in Phases :
        /\ Goto(t, l) /\ phase' = Set(phase, w, i, p)
        /\ IF l = "leave" THEN p \in {"waiting", "over"} ELSE p = "running"
  <2>1. \/ phase' = Set(phase, w, i, "running") /\ (Goto(t, "run") \/ Goto(t, "fail"))
        \/ phase' = phase /\ Goto(t, "leave")
    BY <1>1 DEF Enter
  <2>2. phase = Set(phase, w, i, phase[w][i])
    BY <1>3 DEF TypeOK, Set
  <2>3. "running" \in Phases /\ phase[w][i] \in Phases
    BY <1>4 DEF Phases
  <2> QED BY <1>4, <2>1, <2>2, <2>3
<1>6. /\ phase' \in [Workflows -> [Ids -> Phases]] /\ phase'[w][i] = p
      /\ \A c \in Workflows, j \in Ids : ~(c = w /\ j = i) => phase'[c][j] = phase[c][j]
  BY <1>3, <1>5 DEF TypeOK, Set
<1>7. /\ active' \in [Workflows -> [Ids -> BOOLEAN]] /\ active'[w][i] = TRUE
      /\ \A c \in Workflows, j \in Ids : ~(c = w /\ j = i) => active'[c][j] = active[c][j]
  BY <1>2, <1>3 DEF TypeOK, Set
<1>8. /\ pc' \in [Pool -> {"idle", "blocked", "run", "fail", "wait", "die", "leave"}]
      /\ pc'[t] = l /\ \A u \in Pool : u # t => pc'[u] = pc[u]
  BY <1>3, <1>5, GotoParts DEF Working
<1>9. /\ lock' \in [Workflows -> Pool \cup {Nobody}]
      /\ lock'[w] = t /\ \A c \in Workflows : c # w => lock'[c] = lock[c]
  BY <1>2, <1>3 DEF TypeOK
<1>10. TypeOK'
  BY <1>2, <1>3, <1>6, <1>7, <1>8, <1>9 DEF TypeOK
<1>11. Shapes'
  <2>1. \A u \in Pool : pc'[u] # "idle" => pc[u] # "idle"
    BY <1>2, <1>8
  <2>2. \A c \in Workflows, j \in Ids : Has(c, j)' => Has(c, j)
    BY <1>2, <1>6 DEF Has
  <2> QED BY <1>2, <2>1, <2>2 DEF SoundInv, Shapes
<1>12. \A u \in Pool : pc[u] \in Working \cup {"leave"} => msg[u].to.wf # w
  BY <1>2, FreeMeans
<1>13. Locks' /\ Sessions'
  <2>1. /\ On(t, w, i)' /\ lock'[w] = t
        /\ pc'[t] \in Working <=> phase'[w][i] = "running"
        /\ pc'[t] = "leave" => phase'[w][i] \in {"waiting", "over"}
        /\ pc'[t] \in Working \cup {"leave"} /\ phase'[w][i] # "kept"
    BY <1>1, <1>2, <1>5, <1>6, <1>8, <1>9 DEF On, Working
  <2>2. pc[t] \notin Working \cup {"leave"}
    BY <1>2 DEF Working
  <2>3. \A u \in Pool : u # t => pc'[u] = pc[u] /\ msg'[u] = msg[u]
    BY <1>2, <1>8
  <2> QED BY <1>6, <1>7, <1>9, <1>12, <2>1, <2>2, <2>3, StepSound
<1> QED BY <1>10, <1>11, <1>13 DEF SoundInv

\* A thread at work in session i of workflow w.
LEMMA AtWork ==
    ASSUME SoundInv, NEW t \in Pool, pc[t] \in Working \cup {"leave"}
    PROVE  \E w \in Workflows, i \in Ids :
            /\ w = msg[t].to.wf /\ i = msg[t].to.id /\ lock[w] = t
            /\ pc[t] \in Working => phase[w][i] = "running" /\ Has(w, i)
            /\ pc[t] = "leave" => phase[w][i] \in {"waiting", "over"} /\ Has(w, i)
            /\ \A u \in Pool : u # t /\ pc[u] \in Working \cup {"leave"} => msg[u].to.wf # w
<1>1. msg[t].to.wf \in Workflows /\ msg[t].to.id \in Ids
  BY Taken DEF Working
<1>2. \A u \in Pool : u # t /\ pc[u] \in Working \cup {"leave"} => msg[u].to.wf # msg[t].to.wf
  BY Alone
<1>3. /\ pc[t] \in Working => phase[msg[t].to.wf][msg[t].to.id] = "running"
      /\ pc[t] = "leave" => phase[msg[t].to.wf][msg[t].to.id] \in {"waiting", "over"}
      /\ lock[msg[t].to.wf] = t
  BY DEF SoundInv, Sessions, Locks
<1> QED BY <1>1, <1>2, <1>3 DEF Has

\* Its steps.
LEMMA WorkSound ==
    ASSUME SoundInv, NEW t \in Pool, pc[t] \in Working \cup {"leave"},
           TypeOK', pc'[t] \in {"idle", "leave"} \cup Working,
           \A u \in Pool : u # t => pc'[u] = pc[u] /\ msg'[u] = msg[u],
           pc'[t] # "idle" => msg'[t] = msg[t],
           \A m \in posted' : Shaped(m), tasks' = tasks, original' = original,
           NEW w \in Workflows, NEW i \in Ids, On(t, w, i),
           \A c \in Workflows : c # w => lock'[c] = lock[c],
           \A c \in Workflows, j \in Ids : ~(c = w /\ j = i) =>
                phase'[c][j] = phase[c][j] /\ active'[c][j] = active[c][j],
           pc'[t] # "idle" => lock'[w] = lock[w],
           pc'[t] \in Working <=> phase'[w][i] = "running",
           pc'[t] \notin Working => phase'[w][i] \in {"waiting", "over"},
           active'[w][i] => pc'[t] # "idle"
    PROVE  SoundInv'
<1>1. /\ lock[w] = t /\ Has(w, i)
      /\ \A u \in Pool : u # t /\ pc[u] \in Working \cup {"leave"} => msg[u].to.wf # w
  BY AtWork DEF On
<1>2. Shapes'
  <2>1. \A u \in Pool : pc'[u] # "idle" => pc[u] # "idle" /\ msg'[u] = msg[u]
    BY DEF Working
  <2>2. \A c \in Workflows, j \in Ids : Has(c, j)' => Has(c, j)
    BY <1>1 DEF Has
  <2> QED BY <2>1, <2>2 DEF SoundInv, Shapes
<1>3. Locks' /\ Sessions'
  <2>1. /\ pc'[t] \in Working \cup {"leave"} => On(t, w, i)' /\ lock'[w] = t
        /\ pc'[t] = "leave" => phase'[w][i] \in {"waiting", "over"}
        /\ active'[w][i] => pc'[t] \in Working \cup {"leave"}
        /\ phase'[w][i] # "kept"
    BY <1>1 DEF On, Working
  <2> QED BY <1>1, <2>1, StepSound
<1> QED BY <1>2, <1>3 DEF SoundInv

LEMMA CallSound ==
    ASSUME SoundInv, NEW t \in Pool, Call(t)
    PROVE  SoundInv'
<1>1. pc[t] = "run" /\ pc[t] \in Working \cup {"leave"}
  BY DEF Call, Working
<1>2. PICK w \in Workflows, i \in Ids :
        /\ w = msg[t].to.wf /\ i = msg[t].to.id
        /\ phase[w][i] = "running" /\ Has(w, i)
  BY <1>1, AtWork DEF Working
<1>3. PICK c \in Calls[w] :
        posted' = posted \cup {NewRequest(c, To(w, i, "Reply", level[w][i]))}
  BY <1>2 DEF Call
<1>4. /\ made < MaxIds /\ made' = made + 1 /\ pc' = [pc EXCEPT ![t] = "wait"]
      /\ UNCHANGED <<asks, tasks, known, lock, msg, phase, level, active, original,
                     queued, answers>>
  BY DEF Call, Goto, table
<1>5. TypeOK
  BY DEF SoundInv
<1>6. NewRequest(c, To(w, i, "Reply", level[w][i])) \in Message
      /\ Shaped(NewRequest(c, To(w, i, "Reply", level[w][i])))
  <2>1. To(w, i, "Reply", level[w][i]) \in Address
        /\ To(w, i, "Reply", level[w][i]).kind = "Reply"
    BY <1>5 DEF TypeOK, To, Address, Kinds
  <2>2. c \in Workflows \ Temporary
    BY Constants
  <2> QED BY <1>4, <1>5, <2>1, <2>2, NewRequestShaped DEF TypeOK
<1>7. made' \in 0 .. MaxIds
  BY <1>4, <1>5, Constants DEF TypeOK
<1>8. TypeOK'
  BY <1>3, <1>4, <1>5, <1>6, <1>7 DEF TypeOK
<1>9. /\ pc'[t] = "wait" /\ pc'[t] \in {"idle", "leave"} \cup Working
      /\ pc'[t] \in Working
      /\ msg'[t] = msg[t] /\ \A u \in Pool : u # t => pc'[u] = pc[u] /\ msg'[u] = msg[u]
      /\ \A m \in posted' : Shaped(m)
      /\ phase' = phase /\ active' = active /\ lock' = lock
      /\ tasks' = tasks /\ original' = original /\ On(t, w, i)
  BY <1>2, <1>3, <1>4, <1>6 DEF Working, SoundInv, Shapes, On, TypeOK
<1> QED BY <1>1, <1>2, <1>4, <1>8, <1>9, WorkSound

LEMMA WaitSound ==
    ASSUME SoundInv, NEW t \in Pool, Wait(t)
    PROVE  SoundInv'
<1>1. pc[t] = "wait" /\ pc[t] \in Working \cup {"leave"}
  BY DEF Wait, Working
<1>2. PICK w \in Workflows, i \in Ids : w = msg[t].to.wf /\ i = msg[t].to.id
  BY <1>1, AtWork
<1>3. /\ phase' = Set(phase, w, i, "waiting") /\ pc' = [pc EXCEPT ![t] = "leave"]
      /\ UNCHANGED <<made, asks, posted, tasks, known, lock, msg, level, active, original,
                     queued, answers>>
  BY <1>2 DEF Wait, Goto, wires
<1>4. TypeOK
  BY DEF SoundInv
<1>5. /\ phase' \in [Workflows -> [Ids -> Phases]] /\ phase'[w][i] = "waiting"
      /\ \A c \in Workflows, j \in Ids : ~(c = w /\ j = i) => phase'[c][j] = phase[c][j]
  BY <1>3, <1>4 DEF TypeOK, Set, Phases
<1>6. TypeOK'
  BY <1>3, <1>4, <1>5 DEF TypeOK
<1>7. /\ pc'[t] = "leave" /\ pc'[t] \in {"idle", "leave"} \cup Working
      /\ pc'[t] \notin Working
      /\ msg'[t] = msg[t] /\ \A u \in Pool : u # t => pc'[u] = pc[u] /\ msg'[u] = msg[u]
      /\ \A m \in posted' : Shaped(m)
      /\ active' = active /\ lock' = lock
      /\ phase'[w][i] # "running" /\ phase'[w][i] \in {"waiting", "over"}
      /\ tasks' = tasks /\ original' = original /\ On(t, w, i)
  BY <1>2, <1>3, <1>5 DEF Working, SoundInv, Shapes, On, TypeOK
<1> QED BY <1>1, <1>2, <1>3, <1>5, <1>6, <1>7, WorkSound

LEMMA AnswerSound ==
    ASSUME SoundInv, NEW t \in Pool, Answer(t)
    PROVE  SoundInv'
<1>1. pc[t] \in Working /\ pc[t] \in Working \cup {"leave"}
  BY DEF Answer, Working
<1>2. PICK w \in Workflows, i \in Ids :
        /\ w = msg[t].to.wf /\ i = msg[t].to.id
        /\ phase[w][i] = "running" /\ Has(w, i)
  BY <1>1, AtWork
<1>3. PICK answer \in {CreateReply(original[w][i]), ErrorOf(original[w][i])} :
        posted' = posted \cup {answer}
  BY <1>2 DEF Answer
<1>4. /\ level' = Set(level, w, i, level[w][i] + 2) /\ pc' = [pc EXCEPT ![t] = "die"]
      /\ UNCHANGED <<made, asks, tasks, known, lock, msg, phase, active, original,
                     queued, answers>>
  BY <1>2 DEF Answer, Goto
<1>5. TypeOK
  BY DEF SoundInv
<1>6. answer \in Message /\ Shaped(answer)
  <2>1. original[w][i] \in Message /\ Opens(original[w][i])
    BY <1>2 DEF SoundInv, Shapes
  <2> QED BY <1>3, <2>1, CreateReplyParts, ErrorOfParts, AnswersShaped
<1>7. level' \in [Workflows -> [Ids -> Nat]]
  <2>1. level[w][i] + 2 \in Nat
    BY <1>5 DEF TypeOK
  <2> QED BY <1>4, <1>5, <2>1 DEF TypeOK, Set
<1>8. TypeOK'
  BY <1>3, <1>4, <1>5, <1>6, <1>7 DEF TypeOK
<1>9. /\ pc'[t] = "die" /\ pc'[t] \in {"idle", "leave"} \cup Working
      /\ pc'[t] \in Working
      /\ msg'[t] = msg[t] /\ \A u \in Pool : u # t => pc'[u] = pc[u] /\ msg'[u] = msg[u]
      /\ \A m \in posted' : Shaped(m)
      /\ phase' = phase /\ active' = active /\ lock' = lock
      /\ tasks' = tasks /\ original' = original /\ On(t, w, i)
  BY <1>2, <1>3, <1>4, <1>6 DEF Working, SoundInv, Shapes, On, TypeOK
<1> QED BY <1>1, <1>2, <1>4, <1>8, <1>9, WorkSound

LEMMA DieSound ==
    ASSUME SoundInv, NEW t \in Pool, Die(t)
    PROVE  SoundInv'
<1>1. pc[t] = "die" /\ pc[t] \in Working \cup {"leave"}
  BY DEF Die, Working
<1>2. PICK w \in Workflows, i \in Ids : w = msg[t].to.wf /\ i = msg[t].to.id
  BY <1>1, AtWork
<1>3. /\ phase' = Set(phase, w, i, "over") /\ pc' = [pc EXCEPT ![t] = "leave"]
      /\ known' \subseteq known
      /\ UNCHANGED <<made, asks, posted, tasks, lock, msg, level, active, original,
                     queued, answers>>
  BY <1>2 DEF Die, Goto, wires, Dropped
<1>4. TypeOK
  BY DEF SoundInv
<1>5. /\ phase' \in [Workflows -> [Ids -> Phases]] /\ phase'[w][i] = "over"
      /\ \A c \in Workflows, j \in Ids : ~(c = w /\ j = i) => phase'[c][j] = phase[c][j]
  BY <1>3, <1>4 DEF TypeOK, Set, Phases
<1>6. TypeOK'
  BY <1>3, <1>4, <1>5 DEF TypeOK
<1>7. /\ pc'[t] = "leave" /\ pc'[t] \in {"idle", "leave"} \cup Working
      /\ pc'[t] \notin Working
      /\ msg'[t] = msg[t] /\ \A u \in Pool : u # t => pc'[u] = pc[u] /\ msg'[u] = msg[u]
      /\ \A m \in posted' : Shaped(m)
      /\ active' = active /\ lock' = lock
      /\ phase'[w][i] # "running" /\ phase'[w][i] \in {"waiting", "over"}
      /\ tasks' = tasks /\ original' = original /\ On(t, w, i)
  BY <1>2, <1>3, <1>5 DEF Working, SoundInv, Shapes, On, TypeOK
<1> QED BY <1>1, <1>2, <1>3, <1>5, <1>6, <1>7, WorkSound

LEMMA LeaveSound ==
    ASSUME SoundInv, NEW t \in Pool, Leave(t)
    PROVE  SoundInv'
<1>1. pc[t] = "leave" /\ pc[t] \in Working \cup {"leave"} /\ pc[t] \notin Working
  BY DEF Leave, Working
<1>2. PICK w \in Workflows, i \in Ids :
        w = msg[t].to.wf /\ i = msg[t].to.id /\ phase[w][i] \in {"waiting", "over"}
  BY <1>1, AtWork
<1>3. /\ active' = Set(active, w, i, FALSE) /\ lock' = [lock EXCEPT ![w] = Nobody]
      /\ Return(t) /\ pc' = [pc EXCEPT ![t] = "idle"]
      /\ UNCHANGED <<made, asks, posted, tasks, known, phase, level, original, queued,
                     answers>>
  BY <1>2 DEF Leave, Return, Goto, wires
<1>4. TypeOK
  BY DEF SoundInv
<1>5. /\ active' \in [Workflows -> [Ids -> BOOLEAN]] /\ active'[w][i] = FALSE
      /\ \A c \in Workflows, j \in Ids : ~(c = w /\ j = i) => active'[c][j] = active[c][j]
  BY <1>3, <1>4 DEF TypeOK, Set
<1>6. /\ lock' \in [Workflows -> Pool \cup {Nobody}]
      /\ \A c \in Workflows : c # w => lock'[c] = lock[c]
  BY <1>3, <1>4 DEF TypeOK
<1>7. /\ pc' \in [Pool -> {"idle", "blocked", "run", "fail", "wait", "die", "leave"}]
      /\ msg' \in [Pool -> Message \cup {Unset}]
      /\ pc'[t] = "idle" /\ \A u \in Pool : u # t => pc'[u] = pc[u] /\ msg'[u] = msg[u]
  BY <1>3, <1>4, ReturnParts
<1>8. TypeOK'
  BY <1>3, <1>4, <1>5, <1>6, <1>7 DEF TypeOK
<1>9. /\ pc'[t] \in {"idle", "leave"} \cup Working /\ pc'[t] \notin Working
      /\ \A m \in posted' : Shaped(m)
      /\ tasks' = tasks /\ original' = original /\ On(t, w, i)
  BY <1>2, <1>3, <1>7 DEF Working, SoundInv, Shapes, On
<1>10. /\ phase' = phase /\ phase'[w][i] # "running"
       /\ phase'[w][i] \in {"waiting", "over"}
  BY <1>2, <1>3
<1>11. /\ pc'[t] \in Working <=> phase'[w][i] = "running"
       /\ active'[w][i] => pc'[t] # "idle"
  BY <1>5, <1>9, <1>10
<1> QED BY <1>1, <1>5, <1>6, <1>7, <1>8, <1>9, <1>10, <1>11, WorkSound

LEMMA SoundInit == Init => SoundInv
<1> SUFFICES ASSUME Init PROVE SoundInv
  OBVIOUS
<1>1. TypeOK
  BY Constants DEF Init, TypeOK, Each, Phases
<1>2. Shapes /\ Locks /\ Sessions
  BY DEF Init, Shapes, Locks, Sessions, Each, Has, Working
<1> QED BY <1>1, <1>2 DEF SoundInv

LEMMA SoundNext == SoundInv /\ [Next]_vars => SoundInv'
<1> SUFFICES ASSUME SoundInv, [Next]_vars PROVE SoundInv'
  OBVIOUS
<1>1. CASE UNCHANGED vars
  BY <1>1 DEF vars, wires, threads, table, SoundInv, TypeOK, Shapes, Locks, Sessions, Has, On
<1>2. ASSUME NEW w \in Workflows, Ask(w) PROVE SoundInv'
  BY <1>2, AskSound
<1>3. ASSUME NEW w \in Workflows, NEW i \in Ids, Inquire(w, i) PROVE SoundInv'
  BY <1>3, InquireSound
<1>4. CASE Dispatch
  BY <1>4, DispatchSound DEF Dispatch
<1>5. ASSUME NEW t \in Pool, Perform(t) PROVE SoundInv'
  BY <1>5, TakeSound, OpenSound, KeepSound, EnterSound, RejectSound, CallSound,
     WaitSound, AnswerSound, DieSound, LeaveSound DEF Perform
<1>6. CASE Rest
  BY <1>1, <1>6 DEF Rest
<1> QED BY <1>1, <1>2, <1>3, <1>4, <1>5, <1>6 DEF Next

LEMMA SoundInvariant == Spec => []SoundInv
  BY SoundInit, SoundNext, PTL DEF Spec

\* Requests, sessions and threads keep their types; in particular no workflow
\* answers with a request it never had, and no client gets a NoReply.
THEOREM ExchangeTypesOK == Spec => []TypeOK
<1>1. SoundInv => TypeOK
  BY DEF SoundInv
<1> QED BY <1>1, SoundInvariant, PTL

=============================================================================
