----------------------------- MODULE CallProofs -----------------------------
(***************************************************************************)
(* Calls between workflows, for any number of workflows, threads and       *)
(* requests: a session that waits is owed exactly one answer, the reply   *)
(* to a call finds its caller waiting at the right level, whoever waits is *)
(* going to be woken where no guest calls what may fail, and a controller  *)
(* knows its guests while they are in use.                                 *)
(***************************************************************************)
EXTENDS ExchangeProofs

-----------------------------------------------------------------------------
(* What is owed to a caller.  A call is, at any time, in one place: with    *)
(* the ControllerManager, in a pool, with a thread, or in the session it    *)
(* opened; then its answer takes its place.                                 *)

\* Who waits for what a message brings.
Caller(m) == IF m.to.kind \in {"DefaultAction", "Status"} THEN m.back ELSE m.to

InPost(m)    == [at |-> "posted", by |-> Nobody, what |-> m]
InPool(m)    == [at |-> "pool", by |-> Nobody, what |-> m]
InHand(t, m) == [at |-> "thread", by |-> t, what |-> m]
InSession(m) == [at |-> "session", by |-> Nobody, what |-> m]

\* The requests sessions were opened with.
Originals == {m \in Message : /\ m.to.wf \in Workflows /\ Has(m.to.wf, m.to.id)
                              /\ original[m.to.wf][m.to.id] = m}

Tokens == {InPost(m) : m \in posted} \cup {InPool(m) : m \in tasks}
     \cup {InHand(t, msg[t]) : t \in {u \in Pool : pc[u] = "blocked"}}
     \cup {InSession(m) : m \in Originals}

\* A session that has answered owes nothing any more.
Answered(w, i) == \/ phase[w][i] \notin {"kept", "running", "waiting"}
                  \/ \E t \in Pool : pc[t] = "die" /\ On(t, w, i)

Settled(x) == x.at = "session" /\ Answered(x.what.to.wf, x.what.to.id)

\* x is what session i of workflow w waits for.
Owes(x, w, i) == /\ x \in Tokens /\ ~Settled(x)
                 /\ Caller(x.what).wf = w /\ Caller(x.what).id = i

\* The session has called and has not had its answer.
Awaits(w, i) == \/ phase[w][i] = "waiting"
                \/ \E t \in Pool : pc[t] = "wait" /\ On(t, w, i)

\* Nobody is owed two things.
OwedOnce == \A w \in Workflows, i \in Ids : \A x, y \in Tokens :
    Owes(x, w, i) /\ Owes(y, w, i) => x = y

\* Nobody is owed what it does not wait for, and what it is owed has the
\* execution level it expects.
OwedAwaited == \A w \in Workflows, i \in Ids : \A x \in Tokens :
    Owes(x, w, i) => Awaits(w, i) /\ Caller(x.what).level = level[w][i]

\* Whoever waits is owed something.
AwaitedOwed == \A w \in Workflows, i \in Ids :
    Awaits(w, i) => \E x \in Tokens : Owes(x, w, i)

OwedInv == OwedOnce /\ OwedAwaited /\ AwaitedOwed

CallInv == SoundInv /\ OwedInv

\* No place is another one.
LEMMA Places ==
    /\ \A m : InPost(m).at = "posted" /\ InPost(m).what = m
    /\ \A m : InPool(m).at = "pool" /\ InPool(m).what = m
    /\ \A t, m : InHand(t, m).at = "thread" /\ InHand(t, m).what = m /\ InHand(t, m).by = t
    /\ \A m : InSession(m).at = "session" /\ InSession(m).what = m
  BY DEF InPost, InPool, InHand, InSession

TokensPlaced ==
    /\ \A m : InPost(m) \in Tokens <=> m \in posted
    /\ \A m : InPool(m) \in Tokens <=> m \in tasks
    /\ \A t \in Pool : \A m : InHand(t, m) \in Tokens <=> pc[t] = "blocked" /\ m = msg[t]
    /\ \A m : InSession(m) \in Tokens <=> m \in Originals
    /\ \A x \in Tokens : \/ \E m : x = InPost(m) \/ x = InPool(m) \/ x = InSession(m)
                         \/ \E t \in Pool : \E m : x = InHand(t, m)

LEMMA TokenPlaces == TokensPlaced
<1>1. \A x \in Tokens : \/ \E m : x = InPost(m) \/ x = InPool(m) \/ x = InSession(m)
                        \/ \E t \in Pool : \E m : x = InHand(t, m)
  BY DEF Tokens
<1>2. \A m : InPost(m) \in Tokens <=> m \in posted
  BY Places DEF Tokens
<1>3. \A m : InPool(m) \in Tokens <=> m \in tasks
  BY Places DEF Tokens
<1>4. \A t \in Pool : \A m : InHand(t, m) \in Tokens <=> pc[t] = "blocked" /\ m = msg[t]
  BY Places DEF Tokens
<1>5. \A m : InSession(m) \in Tokens <=> m \in Originals
  BY Places DEF Tokens
<1> QED BY <1>1, <1>2, <1>3, <1>4, <1>5 DEF TokensPlaced

LEMMA TokenPlacesNext == TokensPlaced'
  BY TokenPlaces, PTL

LEMMA OriginalsSame ==
    ASSUME SoundInv, SoundInv', UNCHANGED original,
           \A w \in Workflows, i \in Ids : Has(w, i)' <=> Has(w, i)
    PROVE  Originals' = Originals
  BY AddressParts DEF Originals, Has

\* The place of a message changes.
LEMMA PostMoves ==
    ASSUME NEW R, NEW A, posted' = (posted \ R) \cup A,
           UNCHANGED <<tasks, pc, msg>>, Originals' = Originals
    PROVE  \A x : x \in Tokens' <=> \/ x \in Tokens /\ ~(\E m \in R : x = InPost(m))
                                    \/ \E m \in A : x = InPost(m)
<1> SUFFICES ASSUME NEW x
             PROVE  x \in Tokens' <=> \/ x \in Tokens /\ ~(\E m \in R : x = InPost(m))
                                      \/ \E m \in A : x = InPost(m)
  OBVIOUS
<1>1. CASE \E m : x = InPost(m)
  BY <1>1, Places, TokenPlaces, TokenPlacesNext DEF TokensPlaced
<1>2. CASE ~\E m : x = InPost(m)
  BY <1>2, TokenPlaces, TokenPlacesNext DEF TokensPlaced
<1> QED BY <1>1, <1>2

LEMMA PassMoves ==
    ASSUME NEW m \in posted, posted' = posted \ {m}, tasks' = tasks \cup {m},
           UNCHANGED <<pc, msg>>, Originals' = Originals
    PROVE  \A x : x \in Tokens' <=> (x \in Tokens /\ x # InPost(m)) \/ x = InPool(m)
<1> SUFFICES ASSUME NEW x
             PROVE  x \in Tokens' <=> (x \in Tokens /\ x # InPost(m)) \/ x = InPool(m)
  OBVIOUS
<1>1. CASE \E n : x = InPost(n)
  BY <1>1, Places, TokenPlaces, TokenPlacesNext DEF TokensPlaced
<1>2. CASE \E n : x = InPool(n)
  BY <1>2, Places, TokenPlaces, TokenPlacesNext DEF TokensPlaced
<1>3. CASE ~\E n : x = InPost(n) \/ x = InPool(n)
  BY <1>3, TokenPlaces, TokenPlacesNext DEF TokensPlaced
<1> QED BY <1>1, <1>2, <1>3

LEMMA TakeMoves ==
    ASSUME NEW t \in Pool, pc[t] = "idle", pc'[t] = "blocked",
           \A u \in Pool : u # t => pc'[u] = pc[u] /\ msg'[u] = msg[u],
           NEW m \in tasks, tasks' = tasks \ {m}, msg'[t] = m,
           UNCHANGED posted, Originals' = Originals
    PROVE  \A x : x \in Tokens' <=> (x \in Tokens /\ x # InPool(m)) \/ x = InHand(t, m)
<1> SUFFICES ASSUME NEW x
             PROVE  x \in Tokens' <=> (x \in Tokens /\ x # InPool(m)) \/ x = InHand(t, m)
  OBVIOUS
<1>1. CASE \E n : x = InPost(n) \/ x = InSession(n)
  BY <1>1, Places, TokenPlaces, TokenPlacesNext DEF TokensPlaced
<1>2. CASE \E n : x = InPool(n)
  BY <1>2, Places, TokenPlaces, TokenPlacesNext DEF TokensPlaced
<1>3. ASSUME NEW u \in Pool, NEW n, x = InHand(u, n)
      PROVE  x \in Tokens' <=> (x \in Tokens /\ x # InPool(m)) \/ x = InHand(t, m)
  <2>1. CASE u = t
    BY <1>3, <2>1, Places, TokenPlaces, TokenPlacesNext DEF TokensPlaced
  <2>2. CASE u # t
    BY <1>3, <2>2, Places, TokenPlaces, TokenPlacesNext DEF TokensPlaced
  <2> QED BY <2>1, <2>2
<1>4. CASE ~\E n : x = InPost(n) \/ x = InPool(n) \/ x = InSession(n) \/ \E u \in Pool : x = InHand(u, n)
  BY <1>4, TokenPlaces, TokenPlacesNext DEF TokensPlaced
<1> QED BY <1>1, <1>2, <1>3, <1>4

\* A thread that leaves the mutex's queue may post a message, or open a session.
LEMMA HandMoves ==
    ASSUME NEW t \in Pool, pc[t] = "blocked", pc'[t] # "blocked",
           \A u \in Pool : u # t => pc'[u] = pc[u] /\ msg'[u] = msg[u],
           UNCHANGED tasks, NEW A, posted' = posted \cup A,
           NEW B, Originals' = Originals \cup B
    PROVE  \A x : x \in Tokens' <=> \/ x \in Tokens /\ x # InHand(t, msg[t])
                                    \/ \E m \in A : x = InPost(m)
                                    \/ \E m \in B : x = InSession(m)
<1> SUFFICES ASSUME NEW x
             PROVE  x \in Tokens' <=> \/ x \in Tokens /\ x # InHand(t, msg[t])
                                      \/ \E m \in A : x = InPost(m)
                                      \/ \E m \in B : x = InSession(m)
  OBVIOUS
<1>1. CASE \E n : x = InPost(n)
  BY <1>1, Places, TokenPlaces, TokenPlacesNext DEF TokensPlaced
<1>2. CASE \E n : x = InPool(n)
  BY <1>2, Places, TokenPlaces, TokenPlacesNext DEF TokensPlaced
<1>3. ASSUME NEW n, x = InSession(n)
      PROVE  x \in Tokens' <=> \/ x \in Tokens /\ x # InHand(t, msg[t])
                               \/ \E m \in A : x = InPost(m)
                               \/ \E m \in B : x = InSession(m)
  <2>1. (x \in Tokens <=> n \in Originals) /\ (x \in Tokens' <=> n \in Originals')
    BY <1>3, TokenPlaces, TokenPlacesNext DEF TokensPlaced
  <2>2. /\ x # InHand(t, msg[t]) /\ ~\E m \in A : x = InPost(m)
        /\ (\E m \in B : x = InSession(m)) <=> n \in B
    BY <1>3, Places
  <2>3. n \in Originals' <=> n \in Originals \/ n \in B
    OBVIOUS
  <2> QED BY <2>1, <2>2, <2>3
<1>4. ASSUME NEW u \in Pool, NEW n, x = InHand(u, n)
      PROVE  x \in Tokens' <=> \/ x \in Tokens /\ x # InHand(t, msg[t])
                               \/ \E m \in A : x = InPost(m)
                               \/ \E m \in B : x = InSession(m)
  <2>1. CASE u = t
    BY <1>4, <2>1, Places, TokenPlaces, TokenPlacesNext DEF TokensPlaced
  <2>2. CASE u # t
    BY <1>4, <2>2, Places, TokenPlaces, TokenPlacesNext DEF TokensPlaced
  <2> QED BY <2>1, <2>2
<1>5. CASE ~\E n : x = InPost(n) \/ x = InPool(n) \/ x = InSession(n) \/ \E u \in Pool : x = InHand(u, n)
  BY <1>5, Places, TokenPlaces, TokenPlacesNext DEF TokensPlaced
<1> QED BY <1>1, <1>2, <1>3, <1>4, <1>5

\* A thread at work may post a message.
LEMMA WorkMoves ==
    ASSUME NEW t \in Pool, pc[t] # "blocked", pc'[t] # "blocked",
           \A u \in Pool : u # t => pc'[u] = pc[u] /\ msg'[u] = msg[u],
           UNCHANGED tasks, NEW A, posted' = posted \cup A, Originals' = Originals
    PROVE  \A x : x \in Tokens' <=> x \in Tokens \/ \E m \in A : x = InPost(m)
<1> SUFFICES ASSUME NEW x
             PROVE  x \in Tokens' <=> x \in Tokens \/ \E m \in A : x = InPost(m)
  OBVIOUS
<1>1. CASE \E n : x = InPost(n) \/ x = InPool(n) \/ x = InSession(n)
  BY <1>1, Places, TokenPlaces, TokenPlacesNext DEF TokensPlaced
<1>2. ASSUME NEW u \in Pool, NEW n, x = InHand(u, n)
      PROVE  x \in Tokens' <=> x \in Tokens \/ \E m \in A : x = InPost(m)
  <2>1. CASE u = t
    BY <1>2, <2>1, Places, TokenPlaces, TokenPlacesNext DEF TokensPlaced
  <2>2. CASE u # t
    BY <1>2, <2>2, Places, TokenPlaces, TokenPlacesNext DEF TokensPlaced
  <2> QED BY <2>1, <2>2
<1>3. CASE ~\E n : x = InPost(n) \/ x = InPool(n) \/ x = InSession(n) \/ \E u \in Pool : x = InHand(u, n)
  BY <1>3, Places, TokenPlaces, TokenPlacesNext DEF TokensPlaced
<1> QED BY <1>1, <1>2, <1>3

\* The session of a token.
LEMMA TokenSession ==
    ASSUME NEW z \in Tokens, z.at = "session"
    PROVE  /\ z.what \in Message /\ z.what.to.wf \in Workflows /\ z.what.to.id \in Ids
           /\ Has(z.what.to.wf, z.what.to.id) /\ z = InSession(z.what)
           /\ original[z.what.to.wf][z.what.to.id] = z.what
<1>1. PICK m : z = InSession(m)
  BY Places, TokenPlaces DEF TokensPlaced
<1>2. m \in Originals /\ z.what = m
  BY <1>1, Places, TokenPlaces DEF TokensPlaced
<1> QED BY <1>1, <1>2, AddressParts DEF Originals

LEMMA SettledSame ==
    ASSUME \A w \in Workflows, i \in Ids : Has(w, i) => (Answered(w, i)' <=> Answered(w, i))
    PROVE  \A z \in Tokens : Settled(z)' <=> Settled(z)
  BY TokenSession DEF Settled

LEMMA OwedStays ==
    ASSUME OwedInv,
           \A z : Caller(z.what).wf \in Workflows => (z \in Tokens' <=> z \in Tokens),
           \A z \in Tokens : Settled(z)' <=> Settled(z),
           \A w \in Workflows, i \in Ids : Awaits(w, i)' <=> Awaits(w, i),
           \A w \in Workflows, i \in Ids : Awaits(w, i) => level'[w][i] = level[w][i]
    PROVE  OwedInv'
<1>1. \A w \in Workflows, i \in Ids : \A z : Owes(z, w, i)' <=> Owes(z, w, i)
  BY DEF Owes
<1>2. \A w \in Workflows, i \in Ids : \A z : Owes(z, w, i) => z \in Tokens /\ z \in Tokens'
  BY DEF Owes
<1>3. OwedOnce'
  BY <1>1, <1>2 DEF OwedInv, OwedOnce
<1>4. OwedAwaited'
  BY <1>1, <1>2 DEF OwedInv, OwedAwaited
<1>5. AwaitedOwed'
  BY <1>1, <1>2 DEF OwedInv, AwaitedOwed
<1> QED BY <1>3, <1>4, <1>5 DEF OwedInv

\* What is owed is y from now on, and was x.
LEMMA OwedPasses ==
    ASSUME OwedInv, NEW x, NEW y,
           \A w \in Workflows, i \in Ids : \A z :
                Owes(z, w, i)' <=> (Owes(z, w, i) /\ z # x) \/ (z = y /\ Owes(x, w, i)),
           \A w \in Workflows, i \in Ids : Awaits(w, i)' <=> Awaits(w, i),
           \A w \in Workflows, i \in Ids : Awaits(w, i) => level'[w][i] = level[w][i],
           Caller(y.what).level = Caller(x.what).level
    PROVE  OwedInv'
<1>1. \A w \in Workflows, i \in Ids : \A z :
        (Owes(z, w, i) => z \in Tokens) /\ (Owes(z, w, i)' => z \in Tokens')
  BY DEF Owes
<1>2. OwedOnce'
  BY <1>1 DEF OwedInv, OwedOnce
<1>3. OwedAwaited'
  BY <1>1 DEF OwedInv, OwedAwaited
<1>4. AwaitedOwed'
  <2> SUFFICES ASSUME NEW w \in Workflows, NEW i \in Ids, Awaits(w, i)'
               PROVE  \E z : z \in Tokens' /\ Owes(z, w, i)'
    BY DEF AwaitedOwed
  <2>1. PICK z \in Tokens : Owes(z, w, i)
    BY DEF OwedInv, AwaitedOwed
  <2>2. CASE z = x
    BY <1>1, <2>1, <2>2
  <2>3. CASE z # x
    BY <1>1, <2>1, <2>3
  <2> QED BY <2>2, <2>3
<1> QED BY <1>2, <1>3, <1>4 DEF OwedInv

LEMMA OwedMoves ==
    ASSUME OwedInv, NEW x \in Tokens, NEW y,
           \A z : z \in Tokens' <=> (z \in Tokens /\ z # x) \/ z = y,
           \A z \in Tokens : z # x => (Settled(z)' <=> Settled(z)),
           ~Settled(x), ~Settled(y)',
           Caller(y.what).wf = Caller(x.what).wf, Caller(y.what).id = Caller(x.what).id,
           Caller(y.what).level = Caller(x.what).level,
           \A w \in Workflows, i \in Ids : Awaits(w, i)' <=> Awaits(w, i),
           \A w \in Workflows, i \in Ids : Awaits(w, i) => level'[w][i] = level[w][i]
    PROVE  OwedInv'
<1>1. \A w \in Workflows, i \in Ids : \A z :
        Owes(z, w, i)' <=> (Owes(z, w, i) /\ z # x) \/ (z = y /\ Owes(x, w, i))
  BY DEF Owes
<1> QED BY <1>1, OwedPasses

\* The session x is with answers, with y.
LEMMA OwedSettles ==
    ASSUME OwedInv, NEW x \in Tokens, NEW y,
           \A z : z \in Tokens' <=> z \in Tokens \/ z = y,
           \A z \in Tokens : z # x => (Settled(z)' <=> Settled(z)),
           ~Settled(x), Settled(x)', ~Settled(y)',
           Caller(y.what).wf = Caller(x.what).wf, Caller(y.what).id = Caller(x.what).id,
           Caller(y.what).level = Caller(x.what).level,
           \A w \in Workflows, i \in Ids : Awaits(w, i)' <=> Awaits(w, i),
           \A w \in Workflows, i \in Ids : Awaits(w, i) => level'[w][i] = level[w][i]
    PROVE  OwedInv'
<1>1. \A w \in Workflows, i \in Ids : \A z :
        Owes(z, w, i)' <=> (Owes(z, w, i) /\ z # x) \/ (z = y /\ Owes(x, w, i))
  BY DEF Owes
<1> QED BY <1>1, OwedPasses

\* Session i of workflow w has what it is owed, and waits no longer.
LEMMA OwedEnds ==
    ASSUME OwedInv, NEW x \in Tokens, NEW w \in Workflows, NEW i \in Ids, Owes(x, w, i),
           \A z : z \in Tokens' <=> z \in Tokens /\ z # x,
           \A z \in Tokens : Settled(z)' <=> Settled(z),
           ~Awaits(w, i)',
           \A c \in Workflows, j \in Ids : ~(c = w /\ j = i) =>
                /\ Awaits(c, j)' <=> Awaits(c, j)
                /\ Awaits(c, j) => level'[c][j] = level[c][j]
    PROVE  OwedInv'
<1>1. \A c \in Workflows, j \in Ids : \A z :
        Owes(z, c, j)' <=> (Owes(z, c, j) /\ z # x)
  BY DEF Owes
<1>2. \A c \in Workflows, j \in Ids : \A z :
        (Owes(z, c, j) => z \in Tokens) /\ (Owes(z, c, j)' => z \in Tokens')
  BY DEF Owes
<1>3. \A z : ~Owes(z, w, i)'
  BY <1>1, <1>2 DEF OwedInv, OwedOnce
<1>4. \A c \in Workflows, j \in Ids : Owes(x, c, j) => c = w /\ j = i
  BY DEF Owes
<1>5. OwedOnce'
  BY <1>1, <1>2 DEF OwedInv, OwedOnce
<1>6. OwedAwaited'
  BY <1>1, <1>2, <1>3 DEF OwedInv, OwedAwaited
<1>7. AwaitedOwed'
  BY <1>1, <1>2, <1>4 DEF OwedInv, AwaitedOwed
<1> QED BY <1>5, <1>6, <1>7 DEF OwedInv

\* Session i of workflow w waits from now on, and is owed y.
LEMMA OwedStarts ==
    ASSUME OwedInv, NEW y, NEW w \in Workflows, NEW i \in Ids,
           \A z : z \in Tokens' <=> z \in Tokens \/ z = y,
           \A z \in Tokens : Settled(z)' <=> Settled(z),
           ~Settled(y)', Caller(y.what).wf = w, Caller(y.what).id = i,
           Caller(y.what).level = level'[w][i],
           ~Awaits(w, i), Awaits(w, i)',
           \A c \in Workflows, j \in Ids : ~(c = w /\ j = i) =>
                /\ Awaits(c, j)' <=> Awaits(c, j)
                /\ Awaits(c, j) => level'[c][j] = level[c][j]
    PROVE  OwedInv'
<1>1. \A z : ~Owes(z, w, i)
  BY DEF OwedInv, OwedAwaited, Owes
<1>2. y \notin Tokens
  BY <1>1 DEF Owes
<1>3. \A c \in Workflows, j \in Ids : \A z :
        Owes(z, c, j)' <=> Owes(z, c, j) \/ (z = y /\ c = w /\ j = i)
  BY <1>2 DEF Owes
<1>4. \A c \in Workflows, j \in Ids : \A z :
        (Owes(z, c, j) => z \in Tokens) /\ (Owes(z, c, j)' => z \in Tokens')
  BY DEF Owes
<1>5. OwedOnce'
  BY <1>1, <1>3, <1>4 DEF OwedInv, OwedOnce
<1>6. OwedAwaited'
  BY <1>1, <1>3, <1>4 DEF OwedInv, OwedAwaited
<1>7. AwaitedOwed'
  BY <1>3, <1>4 DEF OwedInv, AwaitedOwed
<1> QED BY <1>5, <1>6, <1>7 DEF OwedInv

\* An answer goes to whom the request came from.
LEMMA ReplyCaller ==
    ASSUME NEW m \in Message, Shaped(m), m.to.wf \in Workflows
    PROVE  Caller(CreateReply(m)) = Caller(m)
  BY CreateReplyParts, Constants
     DEF Caller, Shaped, IsQuestion, IsStatus, IsAnswer, IsVoid

LEMMA AnswerCaller ==
    ASSUME NEW m \in Message, Opens(m), NEW answer \in {CreateReply(m), ErrorOf(m)}
    PROVE  /\ Caller(answer).wf = Caller(m).wf /\ Caller(answer).id = Caller(m).id
           /\ Caller(answer).level = Caller(m).level
<1>1. CASE answer = CreateReply(m)
  BY <1>1, ReplyCaller DEF Opens, Shaped, IsQuestion, IsStatus
<1>2. CASE answer = ErrorOf(m)
  BY <1>2, ErrorOfParts DEF Caller, Opens, IsQuestion, IsStatus
<1> QED BY <1>1, <1>2

LEMMA WiresSame ==
    ASSUME UNCHANGED <<threads, table>>
    PROVE  /\ pc' = pc /\ msg' = msg /\ Originals' = Originals
           /\ \A z : Settled(z)' <=> Settled(z)
           /\ \A w \in Workflows, i \in Ids : Awaits(w, i)' <=> Awaits(w, i)
           /\ level' = level
<1>1. pc' = pc /\ msg' = msg /\ phase' = phase /\ original' = original /\ level' = level
  BY DEF threads, table
<1>2. Originals' = Originals
  BY <1>1 DEF Originals, Has
<1>3. \A z : Settled(z)' <=> Settled(z)
  BY <1>1 DEF Settled, Answered, On
<1>4. \A w \in Workflows, i \in Ids : Awaits(w, i)' <=> Awaits(w, i)
  BY <1>1 DEF Awaits, On
<1> QED BY <1>1, <1>2, <1>3, <1>4

\* Messages nobody waits for are posted, or disappear.
LEMMA PostOwed ==
    ASSUME OwedInv, NEW R, NEW A, posted' = (posted \ R) \cup A,
           \A m \in R \cup A : Caller(m).wf \notin Workflows,
           tasks' = tasks, UNCHANGED <<threads, table>>
    PROVE  OwedInv'
<1>1. /\ pc' = pc /\ msg' = msg /\ Originals' = Originals /\ level' = level
      /\ \A z \in Tokens : Settled(z)' <=> Settled(z)
      /\ \A w \in Workflows, i \in Ids : Awaits(w, i)' <=> Awaits(w, i)
  BY WiresSame
<1>2. \A x : x \in Tokens' <=> \/ x \in Tokens /\ ~(\E m \in R : x = InPost(m))
                               \/ \E m \in A : x = InPost(m)
  BY <1>1, PostMoves
<1>3. \A z : Caller(z.what).wf \in Workflows => (z \in Tokens' <=> z \in Tokens)
  BY <1>2, Places
<1>4. \A w \in Workflows, i \in Ids : Awaits(w, i) => level'[w][i] = level[w][i]
  BY <1>1
<1> QED BY <1>1, <1>3, <1>4, OwedStays

LEMMA AskOwed ==
    ASSUME SoundInv, OwedInv, NEW w \in Workflows, Ask(w)
    PROVE  OwedInv'
<1> DEFINE m == NewRequest(w, To(Outside, made + 1, "Reply", 0))
<1>1. /\ posted' = (posted \ {}) \cup {m} /\ tasks' = tasks
      /\ UNCHANGED <<threads, table>>
  BY DEF Ask
<1>2. Caller(m) = To(Outside, made + 1, "Reply", 0)
  BY DEF Caller, NewRequest, To
<1>3. Caller(m).wf \notin Workflows
  BY <1>2, Constants DEF To
<1> HIDE DEF m
<1>4. \A n \in {} \cup {m} : Caller(n).wf \notin Workflows
  BY <1>3
<1> QED BY <1>1, <1>4, PostOwed, Zenon

LEMMA InquireOwed ==
    ASSUME SoundInv, OwedInv, NEW w \in Workflows, NEW i \in Ids, Inquire(w, i)
    PROVE  OwedInv'
<1> DEFINE m == [to |-> To(w, i, "Status", 0), back |-> To(Outside, i, "NoReply", 0),
                 json |-> FALSE]
<1>1. /\ posted' = (posted \ {}) \cup {m} /\ tasks' = tasks
      /\ UNCHANGED <<threads, table>>
  BY DEF Inquire
<1>2. Caller(m) = To(Outside, i, "NoReply", 0)
  BY DEF Caller, To
<1>3. Caller(m).wf \notin Workflows
  BY <1>2, Constants DEF To
<1> HIDE DEF m
<1>4. \A n \in {} \cup {m} : Caller(n).wf \notin Workflows
  BY <1>3
<1> QED BY <1>1, <1>4, PostOwed, Zenon

LEMMA DispatchOwed ==
    ASSUME SoundInv, OwedInv, NEW m \in posted,
           Abort(m) \/ Deliver(m) \/ Route(m) \/ Register(m) \/ Misfit(m) \/ Refuse(m)
    PROVE  OwedInv'
<1>1. m \in Message /\ Shaped(m)
  BY DEF SoundInv, TypeOK, Shapes
<1>2. UNCHANGED <<threads, table>>
  BY DEF Abort, Deliver, Route, Register, Misfit, Refuse
<1>3. /\ pc' = pc /\ msg' = msg /\ Originals' = Originals /\ level' = level
      /\ \A z \in Tokens : Settled(z)' <=> Settled(z)
      /\ \A w \in Workflows, i \in Ids : Awaits(w, i)' <=> Awaits(w, i)
  BY <1>2, WiresSame
<1>4. \A w \in Workflows, i \in Ids : Awaits(w, i) => level'[w][i] = level[w][i]
  BY <1>3
<1>5. InPost(m) \in Tokens /\ ~Settled(InPost(m))
  BY Places, TokenPlaces DEF TokensPlaced, Settled
<1>6. CASE Abort(m) \/ Deliver(m)
  <2>1. posted' = (posted \ {m}) \cup {} /\ tasks' = tasks
    BY <1>6 DEF Abort, Deliver
  <2>2. Caller(m).wf \notin Workflows
    BY <1>1, <1>6, Constants
       DEF Abort, Deliver, Caller, Shaped, IsQuestion, IsStatus, IsAnswer, IsVoid
  <2>3. \A n \in {m} \cup {} : Caller(n).wf \notin Workflows
    BY <2>2
  <2> QED BY <1>2, <2>1, <2>3, PostOwed, Zenon
<1>7. CASE Route(m) \/ Register(m)
  <2>1. posted' = posted \ {m} /\ tasks' = tasks \cup {m}
    BY <1>7 DEF Route, Register
  <2>2. \A z : z \in Tokens' <=> (z \in Tokens /\ z # InPost(m)) \/ z = InPool(m)
    BY <1>3, <2>1, PassMoves
  <2>3. ~Settled(InPool(m))' /\ InPool(m).what = InPost(m).what
    BY Places DEF Settled
  <2> QED BY <1>3, <1>4, <1>5, <2>2, <2>3, OwedMoves
<1>8. CASE Misfit(m) \/ Refuse(m)
  <2>1. /\ posted' = (posted \ {m}) \cup {CreateReply(m)} /\ tasks' = tasks
        /\ m.to.wf \in Temporary
    BY <1>8 DEF Misfit, Refuse
  <2>2. PICK R, A : R = {m} /\ A = {CreateReply(m)}
    OBVIOUS
  <2>3. \A z : z \in Tokens' <=> (z \in Tokens /\ z # InPost(m)) \/ z = InPost(CreateReply(m))
    <3>1. posted' = (posted \ R) \cup A /\ UNCHANGED <<tasks, pc, msg>> /\ Originals' = Originals
      BY <1>3, <2>1, <2>2
    <3>2. \A z : z \in Tokens' <=> \/ z \in Tokens /\ ~(\E n \in R : z = InPost(n))
                                   \/ \E n \in A : z = InPost(n)
      BY <3>1, PostMoves
    <3> QED BY <2>2, <3>2
  <2>4. ~Settled(InPost(CreateReply(m)))'
    BY Places DEF Settled
  <2>5. Caller(InPost(CreateReply(m)).what) = Caller(InPost(m).what)
    BY <1>1, <2>1, Places, ReplyCaller, Constants
  <2> QED BY <1>3, <1>4, <1>5, <2>3, <2>4, <2>5, OwedMoves
<1> QED BY <1>6, <1>7, <1>8

\* Threads that neither answer nor call change nothing for a session that
\* keeps its phase.
LEMMA ThreadSame ==
    ASSUME NEW t \in Pool, \A u \in Pool : u # t => pc'[u] = pc[u] /\ msg'[u] = msg[u],
           pc[t] \notin {"die", "wait"}, pc'[t] \notin {"die", "wait"},
           NEW w, NEW i, phase'[w][i] = phase[w][i]
    PROVE  (Answered(w, i)' <=> Answered(w, i)) /\ (Awaits(w, i)' <=> Awaits(w, i))
<1>1. \A u \in Pool, l \in {"die", "wait"} : (pc'[u] = l /\ On(u, w, i)') <=> (pc[u] = l /\ On(u, w, i))
  <2> SUFFICES ASSUME NEW u \in Pool, NEW l \in {"die", "wait"}
               PROVE  (pc'[u] = l /\ On(u, w, i)') <=> (pc[u] = l /\ On(u, w, i))
    OBVIOUS
  <2> QED BY DEF On
<1>2. /\ (\E u \in Pool : pc'[u] = "die" /\ On(u, w, i)') <=> (\E u \in Pool : pc[u] = "die" /\ On(u, w, i))
      /\ (\E u \in Pool : pc'[u] = "wait" /\ On(u, w, i)') <=> (\E u \in Pool : pc[u] = "wait" /\ On(u, w, i))
  BY <1>1
<1> QED BY <1>2 DEF Answered, Awaits

LEMMA TakeOwed ==
    ASSUME SoundInv, OwedInv, NEW t \in Pool, Take(t)
    PROVE  OwedInv'
<1>1. PICK m \in tasks :
        /\ tasks' = tasks \ {m} /\ msg' = [msg EXCEPT ![t] = m]
        /\ pc[t] = "idle" /\ pc' = [pc EXCEPT ![t] = "blocked"]
        /\ UNCHANGED <<posted, phase, level, original>>
  BY DEF Take, Goto, table
<1>2. /\ pc'[t] = "blocked" /\ msg'[t] = m
      /\ \A u \in Pool : u # t => pc'[u] = pc[u] /\ msg'[u] = msg[u]
  BY <1>1 DEF SoundInv, TypeOK
<1>3. \A w, i : (Answered(w, i)' <=> Answered(w, i)) /\ (Awaits(w, i)' <=> Awaits(w, i))
  BY <1>1, <1>2, ThreadSame
<1>4. \A z \in Tokens : Settled(z)' <=> Settled(z)
  BY <1>3, SettledSame
<1>5. Originals' = Originals
  BY <1>1 DEF Originals, Has
<1>6. \A z : z \in Tokens' <=> (z \in Tokens /\ z # InPool(m)) \/ z = InHand(t, m)
  BY <1>1, <1>2, <1>5, TakeMoves
<1>7. /\ InPool(m) \in Tokens /\ ~Settled(InPool(m)) /\ ~Settled(InHand(t, m))'
      /\ InHand(t, m).what = InPool(m).what
  BY Places, TokenPlaces DEF TokensPlaced, Settled
<1>8. /\ \A w \in Workflows, i \in Ids : Awaits(w, i)' <=> Awaits(w, i)
      /\ \A w \in Workflows, i \in Ids : Awaits(w, i) => level'[w][i] = level[w][i]
  BY <1>1, <1>3
<1> QED BY <1>4, <1>6, <1>7, <1>8, OwedMoves

\* What a blocked thread has in its hand.
LEMMA HandToken ==
    ASSUME NEW t \in Pool, pc[t] = "blocked"
    PROVE  /\ InHand(t, msg[t]) \in Tokens /\ ~Settled(InHand(t, msg[t]))
           /\ InHand(t, msg[t]).what = msg[t]
  BY Places, TokenPlaces DEF TokensPlaced, Settled

\* Nobody works in the workflow: its sessions are waiting when they await.
LEMMA FreeAwaits ==
    ASSUME SoundInv, NEW w \in Workflows, NEW i \in Ids, Free(w), Awaits(w, i)
    PROVE  phase[w][i] = "waiting"
  BY FreeMeans DEF Awaits, On, Working

\* The answer a blocked thread has is awaited.
LEMMA AnswerAwaited ==
    ASSUME SoundInv, OwedInv, NEW t \in Pool, pc[t] = "blocked",
           Free(msg[t].to.wf), msg[t].to.kind \in {"Reply", "Error"}
    PROVE  /\ phase[msg[t].to.wf][msg[t].to.id] = "waiting"
           /\ msg[t].to.level = level[msg[t].to.wf][msg[t].to.id]
           /\ Owes(InHand(t, msg[t]), msg[t].to.wf, msg[t].to.id)
<1>1. msg[t].to.wf \in Workflows /\ msg[t].to.id \in Ids
  BY Taken
<1>2. Caller(msg[t]) = msg[t].to
  BY DEF Caller
<1>3. Owes(InHand(t, msg[t]), msg[t].to.wf, msg[t].to.id)
  BY <1>2, HandToken DEF Owes
<1>4. Awaits(msg[t].to.wf, msg[t].to.id) /\ msg[t].to.level = level[msg[t].to.wf][msg[t].to.id]
  BY <1>1, <1>2, <1>3, HandToken DEF OwedInv, OwedAwaited
<1> QED BY <1>1, <1>3, <1>4, FreeAwaits

LEMMA RejectOwed ==
    ASSUME SoundInv, OwedInv, NEW t \in Pool, Reject(t)
    PROVE  OwedInv'
<1>1. PICK m \in Message :
        /\ m = msg[t] /\ Shaped(m) /\ m.to.wf \in Workflows
        /\ pc[t] = "blocked" /\ Return(t)
        /\ posted' = posted \cup {CreateReply(m)}
        /\ UNCHANGED <<tasks, phase, level, original>>
  BY Taken DEF Reject, table
<1>2. /\ pc'[t] = "idle"
      /\ \A u \in Pool : u # t => pc'[u] = pc[u] /\ msg'[u] = msg[u]
  BY <1>1, ReturnParts DEF SoundInv
<1>3. \A w, i : (Answered(w, i)' <=> Answered(w, i)) /\ (Awaits(w, i)' <=> Awaits(w, i))
  BY <1>1, <1>2, ThreadSame
<1>4. \A z \in Tokens : Settled(z)' <=> Settled(z)
  BY <1>3, SettledSame
<1>5. Originals' = Originals \cup {}
  BY <1>1 DEF Originals, Has
<1>6. \A z : z \in Tokens' <=> (z \in Tokens /\ z # InHand(t, m)) \/ z = InPost(CreateReply(m))
  <2>1. PICK A, B : A = {CreateReply(m)} /\ B = {}
    OBVIOUS
  <2>2. posted' = posted \cup A /\ Originals' = Originals \cup B
    BY <1>1, <1>5, <2>1
  <2>3. \A z : z \in Tokens' <=> \/ z \in Tokens /\ z # InHand(t, msg[t])
                                 \/ \E n \in A : z = InPost(n)
                                 \/ \E n \in B : z = InSession(n)
    BY <1>1, <1>2, <2>2, HandMoves
  <2> QED BY <1>1, <2>1, <2>3
<1>7. /\ ~Settled(InPost(CreateReply(m)))'
      /\ Caller(InPost(CreateReply(m)).what) = Caller(InHand(t, m).what)
  BY <1>1, Places, ReplyCaller DEF Settled
<1>8. /\ \A w \in Workflows, i \in Ids : Awaits(w, i)' <=> Awaits(w, i)
      /\ \A w \in Workflows, i \in Ids : Awaits(w, i) => level'[w][i] = level[w][i]
  BY <1>1, <1>3
<1>9. InHand(t, m) \in Tokens /\ ~Settled(InHand(t, m))
  BY <1>1, HandToken
<1> QED BY <1>4, <1>6, <1>7, <1>8, <1>9, OwedMoves

\* Nobody waits for what a request for a status brings.
LEMMA StatusCaller ==
    ASSUME NEW m \in Message, Shaped(m), m.to.kind = "Status"
    PROVE  Caller(m).wf \notin Workflows
  BY Constants DEF Caller, Shaped, IsQuestion, IsStatus, IsAnswer, IsVoid

\* A thread that returns or goes on leaves its message behind.
LEMMA HandEmpties ==
    ASSUME NEW t \in Pool, pc[t] = "blocked", pc'[t] # "blocked",
           \A u \in Pool : u # t => pc'[u] = pc[u] /\ msg'[u] = msg[u],
           UNCHANGED <<tasks, posted>>, Originals' = Originals
    PROVE  \A x : x \in Tokens' <=> x \in Tokens /\ x # InHand(t, msg[t])
<1>1. PICK A, B : A = {} /\ B = {}
  OBVIOUS
<1>2. posted' = posted \cup A /\ Originals' = Originals \cup B /\ UNCHANGED tasks
  BY <1>1
<1>3. \A x : x \in Tokens' <=> \/ x \in Tokens /\ x # InHand(t, msg[t])
                               \/ \E n \in A : x = InPost(n)
                               \/ \E n \in B : x = InSession(n)
  BY <1>2, HandMoves
<1> QED BY <1>1, <1>3

\* An answer that comes while its session is active would be lost: none does.
LEMMA KeepOwed ==
    ASSUME SoundInv, OwedInv, NEW t \in Pool, Keep(t)
    PROVE  OwedInv'
<1>1. PICK m \in Message :
        /\ m = msg[t] /\ Shaped(m) /\ m.to.wf \in Workflows /\ m.to.id \in Ids
        /\ pc[t] = "blocked" /\ Free(m.to.wf) /\ CanExecute(m) /\ Has(m.to.wf, m.to.id)
        /\ active[m.to.wf][m.to.id] /\ Return(t)
        /\ UNCHANGED <<posted, tasks, phase, level, original>>
  BY Taken DEF Keep, wires
<1>2. /\ pc'[t] = "idle"
      /\ \A u \in Pool : u # t => pc'[u] = pc[u] /\ msg'[u] = msg[u]
  BY <1>1, ReturnParts DEF SoundInv
<1>3. \A w, i : (Answered(w, i)' <=> Answered(w, i)) /\ (Awaits(w, i)' <=> Awaits(w, i))
  BY <1>1, <1>2, ThreadSame
<1>4. \A z \in Tokens : Settled(z)' <=> Settled(z)
  BY <1>3, SettledSame
<1>5. m.to.kind = "Status"
  <2>1. phase[m.to.wf][m.to.id] = "kept"
    BY <1>1, FreeMeans
  <2>2. m.to.kind \notin {"Reply", "Error"}
    BY <1>1, <2>1, AnswerAwaited
  <2> QED BY <1>1, <2>2 DEF CanExecute
<1>6. Caller(m).wf \notin Workflows
  BY <1>1, <1>5, StatusCaller
<1>7. Originals' = Originals /\ UNCHANGED <<tasks, posted>>
  BY <1>1 DEF Originals, Has
<1>8. \A z : z \in Tokens' <=> z \in Tokens /\ z # InHand(t, msg[t])
  BY <1>1, <1>2, <1>7, HandEmpties
<1>9. \A z : Caller(z.what).wf \in Workflows => (z \in Tokens' <=> z \in Tokens)
  BY <1>1, <1>6, <1>8, Places
<1>10. /\ \A w \in Workflows, i \in Ids : Awaits(w, i)' <=> Awaits(w, i)
       /\ \A w \in Workflows, i \in Ids : Awaits(w, i) => level'[w][i] = level[w][i]
  BY <1>1, <1>3
<1> QED BY <1>4, <1>9, <1>10, OwedStays

\* A session begins with a request.
LEMMA OpenOriginals ==
    ASSUME SoundInv, NEW m \in Message, NEW w \in Workflows, NEW i \in Ids,
           w = m.to.wf, i = m.to.id, ~Has(w, i), original' = Set(original, w, i, m),
           NEW first \in {"kept", "running"}, phase' = Set(phase, w, i, first)
    PROVE  Originals' = Originals \cup {m}
<1>1. /\ phase'[w][i] = first /\ original'[w][i] = m
      /\ \A c \in Workflows, j \in Ids : ~(c = w /\ j = i) =>
            phase'[c][j] = phase[c][j] /\ original'[c][j] = original[c][j]
  BY DEF SoundInv, TypeOK, Set, Phases
<1>2. Has(w, i)' /\ m \in Originals'
  BY <1>1 DEF Has, Originals
<1>3. ASSUME NEW n \in Message, n.to.wf \in Workflows, ~(n.to.wf = w /\ n.to.id = i)
      PROVE  n \in Originals' <=> n \in Originals
  <2>1. n.to.id \in Ids
    BY AddressParts
  <2>2. /\ phase'[n.to.wf][n.to.id] = phase[n.to.wf][n.to.id]
        /\ original'[n.to.wf][n.to.id] = original[n.to.wf][n.to.id]
    BY <1>1, <1>3, <2>1
  <2> QED BY <1>3, <2>2 DEF Originals, Has
<1>4. ASSUME NEW n \in Message, n.to.wf = w, n.to.id = i
      PROVE  n \notin Originals /\ (n \in Originals' => n = m)
  BY <1>1, <1>4 DEF Originals
<1>5. \A n : n \in Originals \/ n \in Originals' => n \in Message /\ n.to.wf \in Workflows
  BY DEF Originals
<1> QED BY <1>2, <1>3, <1>4, <1>5

\* The request becomes the session's.
LEMMA OpenOwed ==
    ASSUME SoundInv, OwedInv, NEW t \in Pool, Open(t)
    PROVE  OwedInv'
<1>1. PICK m \in Message, w \in Workflows, i \in Ids :
        /\ m = msg[t] /\ w = m.to.wf /\ i = m.to.id /\ Shaped(m)
        /\ pc[t] = "blocked" /\ Free(w) /\ CanExecute(m) /\ ~Has(w, i)
        /\ original' = Set(original, w, i, m)
        /\ UNCHANGED <<posted, tasks, level>>
  BY Taken DEF Open, wires
<1>2. PICK first \in {"kept", "running"} :
        /\ phase' = Set(phase, w, i, first)
        /\ Return(t) \/ (Goto(t, "run") /\ msg' = msg)
  BY <1>1 DEF Open
<1>3. TypeOK
  BY DEF SoundInv
<1>4. /\ pc'[t] \in {"idle", "run"}
      /\ \A u \in Pool : u # t => pc'[u] = pc[u] /\ msg'[u] = msg[u]
  BY <1>2, <1>3, ReturnParts, GotoParts DEF Working
<1>5. /\ phase'[w][i] = first /\ original'[w][i] = m
      /\ \A c \in Workflows, j \in Ids : ~(c = w /\ j = i) =>
            phase'[c][j] = phase[c][j] /\ original'[c][j] = original[c][j]
  BY <1>1, <1>2, <1>3 DEF TypeOK, Set, Phases
<1>6. \A c \in Workflows, j \in Ids : ~(c = w /\ j = i) =>
        (Answered(c, j)' <=> Answered(c, j)) /\ (Awaits(c, j)' <=> Awaits(c, j))
  BY <1>1, <1>4, <1>5, ThreadSame
<1>7. \A u \in Pool : pc[u] \in {"wait", "die"} => ~On(u, w, i)
  BY <1>1, FreeMeans DEF On, Working
<1>8. \A u \in Pool : pc'[u] \in {"wait", "die"} => ~On(u, w, i)'
  BY <1>4, <1>7 DEF On
<1>9. ~Awaits(w, i) /\ ~Awaits(w, i)' /\ ~Answered(w, i)'
  BY <1>1, <1>5, <1>7, <1>8 DEF Awaits, Answered, Has
<1>10. \A z \in Tokens : Settled(z)' <=> Settled(z)
  BY <1>1, <1>6, SettledSame
<1>11. Originals' = Originals \cup {m}
  BY <1>1, <1>2, OpenOriginals
<1>12. \A z : z \in Tokens' <=> (z \in Tokens /\ z # InHand(t, m)) \/ z = InSession(m)
  <2>1. PICK A, B : A = {} /\ B = {m}
    OBVIOUS
  <2>2. posted' = posted \cup A /\ Originals' = Originals \cup B /\ UNCHANGED tasks
    BY <1>1, <1>11, <2>1
  <2>3. \A z : z \in Tokens' <=> \/ z \in Tokens /\ z # InHand(t, msg[t])
                                 \/ \E n \in A : z = InPost(n)
                                 \/ \E n \in B : z = InSession(n)
    BY <1>1, <1>4, <2>2, HandMoves
  <2> QED BY <1>1, <2>1, <2>3
<1>13. InHand(t, m) \in Tokens /\ ~Settled(InHand(t, m)) /\ InHand(t, m).what = m
  BY <1>1, HandToken
<1>14. ~Settled(InSession(m))' /\ InSession(m).what = m
  BY <1>1, <1>9, Places DEF Settled
<1>15. /\ \A c \in Workflows, j \in Ids : Awaits(c, j)' <=> Awaits(c, j)
       /\ \A c \in Workflows, j \in Ids : Awaits(c, j) => level'[c][j] = level[c][j]
  BY <1>1, <1>6, <1>9
<1> QED BY <1>10, <1>12, <1>13, <1>14, <1>15, OwedMoves

\* A step of a thread for one session is nothing to another one.
LEMMA OtherSame ==
    ASSUME NEW t \in Pool, \A u \in Pool : u # t => pc'[u] = pc[u] /\ msg'[u] = msg[u],
           NEW w, NEW i, On(t, w, i), msg'[t] = msg[t] \/ pc'[t] \notin {"die", "wait"},
           NEW c, NEW j, ~(c = w /\ j = i), phase'[c][j] = phase[c][j]
    PROVE  (Answered(c, j)' <=> Answered(c, j)) /\ (Awaits(c, j)' <=> Awaits(c, j))
<1>1. \A u \in Pool, l \in {"die", "wait"} : (pc'[u] = l /\ On(u, c, j)') <=> (pc[u] = l /\ On(u, c, j))
  <2> SUFFICES ASSUME NEW u \in Pool, NEW l \in {"die", "wait"}
               PROVE  (pc'[u] = l /\ On(u, c, j)') <=> (pc[u] = l /\ On(u, c, j))
    OBVIOUS
  <2> QED BY DEF On
<1>2. /\ (\E u \in Pool : pc'[u] = "die" /\ On(u, c, j)') <=> (\E u \in Pool : pc[u] = "die" /\ On(u, c, j))
      /\ (\E u \in Pool : pc'[u] = "wait" /\ On(u, c, j)') <=> (\E u \in Pool : pc[u] = "wait" /\ On(u, c, j))
  BY <1>1
<1> QED BY <1>2 DEF Answered, Awaits

\* The session goes on with what it was owed.
LEMMA EnterOwed ==
    ASSUME SoundInv, OwedInv, NEW t \in Pool, Enter(t)
    PROVE  OwedInv'
<1>1. PICK m \in Message, w \in Workflows, i \in Ids :
        /\ m = msg[t] /\ w = m.to.wf /\ i = m.to.id /\ Shaped(m)
        /\ pc[t] = "blocked" /\ Free(w) /\ CanExecute(m) /\ Has(w, i)
        /\ UNCHANGED <<posted, tasks, msg, level, original>>
  BY Taken DEF Enter, wires
<1>2. TypeOK
  BY DEF SoundInv
<1>3. PICK l \in {"run", "fail", "leave"} :
        /\ pc' = [pc EXCEPT ![t] = l]
        /\ \/ l # "leave" /\ phase' = Set(phase, w, i, "running")
           \/ l = "leave" /\ phase' = phase /\ ~Expected(m) /\ m.to.kind \in {"Reply", "Status"}
        /\ m.to.kind = "Status" => l = "leave"
  BY <1>1 DEF Enter, Goto, Expected
<1>4. /\ pc'[t] = l /\ \A u \in Pool : u # t => pc'[u] = pc[u] /\ msg'[u] = msg[u]
  BY <1>1, <1>2, <1>3 DEF TypeOK
<1>5. /\ InHand(t, m) \in Tokens /\ ~Settled(InHand(t, m)) /\ InHand(t, m).what = m
  BY <1>1, HandToken
<1>6. \A c \in Workflows, j \in Ids : Has(c, j)' <=> Has(c, j)
  <2>1. CASE phase' = phase
    BY <2>1 DEF Has
  <2>2. CASE phase' = Set(phase, w, i, "running")
    <3>1. /\ phase'[w][i] = "running"
          /\ \A c \in Workflows, j \in Ids : ~(c = w /\ j = i) => phase'[c][j] = phase[c][j]
      BY <1>2, <2>2 DEF TypeOK, Set, Phases
    <3> QED BY <1>1, <3>1 DEF Has
  <2> QED BY <1>3, <2>1, <2>2
<1>7. Originals' = Originals
  BY <1>1, <1>6, AddressParts DEF Originals
<1>8. \A z : z \in Tokens' <=> z \in Tokens /\ z # InHand(t, m)
  BY <1>1, <1>3, <1>4, <1>7, HandEmpties
<1>9. CASE m.to.kind = "Status"
  <2>1. l = "leave" /\ phase' = phase
    BY <1>3, <1>9
  <2>2. \A c, j : (Answered(c, j)' <=> Answered(c, j)) /\ (Awaits(c, j)' <=> Awaits(c, j))
    BY <1>1, <1>4, <2>1, ThreadSame
  <2>3. \A z \in Tokens : Settled(z)' <=> Settled(z)
    BY <2>2, SettledSame
  <2>4. \A z : Caller(z.what).wf \in Workflows => (z \in Tokens' <=> z \in Tokens)
    BY <1>1, <1>5, <1>8, <1>9, StatusCaller
  <2>5. /\ \A c \in Workflows, j \in Ids : Awaits(c, j)' <=> Awaits(c, j)
        /\ \A c \in Workflows, j \in Ids : Awaits(c, j) => level'[c][j] = level[c][j]
    BY <1>1, <2>2
  <2> QED BY <2>3, <2>4, <2>5, OwedStays
<1>10. CASE m.to.kind \in {"Reply", "Error"}
  <2>1. /\ phase[w][i] = "waiting" /\ m.to.level = level[w][i]
        /\ Owes(InHand(t, m), w, i)
    BY <1>1, <1>10, AnswerAwaited
  <2>2. m.to.kind = "Reply" => Expected(m)
    BY <1>1, <2>1 DEF Expected
  <2>3. l # "leave" /\ phase' = Set(phase, w, i, "running")
    BY <1>3, <1>10, <2>2
  <2>4. /\ phase'[w][i] = "running"
        /\ \A c \in Workflows, j \in Ids : ~(c = w /\ j = i) => phase'[c][j] = phase[c][j]
    BY <1>2, <2>3 DEF TypeOK, Set, Phases
  <2>5. \A c \in Workflows, j \in Ids : ~(c = w /\ j = i) =>
          (Answered(c, j)' <=> Answered(c, j)) /\ (Awaits(c, j)' <=> Awaits(c, j))
    BY <1>1, <1>4, <2>3, <2>4, ThreadSame
  <2>6. \A u \in Pool : pc[u] \in {"wait", "die"} => ~On(u, w, i)
    BY <1>1, FreeMeans DEF On, Working
  <2>7. \A u \in Pool : pc'[u] \in {"wait", "die"} => ~On(u, w, i)'
    BY <1>4, <2>6 DEF On
  <2>8. ~Answered(w, i) /\ ~Answered(w, i)' /\ ~Awaits(w, i)'
    BY <2>1, <2>4, <2>6, <2>7 DEF Answered, Awaits
  <2>9. \A z \in Tokens : Settled(z)' <=> Settled(z)
    BY <2>5, <2>8, SettledSame
  <2>10. \A c \in Workflows, j \in Ids : ~(c = w /\ j = i) =>
            /\ Awaits(c, j)' <=> Awaits(c, j)
            /\ Awaits(c, j) => level'[c][j] = level[c][j]
    BY <1>1, <2>5
  <2> QED BY <1>5, <1>8, <2>1, <2>8, <2>9, <2>10, OwedEnds
<1> QED BY <1>1, <1>9, <1>10 DEF CanExecute

\* A thread at work in session i of workflow w is the only one on it.
LEMMA WorkAlone ==
    ASSUME SoundInv, NEW t \in Pool, NEW w \in Workflows, NEW i \in Ids,
           pc[t] \in Working \cup {"leave"}, On(t, w, i),
           \A u \in Pool : u # t => pc'[u] = pc[u] /\ msg'[u] = msg[u],
           msg'[t] = msg[t] \/ pc'[t] \notin {"die", "wait"}
    PROVE  /\ Answered(w, i) <=> phase[w][i] \notin {"kept", "running", "waiting"} \/ pc[t] = "die"
           /\ Answered(w, i)' <=> phase'[w][i] \notin {"kept", "running", "waiting"} \/ pc'[t] = "die"
           /\ Awaits(w, i) <=> phase[w][i] = "waiting" \/ pc[t] = "wait"
           /\ Awaits(w, i)' <=> phase'[w][i] = "waiting" \/ pc'[t] = "wait"
<1>1. \A u \in Pool : u # t /\ pc[u] \in {"wait", "die"} => ~On(u, w, i)
  BY Alone DEF On, Working
<1>2. \A u \in Pool : u # t /\ pc'[u] \in {"wait", "die"} => ~On(u, w, i)'
  BY <1>1 DEF On
<1>3. pc'[t] \in {"die", "wait"} => On(t, w, i)'
  BY DEF On
<1> QED BY <1>1, <1>2, <1>3 DEF Answered, Awaits

\* A thread that neither calls nor answers.
LEMMA SilentOwed ==
    ASSUME SoundInv, OwedInv, NEW t \in Pool, NEW w \in Workflows, NEW i \in Ids,
           pc[t] \in Working \cup {"leave"}, On(t, w, i), pc'[t] # "blocked",
           \A u \in Pool : u # t => pc'[u] = pc[u] /\ msg'[u] = msg[u],
           msg'[t] = msg[t] \/ pc'[t] \notin {"die", "wait"},
           \A c \in Workflows, j \in Ids : ~(c = w /\ j = i) => phase'[c][j] = phase[c][j],
           Has(w, i), Has(w, i)',
           Answered(w, i)' <=> Answered(w, i), Awaits(w, i)' <=> Awaits(w, i),
           UNCHANGED <<posted, tasks, level, original>>
    PROVE  OwedInv'
<1>1. \A c \in Workflows, j \in Ids :
        (Answered(c, j)' <=> Answered(c, j)) /\ (Awaits(c, j)' <=> Awaits(c, j))
  BY OtherSame
<1>2. \A z \in Tokens : Settled(z)' <=> Settled(z)
  BY <1>1, SettledSame
<1>3. \A c \in Workflows, j \in Ids : Has(c, j)' <=> Has(c, j)
  BY DEF Has
<1>4. Originals' = Originals
  BY <1>3, AddressParts DEF Originals
<1>5. \A z : z \in Tokens' <=> z \in Tokens
  <2>1. PICK A : A = {}
    OBVIOUS
  <2>2. posted' = posted \cup A /\ Originals' = Originals /\ UNCHANGED tasks
    BY <1>4, <2>1
  <2>3. pc[t] # "blocked"
    BY DEF Working
  <2>4. \A z : z \in Tokens' <=> z \in Tokens \/ \E m \in A : z = InPost(m)
    BY <2>2, <2>3, WorkMoves
  <2> QED BY <2>1, <2>4
<1>6. \A c \in Workflows, j \in Ids : Awaits(c, j) => level'[c][j] = level[c][j]
  OBVIOUS
<1> QED BY <1>1, <1>2, <1>5, <1>6, OwedStays

LEMMA WaitOwed ==
    ASSUME SoundInv, OwedInv, NEW t \in Pool, Wait(t)
    PROVE  OwedInv'
<1>1. pc[t] = "wait" /\ pc[t] \in Working /\ pc[t] \in Working \cup {"leave"}
  BY DEF Wait, Working
<1>2. PICK w \in Workflows, i \in Ids :
        /\ w = msg[t].to.wf /\ i = msg[t].to.id
        /\ phase[w][i] = "running" /\ Has(w, i)
  BY <1>1, AtWork
<1>3. /\ phase' = Set(phase, w, i, "waiting") /\ pc' = [pc EXCEPT ![t] = "leave"]
      /\ UNCHANGED <<posted, tasks, msg, level, original>>
  BY <1>2 DEF Wait, Goto, wires
<1>4. /\ phase'[w][i] = "waiting" /\ Has(w, i)'
      /\ \A c \in Workflows, j \in Ids : ~(c = w /\ j = i) => phase'[c][j] = phase[c][j]
  BY <1>3 DEF SoundInv, TypeOK, Set, Phases, Has
<1>5. /\ pc'[t] = "leave" /\ msg'[t] = msg[t] /\ On(t, w, i)
      /\ \A u \in Pool : u # t => pc'[u] = pc[u] /\ msg'[u] = msg[u]
  BY <1>2, <1>3 DEF SoundInv, TypeOK, On
<1>6. (Answered(w, i)' <=> Answered(w, i)) /\ (Awaits(w, i)' <=> Awaits(w, i))
  BY <1>1, <1>2, <1>4, <1>5, WorkAlone
<1> QED BY <1>1, <1>2, <1>3, <1>4, <1>5, <1>6, SilentOwed

LEMMA DieOwed ==
    ASSUME SoundInv, OwedInv, NEW t \in Pool, Die(t)
    PROVE  OwedInv'
<1>1. pc[t] = "die" /\ pc[t] \in Working /\ pc[t] \in Working \cup {"leave"}
  BY DEF Die, Working
<1>2. PICK w \in Workflows, i \in Ids :
        /\ w = msg[t].to.wf /\ i = msg[t].to.id
        /\ phase[w][i] = "running" /\ Has(w, i)
  BY <1>1, AtWork
<1>3. /\ phase' = Set(phase, w, i, "over") /\ pc' = [pc EXCEPT ![t] = "leave"]
      /\ UNCHANGED <<posted, tasks, msg, level, original>>
  BY <1>2 DEF Die, Goto, wires
<1>4. /\ phase'[w][i] = "over" /\ Has(w, i)'
      /\ \A c \in Workflows, j \in Ids : ~(c = w /\ j = i) => phase'[c][j] = phase[c][j]
  BY <1>3 DEF SoundInv, TypeOK, Set, Phases, Has
<1>5. /\ pc'[t] = "leave" /\ msg'[t] = msg[t] /\ On(t, w, i)
      /\ \A u \in Pool : u # t => pc'[u] = pc[u] /\ msg'[u] = msg[u]
  BY <1>2, <1>3 DEF SoundInv, TypeOK, On
<1>6. (Answered(w, i)' <=> Answered(w, i)) /\ (Awaits(w, i)' <=> Awaits(w, i))
  BY <1>1, <1>2, <1>4, <1>5, WorkAlone
<1> QED BY <1>1, <1>2, <1>3, <1>4, <1>5, <1>6, SilentOwed

LEMMA LeaveOwed ==
    ASSUME SoundInv, OwedInv, NEW t \in Pool, Leave(t)
    PROVE  OwedInv'
<1>1. pc[t] = "leave" /\ pc[t] \in Working \cup {"leave"}
  BY DEF Leave
<1>2. PICK w \in Workflows, i \in Ids :
        /\ w = msg[t].to.wf /\ i = msg[t].to.id /\ Has(w, i)
  BY <1>1, AtWork
<1>3. /\ Return(t) /\ UNCHANGED <<posted, tasks, phase, level, original>>
  BY DEF Leave, wires
<1>4. /\ pc'[t] = "idle" /\ On(t, w, i)
      /\ \A u \in Pool : u # t => pc'[u] = pc[u] /\ msg'[u] = msg[u]
  BY <1>2, <1>3, ReturnParts DEF SoundInv, On
<1>5. (Answered(w, i)' <=> Answered(w, i)) /\ (Awaits(w, i)' <=> Awaits(w, i))
  BY <1>1, <1>3, <1>4, WorkAlone
<1> QED BY <1>1, <1>2, <1>3, <1>4, <1>5, SilentOwed DEF Has

\* The call is on its way, and the thread is going to wait for it.
LEMMA CallOwed ==
    ASSUME SoundInv, OwedInv, NEW t \in Pool, Call(t)
    PROVE  OwedInv'
<1>1. pc[t] = "run" /\ pc[t] \in Working /\ pc[t] \in Working \cup {"leave"}
  BY DEF Call, Working
<1>2. PICK w \in Workflows, i \in Ids :
        /\ w = msg[t].to.wf /\ i = msg[t].to.id
        /\ phase[w][i] = "running" /\ Has(w, i)
  BY <1>1, AtWork
<1>3. PICK c \in Calls[w] :
        posted' = posted \cup {NewRequest(c, To(w, i, "Reply", level[w][i]))}
  BY <1>2 DEF Call
<1>4. /\ pc' = [pc EXCEPT ![t] = "wait"] /\ msg' = msg
      /\ UNCHANGED <<tasks, phase, level, original>>
  BY DEF Call, Goto, table
<1>5. PICK m : m = NewRequest(c, To(w, i, "Reply", level[w][i]))
  OBVIOUS
<1>6. Caller(m).wf = w /\ Caller(m).id = i /\ Caller(m).level = level[w][i]
  BY <1>5 DEF NewRequest, Caller, To
<1>7. /\ pc'[t] = "wait" /\ msg'[t] = msg[t] /\ On(t, w, i)
      /\ \A u \in Pool : u # t => pc'[u] = pc[u] /\ msg'[u] = msg[u]
  BY <1>2, <1>4 DEF SoundInv, TypeOK, On
<1>8. /\ Answered(w, i)' <=> Answered(w, i)
      /\ ~Awaits(w, i) /\ Awaits(w, i)'
  BY <1>1, <1>2, <1>4, <1>7, WorkAlone
<1>9. \A b \in Workflows, j \in Ids : ~(b = w /\ j = i) =>
        (Answered(b, j)' <=> Answered(b, j)) /\ (Awaits(b, j)' <=> Awaits(b, j))
  BY <1>4, <1>7, OtherSame
<1>10. \A z \in Tokens : Settled(z)' <=> Settled(z)
  BY <1>8, <1>9, SettledSame
<1>11. \A z : z \in Tokens' <=> z \in Tokens \/ z = InPost(m)
  <2>1. PICK A : A = {m}
    OBVIOUS
  <2>2. posted' = posted \cup A /\ Originals' = Originals /\ UNCHANGED tasks
    BY <1>3, <1>4, <1>5, <2>1 DEF Originals, Has
  <2>3. pc[t] # "blocked" /\ pc'[t] # "blocked"
    BY <1>1, <1>7
  <2>4. \A z : z \in Tokens' <=> z \in Tokens \/ \E n \in A : z = InPost(n)
    BY <1>7, <2>2, <2>3, WorkMoves
  <2> QED BY <2>1, <2>4
<1>12. /\ ~Settled(InPost(m))' /\ InPost(m).what = m
       /\ level'[w][i] = level[w][i]
       /\ \A b \in Workflows, j \in Ids : ~(b = w /\ j = i) =>
            /\ Awaits(b, j)' <=> Awaits(b, j)
            /\ Awaits(b, j) => level'[b][j] = level[b][j]
  BY <1>4, <1>9, Places DEF Settled
<1> QED BY <1>6, <1>8, <1>10, <1>11, <1>12, OwedStarts

\* The answer goes out, and what the session was opened with is settled.
LEMMA AnswerOwed ==
    ASSUME SoundInv, OwedInv, NEW t \in Pool, Answer(t)
    PROVE  OwedInv'
<1>1. pc[t] \in {"run", "fail"} /\ pc[t] \in Working /\ pc[t] \in Working \cup {"leave"}
  BY DEF Answer, Working
<1>2. PICK w \in Workflows, i \in Ids :
        /\ w = msg[t].to.wf /\ i = msg[t].to.id
        /\ phase[w][i] = "running" /\ Has(w, i)
  BY <1>1, AtWork
<1>3. PICK m \in Message :
        /\ m = original[w][i] /\ Opens(m) /\ m.to.wf = w /\ m.to.id = i
  BY <1>2 DEF SoundInv, Shapes
<1>4. PICK answer \in {CreateReply(m), ErrorOf(m)} : posted' = posted \cup {answer}
  BY <1>2, <1>3 DEF Answer
<1>5. /\ level' = Set(level, w, i, level[w][i] + 2) /\ pc' = [pc EXCEPT ![t] = "die"]
      /\ UNCHANGED <<tasks, msg, phase, original>>
  BY <1>2 DEF Answer, Goto
<1>6. \A c \in Workflows, j \in Ids : ~(c = w /\ j = i) => level'[c][j] = level[c][j]
  BY <1>5 DEF SoundInv, TypeOK, Set
<1>7. /\ pc'[t] = "die" /\ msg'[t] = msg[t] /\ On(t, w, i)
      /\ \A u \in Pool : u # t => pc'[u] = pc[u] /\ msg'[u] = msg[u]
  BY <1>2, <1>5 DEF SoundInv, TypeOK, On
<1>8. ~Answered(w, i) /\ Answered(w, i)' /\ ~Awaits(w, i) /\ ~Awaits(w, i)'
  BY <1>1, <1>2, <1>5, <1>7, WorkAlone
<1>9. \A c \in Workflows, j \in Ids : ~(c = w /\ j = i) =>
        (Answered(c, j)' <=> Answered(c, j)) /\ (Awaits(c, j)' <=> Awaits(c, j))
  BY <1>5, <1>7, OtherSame
<1>10. \A z : z \in Tokens' <=> z \in Tokens \/ z = InPost(answer)
  <2>1. PICK A : A = {answer}
    OBVIOUS
  <2>2. posted' = posted \cup A /\ Originals' = Originals /\ UNCHANGED tasks
    BY <1>4, <1>5, <2>1 DEF Originals, Has
  <2>3. pc[t] # "blocked" /\ pc'[t] # "blocked"
    BY <1>1, <1>7
  <2>4. \A z : z \in Tokens' <=> z \in Tokens \/ \E n \in A : z = InPost(n)
    BY <1>7, <2>2, <2>3, WorkMoves
  <2> QED BY <2>1, <2>4
<1>11. /\ InSession(m) \in Tokens /\ ~Settled(InSession(m)) /\ Settled(InSession(m))'
       /\ InSession(m).what = m
  <2>1. m \in Originals
    BY <1>2, <1>3 DEF Originals
  <2> QED BY <1>3, <1>8, <2>1, Places, TokenPlaces DEF TokensPlaced, Settled
<1>12. \A z \in Tokens : z # InSession(m) => (Settled(z)' <=> Settled(z))
  <2> SUFFICES ASSUME NEW z \in Tokens, z # InSession(m), z.at = "session"
               PROVE  Settled(z)' <=> Settled(z)
    BY DEF Settled
  <2>1. /\ z.what.to.wf \in Workflows /\ z.what.to.id \in Ids /\ z = InSession(z.what)
        /\ original[z.what.to.wf][z.what.to.id] = z.what
    BY TokenSession
  <2>2. ~(z.what.to.wf = w /\ z.what.to.id = i)
    BY <1>3, <2>1
  <2> QED BY <1>9, <2>1, <2>2 DEF Settled
<1>13. /\ Caller(answer).wf = Caller(m).wf /\ Caller(answer).id = Caller(m).id
       /\ Caller(answer).level = Caller(m).level
  BY <1>3, AnswerCaller
<1>14. ~Settled(InPost(answer))' /\ InPost(answer).what = answer
  BY Places DEF Settled
<1>15. /\ \A c \in Workflows, j \in Ids : Awaits(c, j)' <=> Awaits(c, j)
       /\ \A c \in Workflows, j \in Ids : Awaits(c, j) => level'[c][j] = level[c][j]
  BY <1>6, <1>8, <1>9
<1> QED BY <1>10, <1>11, <1>12, <1>13, <1>14, <1>15, OwedSettles

LEMMA OwedInit == Init => OwedInv
<1> SUFFICES ASSUME Init PROVE OwedInv
  OBVIOUS
<1>1. Originals = {} /\ posted = {} /\ tasks = {} /\ \A t \in Pool : pc[t] = "idle"
  BY AddressParts DEF Init, Originals, Has, Each
<1>2. Tokens = {}
  BY <1>1 DEF Tokens
<1>3. \A w \in Workflows, i \in Ids : ~Awaits(w, i)
  BY <1>1 DEF Init, Awaits, Each
<1> QED BY <1>2, <1>3 DEF OwedInv, OwedOnce, OwedAwaited, AwaitedOwed

LEMMA OwedNext == CallInv /\ [Next]_vars => OwedInv'
<1> SUFFICES ASSUME SoundInv, OwedInv, [Next]_vars PROVE OwedInv'
  BY DEF CallInv
<1>1. CASE UNCHANGED vars
  <2>1. PICK R, A : R = {} /\ A = {}
    OBVIOUS
  <2>2. posted' = (posted \ R) \cup A /\ tasks' = tasks /\ UNCHANGED <<threads, table>>
    BY <1>1, <2>1 DEF vars, wires
  <2> QED BY <2>1, <2>2, PostOwed
<1>2. ASSUME NEW w \in Workflows, Ask(w) PROVE OwedInv'
  BY <1>2, AskOwed
<1>3. ASSUME NEW w \in Workflows, NEW i \in Ids, Inquire(w, i) PROVE OwedInv'
  BY <1>3, InquireOwed
<1>4. CASE Dispatch
  BY <1>4, DispatchOwed DEF Dispatch
<1>5. ASSUME NEW t \in Pool, Perform(t) PROVE OwedInv'
  BY <1>5, TakeOwed, OpenOwed, KeepOwed, EnterOwed, RejectOwed, CallOwed,
     WaitOwed, AnswerOwed, DieOwed, LeaveOwed DEF Perform
<1>6. CASE Rest
  BY <1>1, <1>6 DEF Rest
<1> QED BY <1>1, <1>2, <1>3, <1>4, <1>5, <1>6 DEF Next

LEMMA CallInvariant == Spec => []CallInv
<1>1. Init => CallInv
  BY SoundInit, OwedInit DEF CallInv
<1>2. CallInv /\ [Next]_vars => CallInv'
  BY SoundNext, OwedNext DEF CallInv
<1> QED BY <1>1, <1>2, PTL DEF Spec

\* A reply that gets into its session finds it waiting, at the execution level
\* the reply has: nothing the session was called for is dropped, and the level
\* of StateMachine::execute never rejects a reply.
THEOREM RepliesAwaited == Spec => NoReplyIgnored
<1>1. ASSUME CallInv, NEW t \in Pool, Enter(t), msg[t].to.kind = "Reply"
      PROVE  Expected(msg[t])
  BY <1>1, AnswerAwaited DEF CallInv, Enter, Expected
<1>2. CallInv => [\A t \in Pool :
        (Enter(t) /\ msg[t].to.kind = "Reply") => Expected(msg[t])]_vars
  BY <1>1
<1> QED BY <1>2, CallInvariant, PTL DEF NoReplyIgnored

-----------------------------------------------------------------------------
(* Callers wake.  A guest's controller refuses an error and sends it back,  *)
(* so the claim needs that nobody a guest calls, or they call in turn, can  *)
(* fail; and that no session is kept when it is created, since nothing pops *)
(* what is pending.                                                         *)

\* A set of workflows that do not fail, nor call one that does, and that the
\* guests keep to.
Dependable(Sure) ==
    /\ Sure \subseteq Workflows
    /\ Sure \cap MayFail = {}
    /\ \A w \in Sure \cup Temporary : Calls[w] \subseteq Sure

\* A question between workflows is one of the caller's calls, and asks for a
\* reply; an answer comes from one of them, and is no error from a dependable one.
Plain(m, Sure) ==
    /\ m.to.kind = "DefaultAction" /\ m.back.wf \in Workflows =>
            m.back.kind = "Reply" /\ m.to.wf \in Calls[m.back.wf]
    /\ m.to.kind \in {"Reply", "Error"} /\ m.to.wf \in Workflows =>
            m.back.wf \in Calls[m.to.wf] /\ (m.to.kind = "Error" => m.back.wf \notin Sure)

PlainInv(Sure) ==
    /\ \A m \in posted \cup tasks : Plain(m, Sure)
    /\ \A t \in Pool : pc[t] # "idle" => Plain(msg[t], Sure)
    /\ \A t \in Pool : pc[t] = "fail" => msg[t].to.wf \notin Sure
    /\ \A w \in Workflows, i \in Ids : /\ Has(w, i) => Plain(original[w][i], Sure)
                                       /\ phase[w][i] # "kept"

\* A question is answered by what its caller expects.
LEMMA ReplyPlain ==
    ASSUME NEW Sure, NEW m \in Message, Shaped(m), Plain(m, Sure),
           m.to.wf \in Workflows, m.to.kind # "Error"
    PROVE  Plain(CreateReply(m), Sure)
  BY CreateReplyParts, Constants
     DEF Plain, Shaped, IsQuestion, IsStatus, IsAnswer, IsVoid

LEMMA ErrorPlain ==
    ASSUME NEW Sure, NEW m \in Message, Opens(m), Plain(m, Sure), m.to.wf \notin Sure
    PROVE  Plain(ErrorOf(m), Sure)
  BY ErrorOfParts, Constants DEF Plain, Opens, IsQuestion, IsStatus

\* Nothing changes but the messages.
LEMMA WiresPlain ==
    ASSUME NEW Sure, PlainInv(Sure), UNCHANGED <<threads, table>>,
           \A m \in posted' \cup tasks' : Plain(m, Sure)
    PROVE  PlainInv(Sure)'
<1>1. pc' = pc /\ msg' = msg /\ phase' = phase /\ original' = original
  BY DEF threads, table
<1> QED BY <1>1 DEF PlainInv, Has

\* The controller of the guests never sees an error.
LEMMA DispatchPlain ==
    ASSUME NEW Sure, Dependable(Sure), SoundInv, PlainInv(Sure), NEW m \in posted,
           Abort(m) \/ Deliver(m) \/ Route(m) \/ Register(m) \/ Misfit(m) \/ Refuse(m)
    PROVE  PlainInv(Sure)'
<1>1. m \in Message /\ Shaped(m) /\ Plain(m, Sure)
  BY DEF SoundInv, TypeOK, Shapes, PlainInv
<1>2. UNCHANGED <<threads, table>>
  BY DEF Abort, Deliver, Route, Register, Misfit, Refuse
<1>3. CASE Abort(m) \/ Deliver(m) \/ Route(m) \/ Register(m)
  <2>1. posted' \subseteq posted /\ tasks' \subseteq tasks \cup {m}
    BY <1>3 DEF Abort, Deliver, Route, Register
  <2> QED BY <1>1, <1>2, <2>1, WiresPlain DEF PlainInv
<1>4. CASE Misfit(m)
  <2>1. /\ posted' = (posted \ {m}) \cup {CreateReply(m)} /\ tasks' = tasks
        /\ m.json /\ m.to.wf \in Workflows
    BY <1>4, Constants DEF Misfit
  <2>2. m.to.kind # "Error"
    BY <1>1, <2>1, Constants DEF Shaped, IsQuestion, IsStatus, IsAnswer, IsVoid
  <2>3. Plain(CreateReply(m), Sure)
    BY <1>1, <2>1, <2>2, ReplyPlain
  <2> QED BY <1>2, <2>1, <2>3, WiresPlain DEF PlainInv
<1>5. CASE Refuse(m)
  <2>1. m.to.wf \in Temporary /\ m.to.wf \in Workflows /\ ~m.json /\ m.to.kind # "Reply"
    BY <1>5, Constants DEF Refuse
  <2>2. m.to.kind = "Error" /\ m.back.wf \in Calls[m.to.wf] /\ m.back.wf \notin Sure
    BY <1>1, <2>1, Constants DEF Shaped, IsQuestion, IsStatus, IsAnswer, IsVoid, Plain
  <2> QED BY <2>1, <2>2 DEF Dependable
<1> QED BY <1>3, <1>4, <1>5

\* A step of a thread that keeps the messages the threads have.
LEMMA ThreadPlain ==
    ASSUME NEW Sure, PlainInv(Sure), NEW t \in Pool,
           \A u \in Pool : u # t => pc'[u] = pc[u] /\ msg'[u] = msg[u],
           pc'[t] # "idle" => Plain(msg'[t], Sure),
           pc'[t] = "fail" => msg'[t].to.wf \notin Sure,
           \A m \in posted' \cup tasks' : Plain(m, Sure),
           NEW w, NEW i,
           Has(w, i)' => Plain(original'[w][i], Sure), phase'[w][i] # "kept",
           \A c \in Workflows, j \in Ids : ~(c = w /\ j = i) =>
                phase'[c][j] = phase[c][j] /\ original'[c][j] = original[c][j]
    PROVE  PlainInv(Sure)'
<1>1. \A u \in Pool : /\ pc'[u] # "idle" => Plain(msg'[u], Sure)
                      /\ pc'[u] = "fail" => msg'[u].to.wf \notin Sure
  BY DEF PlainInv
<1>2. ASSUME NEW c \in Workflows, NEW j \in Ids
      PROVE  (Has(c, j)' => Plain(original'[c][j], Sure)) /\ phase'[c][j] # "kept"
  <2>1. CASE c = w /\ j = i
    BY <2>1
  <2>2. CASE ~(c = w /\ j = i)
    BY <2>2 DEF PlainInv, Has
  <2> QED BY <2>1, <2>2
<1> QED BY <1>1, <1>2 DEF PlainInv

LEMMA BlockedPlain ==
    ASSUME NEW Sure, Dependable(Sure), Garbage = {FALSE}, CallInv, PlainInv(Sure),
           NEW t \in Pool, Open(t) \/ Keep(t) \/ Enter(t) \/ Reject(t)
    PROVE  PlainInv(Sure)'
<1>1. SoundInv /\ OwedInv /\ TypeOK
  BY DEF CallInv, SoundInv
<1>2. pc[t] = "blocked"
  BY DEF Open, Keep, Enter, Reject
<1>3. PICK m \in Message, w \in Workflows, i \in Ids :
        /\ m = msg[t] /\ w = m.to.wf /\ i = m.to.id /\ Shaped(m) /\ Plain(m, Sure)
  BY <1>1, <1>2, Taken DEF PlainInv
<1>4. Free(w) /\ tasks' = tasks
  BY <1>3 DEF Open, Keep, Enter, Reject, wires
<1>5. CASE Open(t)
  <2>1. /\ phase' = Set(phase, w, i, "running") /\ original' = Set(original, w, i, m)
        /\ pc' = [pc EXCEPT ![t] = "run"] /\ msg' = msg /\ posted' = posted
    BY <1>3, <1>5 DEF Open, wires, Goto
  <2>2. /\ phase'[w][i] = "running" /\ original'[w][i] = m
        /\ \A c \in Workflows, j \in Ids : ~(c = w /\ j = i) =>
                phase'[c][j] = phase[c][j] /\ original'[c][j] = original[c][j]
    BY <1>1, <2>1 DEF TypeOK, Set, Phases
  <2>3. /\ pc'[t] = "run" /\ msg'[t] = m
        /\ \A u \in Pool : u # t => pc'[u] = pc[u] /\ msg'[u] = msg[u]
    BY <1>1, <1>3, <2>1 DEF TypeOK
  <2>4. \A n \in posted' \cup tasks' : Plain(n, Sure)
    BY <1>4, <2>1 DEF PlainInv
  <2> QED BY <1>3, <2>2, <2>3, <2>4, ThreadPlain
<1>6. CASE Keep(t)
  <2>1. Return(t) /\ phase' = phase /\ original' = original /\ posted' = posted
    BY <1>6 DEF Keep, wires
  <2>2. pc'[t] = "idle" /\ \A u \in Pool : u # t => pc'[u] = pc[u] /\ msg'[u] = msg[u]
    BY <1>1, <2>1, ReturnParts
  <2>3. \A n \in posted' \cup tasks' : Plain(n, Sure)
    BY <1>4, <2>1 DEF PlainInv
  <2>4. (Has(w, i)' => Plain(original'[w][i], Sure)) /\ phase'[w][i] # "kept"
    BY <2>1 DEF PlainInv, Has
  <2> QED BY <2>1, <2>2, <2>3, <2>4, ThreadPlain
<1>7. CASE Enter(t)
  <2>1. PICK l \in {"run", "fail", "leave"} :
          /\ pc' = [pc EXCEPT ![t] = l]
          /\ l = "fail" => m.to.kind = "Error"
    BY <1>3, <1>7 DEF Enter, Goto
  <2>2. /\ Has(w, i) /\ msg' = msg /\ original' = original /\ posted' = posted
        /\ phase' = phase \/ phase' = Set(phase, w, i, "running")
    BY <1>3, <1>7 DEF Enter, wires
  <2>3. /\ pc'[t] = l /\ msg'[t] = m
        /\ \A u \in Pool : u # t => pc'[u] = pc[u] /\ msg'[u] = msg[u]
    BY <1>1, <1>3, <2>1, <2>2 DEF TypeOK
  <2>4. l = "fail" => m.to.wf \notin Sure
    BY <1>3, <2>1 DEF Plain, Dependable
  <2>5. /\ phase'[w][i] # "kept"
        /\ \A c \in Workflows, j \in Ids : ~(c = w /\ j = i) => phase'[c][j] = phase[c][j]
    <3>1. CASE phase' = phase
      BY <3>1 DEF PlainInv
    <3>2. CASE phase' = Set(phase, w, i, "running")
      BY <1>1, <3>2 DEF TypeOK, Set, Phases
    <3> QED BY <2>2, <3>1, <3>2
  <2>6. \A n \in posted' \cup tasks' : Plain(n, Sure)
    BY <1>4, <2>2 DEF PlainInv
  <2>7. Plain(original'[w][i], Sure)
    BY <2>2 DEF PlainInv
  <2> QED BY <1>3, <2>2, <2>3, <2>4, <2>5, <2>6, <2>7, ThreadPlain
<1>8. CASE Reject(t)
  <2>1. /\ Return(t) /\ phase' = phase /\ original' = original /\ ~CanExecute(m)
        /\ posted' = posted \cup {CreateReply(m)}
    BY <1>3, <1>8 DEF Reject, table
  <2>2. pc'[t] = "idle" /\ \A u \in Pool : u # t => pc'[u] = pc[u] /\ msg'[u] = msg[u]
    BY <1>1, <2>1, ReturnParts
  <2>3. m.to.kind # "Error"
    <3>1. m.to.kind = "Error" => phase[w][i] = "waiting"
      BY <1>1, <1>2, <1>3, <1>4, AnswerAwaited
    <3> QED BY <1>3, <2>1, <3>1 DEF CanExecute, Has
  <2>4. Plain(CreateReply(m), Sure)
    BY <1>3, <2>3, ReplyPlain
  <2>5. \A n \in posted' \cup tasks' : Plain(n, Sure)
    BY <1>4, <2>1, <2>4 DEF PlainInv
  <2>6. (Has(w, i)' => Plain(original'[w][i], Sure)) /\ phase'[w][i] # "kept"
    BY <2>1 DEF PlainInv, Has
  <2> QED BY <2>1, <2>2, <2>5, <2>6, ThreadPlain
<1> QED BY <1>5, <1>6, <1>7, <1>8

LEMMA WorkingPlain ==
    ASSUME NEW Sure, Dependable(Sure), SoundInv, PlainInv(Sure),
           NEW t \in Pool, Call(t) \/ Wait(t) \/ Answer(t) \/ Die(t) \/ Leave(t)
    PROVE  PlainInv(Sure)'
<1>1. TypeOK
  BY DEF SoundInv
<1>2. pc[t] \in Working \cup {"leave"} /\ pc[t] # "idle"
  BY DEF Call, Wait, Answer, Die, Leave, Working
<1>3. PICK w \in Workflows, i \in Ids :
        w = msg[t].to.wf /\ i = msg[t].to.id /\ Has(w, i)
  BY <1>2, AtWork
<1>4. Plain(original[w][i], Sure) /\ Plain(msg[t], Sure)
  BY <1>2, <1>3 DEF PlainInv
<1>5. original' = original /\ tasks' = tasks
  BY DEF Call, Wait, Answer, Die, Leave, wires, table
<1>6. /\ pc'[t] # "fail"
      /\ pc'[t] # "idle" => msg'[t] = msg[t]
      /\ \A u \in Pool : u # t => pc'[u] = pc[u] /\ msg'[u] = msg[u]
  BY <1>1, ReturnParts DEF Call, Wait, Answer, Die, Leave, Goto, TypeOK
<1>7. /\ phase'[w][i] # "kept"
      /\ \A c \in Workflows, j \in Ids : ~(c = w /\ j = i) => phase'[c][j] = phase[c][j]
  <2>1. CASE phase' = phase
    BY <2>1 DEF PlainInv
  <2>2. CASE phase' = Set(phase, w, i, "waiting") \/ phase' = Set(phase, w, i, "over")
    BY <1>1, <2>2 DEF TypeOK, Set, Phases
  <2> QED BY <1>3, <2>1, <2>2 DEF Call, Wait, Answer, Die, Leave, table
<1>8. \A n \in posted' : Plain(n, Sure)
  <2>1. CASE posted' = posted
    BY <2>1 DEF PlainInv
  <2>2. CASE Call(t)
    <3>1. PICK c \in Calls[w] :
            posted' = posted \cup {NewRequest(c, To(w, i, "Reply", level[w][i]))}
      BY <1>3, <2>2 DEF Call
    <3>2. Plain(NewRequest(c, To(w, i, "Reply", level[w][i])), Sure)
      BY DEF Plain, NewRequest, To
    <3> QED BY <3>1, <3>2 DEF PlainInv
  <2>3. CASE Answer(t)
    <3>1. PICK m \in Message : m = original[w][i] /\ Opens(m) /\ m.to.wf = w
      BY <1>3 DEF SoundInv, Shapes
    <3>2. \/ posted' = posted \cup {CreateReply(m)}
          \/ posted' = posted \cup {ErrorOf(m)} /\ w \notin Sure
      BY <1>3, <2>3, <3>1 DEF Answer, PlainInv, Dependable
    <3>3. Plain(CreateReply(m), Sure)
      BY <1>4, <3>1, ReplyPlain DEF Shaped, Opens, IsQuestion, IsStatus
    <3>4. w \notin Sure => Plain(ErrorOf(m), Sure)
      BY <1>4, <3>1, ErrorPlain
    <3> QED BY <3>2, <3>3, <3>4 DEF PlainInv
  <2> QED BY <2>1, <2>2, <2>3 DEF Wait, Die, Leave, wires
<1>9. \A n \in posted' \cup tasks' : Plain(n, Sure)
  BY <1>5, <1>8 DEF PlainInv
<1>10. Has(w, i)' => Plain(original'[w][i], Sure)
  BY <1>4, <1>5
<1> QED BY <1>4, <1>5, <1>6, <1>7, <1>9, <1>10, ThreadPlain

LEMMA PlainNext ==
    ASSUME NEW Sure, Dependable(Sure), Garbage = {FALSE}, CallInv, PlainInv(Sure), [Next]_vars
    PROVE  PlainInv(Sure)'
<1>1. SoundInv /\ \A m \in posted \cup tasks : Plain(m, Sure)
  BY DEF CallInv, PlainInv
<1>2. CASE UNCHANGED vars
  BY <1>1, <1>2, WiresPlain DEF vars, wires
<1>3. ASSUME NEW w \in Workflows, Ask(w) PROVE PlainInv(Sure)'
  <2>1. Plain(NewRequest(w, To(Outside, made + 1, "Reply", 0)), Sure)
    BY Constants DEF Plain, NewRequest, To
  <2> QED BY <1>1, <1>3, <2>1, WiresPlain DEF Ask
<1>4. ASSUME NEW w \in Workflows, NEW i \in Ids, Inquire(w, i) PROVE PlainInv(Sure)'
  <2>1. Plain([to |-> To(w, i, "Status", 0), back |-> To(Outside, i, "NoReply", 0),
               json |-> FALSE], Sure)
    BY DEF Plain, To
  <2> QED BY <1>1, <1>4, <2>1, WiresPlain DEF Inquire
<1>5. CASE Dispatch
  BY <1>1, <1>5, DispatchPlain DEF Dispatch
<1>6. ASSUME NEW t \in Pool, Take(t) PROVE PlainInv(Sure)'
  <2>1. PICK m \in tasks :
          /\ tasks' = tasks \ {m} /\ msg' = [msg EXCEPT ![t] = m]
          /\ pc' = [pc EXCEPT ![t] = "blocked"] /\ UNCHANGED <<posted, phase, original>>
    BY <1>6 DEF Take, Goto, table
  <2>2. /\ pc'[t] = "blocked" /\ msg'[t] = m /\ Plain(m, Sure)
        /\ \A u \in Pool : u # t => pc'[u] = pc[u] /\ msg'[u] = msg[u]
    BY <1>1, <2>1 DEF SoundInv, TypeOK
  <2> QED BY <2>1, <2>2 DEF PlainInv, Has
<1>7. ASSUME NEW t \in Pool, Perform(t) PROVE PlainInv(Sure)'
  BY <1>1, <1>6, <1>7, BlockedPlain, WorkingPlain DEF Perform
<1>8. CASE Rest
  BY <1>2, <1>8 DEF Rest
<1> QED BY <1>2, <1>3, <1>4, <1>5, <1>7, <1>8 DEF Next

LEMMA PlainInit ==
    ASSUME NEW Sure, Init
    PROVE  PlainInv(Sure)
  BY DEF Init, PlainInv, Each, Has

\* Whoever waits is owed something, and nothing that is owed is lost.
LEMMA WakesNow ==
    ASSUME NEW Sure, CallInv, PlainInv(Sure)
    PROVE  CallersWake
<1> SUFFICES ASSUME NEW w \in Workflows, NEW i \in Ids, phase[w][i] = "waiting"
             PROVE  \/ \E m \in InFlight :
                        \/ m.to = To(w, i, "Reply", level[w][i])
                        \/ m.to.wf = w /\ m.to.id = i /\ m.to.kind = "Error"
                        \/ m.back = To(w, i, "Reply", level[w][i])
                    \/ \E c \in Workflows, j \in Ids :
                        /\ original[c][j].back = To(w, i, "Reply", level[w][i])
                        /\ phase[c][j] \in {"running", "waiting"}
  BY DEF CallersWake
<1>1. SoundInv /\ OwedInv
  BY DEF CallInv
<1>2. PICK x \in Tokens : Owes(x, w, i)
  BY <1>1 DEF OwedInv, AwaitedOwed, Awaits
<1>3. /\ ~Settled(x) /\ Caller(x.what).wf = w /\ Caller(x.what).id = i
      /\ Caller(x.what).level = level[w][i]
  BY <1>1, <1>2 DEF OwedInv, OwedAwaited, Owes
<1>4. \A a \in Address : /\ a.wf = w /\ a.id = i /\ a.level = level[w][i] /\ a.kind = "Reply"
                            => a = To(w, i, "Reply", level[w][i])
  BY DEF Address, To
<1>5. ASSUME NEW m \in Message, m = x.what, Shaped(m), Plain(m, Sure)
      PROVE  \/ m.to = To(w, i, "Reply", level[w][i])
             \/ m.to.wf = w /\ m.to.id = i /\ m.to.kind = "Error"
             \/ m.back = To(w, i, "Reply", level[w][i]) /\ m.to.kind = "DefaultAction"
  <2>1. m.to \in Address /\ m.back \in Address
    BY AddressParts
  <2>2. CASE IsQuestion(m)
    <3>1. Caller(m) = m.back /\ m.back.kind = "Reply" /\ m.to.kind = "DefaultAction"
      BY <1>3, <1>5, <2>2 DEF Caller, IsQuestion, Plain
    <3> QED BY <1>3, <1>4, <1>5, <2>1, <3>1
  <2>3. CASE IsAnswer(m)
    <3>1. Caller(m) = m.to /\ m.to.kind \in {"Reply", "Error"}
      BY <2>3 DEF Caller, IsAnswer
    <3> QED BY <1>3, <1>4, <1>5, <2>1, <3>1
  <2>4. ~IsStatus(m) /\ ~IsVoid(m)
    BY <1>3, <1>5, Constants DEF Caller, IsStatus, IsVoid
  <2> QED BY <1>5, <2>2, <2>3, <2>4 DEF Shaped
<1>6. CASE x.at = "session"
  <2>1. PICK m \in Message, c \in Workflows, j \in Ids :
          /\ m = x.what /\ c = m.to.wf /\ j = m.to.id /\ Has(c, j) /\ original[c][j] = m
    BY <1>6, TokenSession
  <2>2. Shaped(m) /\ Plain(m, Sure) /\ m.to.kind \notin {"Reply", "Error"}
    <3>1. Opens(m)
      BY <1>1, <2>1 DEF SoundInv, Shapes
    <3> QED BY <2>1, <3>1 DEF PlainInv, Opens, Shaped, IsQuestion, IsStatus
  <2>3. phase[c][j] \in {"running", "waiting"}
    BY <1>3, <1>6, <2>1 DEF Settled, Answered, PlainInv
  <2>4. m.back = To(w, i, "Reply", level[w][i])
    <3>1. m.to # To(w, i, "Reply", level[w][i])
      BY <2>2 DEF To
    <3> QED BY <1>5, <2>1, <2>2, <3>1
  <2> QED BY <2>1, <2>3, <2>4
<1>7. CASE x.at # "session"
  <2>1. PICK m : m = x.what /\ m \in InFlight /\ m \in Message /\ Shaped(m) /\ Plain(m, Sure)
    <3>1. CASE \E m : x = InPost(m) \/ x = InPool(m)
      <4>1. PICK m \in posted \cup tasks : m = x.what
        BY <3>1, Places, TokenPlaces DEF TokensPlaced
      <4> QED BY <1>1, <4>1 DEF SoundInv, TypeOK, Shapes, PlainInv, InFlight
    <3>2. CASE \E t \in Pool : \E m : x = InHand(t, m)
      <4>1. PICK t \in Pool : pc[t] = "blocked" /\ msg[t] = x.what
        BY <3>2, Places, TokenPlaces DEF TokensPlaced
      <4> QED BY <1>1, <4>1, Taken DEF PlainInv, InFlight
    <3>3. ~\E m : x = InSession(m)
      BY <1>7, Places
    <3> QED BY <3>1, <3>2, <3>3, TokenPlaces DEF TokensPlaced
  <2> QED BY <1>5, <2>1
<1> QED BY <1>6, <1>7

\* A session that waits is always going to be woken: the call it made is on its
\* way, or runs, or its answer is on its way at the level it expects.
THEOREM CallersAlwaysWake ==
    ASSUME NEW CONSTANT Sure, Dependable(Sure), Garbage = {FALSE}
    PROVE  Spec => []CallersWake
<1>1. Init => PlainInv(Sure)
  BY PlainInit
<1>2. CallInv /\ PlainInv(Sure) /\ [Next]_vars => PlainInv(Sure)'
  BY PlainNext
<1>3. CallInv /\ PlainInv(Sure) => CallersWake
  BY WakesNow
<1> QED BY <1>1, <1>2, <1>3, CallInvariant, PTL DEF Spec

-----------------------------------------------------------------------------
(* Guests, the temporary workflows a request brings along: each serves one *)
(* request at a time, and its controller knows it from the registration of *)
(* the request until the session is over.                                  *)

\* x is a request that brings the workflow w.
Brings(x, w) == IsQuestion(x.what) /\ x.what.to.wf = w

\* The controller has registered what x brings, and x is not served yet.
Using(x) == \/ x.at \in {"pool", "thread"}
            \/ x.at = "session" /\ phase[x.what.to.wf][x.what.to.id] # "over"

VisitOnce == \A w \in Temporary : \A x, y \in Tokens : Brings(x, w) /\ Brings(y, w) => x = y

InUse == \A w \in Temporary : w \in known <=> \E x \in Tokens : Brings(x, w) /\ Using(x)

VisitInv == VisitOnce /\ InUse

\* A message that brings a guest.
LEMMA BringsNone ==
    ASSUME NEW m, ~m.json \/ m.to.kind # "DefaultAction" \/ m.to.wf \notin Temporary,
           NEW w \in Temporary, NEW x, x.what = m
    PROVE  ~Brings(x, w)
  BY DEF Brings, IsQuestion

\* Neither guests nor their requests are concerned.
LEMMA VisitStays ==
    ASSUME VisitInv,
           \A w \in Temporary : \A z : Brings(z, w) =>
                /\ z \in Tokens' <=> z \in Tokens
                /\ z \in Tokens => (Using(z)' <=> Using(z)),
           \A w \in Temporary : w \in known' <=> w \in known
    PROVE  VisitInv'
<1>1. VisitOnce'
  BY DEF VisitInv, VisitOnce
<1>2. ASSUME NEW w \in Temporary
      PROVE  w \in known' <=> \E x : x \in Tokens' /\ Brings(x, w) /\ Using(x)'
  BY DEF VisitInv, InUse
<1> QED BY <1>1, <1>2 DEF VisitInv, InUse

\* The request for guest w is x, and is y from now on.
LEMMA VisitMoves ==
    ASSUME VisitInv, NEW w \in Temporary, NEW x \in Tokens, Brings(x, w), NEW y, Brings(y, w),
           \A z : z \in Tokens' <=> (z \in Tokens /\ z # x) \/ z = y,
           \A v \in Temporary : v # w => \A z \in Tokens : Brings(z, v) => (Using(z)' <=> Using(z)),
           \A v \in Temporary : v # w => (v \in known' <=> v \in known),
           w \in known' <=> Using(y)'
    PROVE  VisitInv'
<1>1. \A v : Brings(x, v) \/ Brings(y, v) => v = w
  BY DEF Brings
<1>2. VisitOnce'
  BY <1>1 DEF VisitInv, VisitOnce
<1>3. ASSUME NEW v \in Temporary
      PROVE  v \in known' <=> \E z : z \in Tokens' /\ Brings(z, v) /\ Using(z)'
  <2>1. CASE v = w
    <3>1. \A z : z \in Tokens' /\ Brings(z, w) => z = y
      BY DEF VisitInv, VisitOnce
    <3> QED BY <2>1, <3>1
  <2>2. CASE v # w
    BY <1>1, <2>2 DEF VisitInv, InUse
  <2> QED BY <2>1, <2>2
<1> QED BY <1>2, <1>3 DEF VisitInv, InUse

\* While nothing brings a guest, its controller does not know it.
LEMMA Unknown ==
    ASSUME VisitInv, NEW w \in Temporary, \A x \in Tokens : ~Brings(x, w)
    PROVE  w \notin known
  BY DEF VisitInv, InUse

\* Sessions keep their phases, or at least do not end.
LEMMA UsingSame ==
    ASSUME \A w \in Temporary, i \in Ids : phase'[w][i] = "over" <=> phase[w][i] = "over",
           SoundInv
    PROVE  \A w \in Temporary : \A z \in Tokens : Brings(z, w) => (Using(z)' <=> Using(z))
<1> SUFFICES ASSUME NEW w \in Temporary, NEW z \in Tokens, Brings(z, w), z.at = "session"
             PROVE  Using(z)' <=> Using(z)
  BY DEF Using
<1>1. z.what.to.wf = w /\ z.what.to.id \in Ids
  BY TokenSession DEF Brings
<1> QED BY <1>1 DEF Using

\* Messages are posted, or taken from the ControllerManager, that bring nobody.
LEMMA PostVisit ==
    ASSUME SoundInv, VisitInv, NEW R, NEW A, posted' = (posted \ R) \cup A,
           \A m \in R \cup A : \A w \in Temporary : \A x : x.what = m => ~Brings(x, w),
           tasks' = tasks, UNCHANGED <<known, threads, table>>
    PROVE  VisitInv'
<1>1. pc' = pc /\ msg' = msg /\ Originals' = Originals /\ phase' = phase
  BY WiresSame DEF table
<1>2. \A x : x \in Tokens' <=> \/ x \in Tokens /\ ~(\E m \in R : x = InPost(m))
                               \/ \E m \in A : x = InPost(m)
  BY <1>1, PostMoves
<1>3. \A w \in Temporary : \A z : Brings(z, w) => (z \in Tokens' <=> z \in Tokens)
  BY <1>2, Places
<1>4. \A w \in Temporary : \A z \in Tokens : Brings(z, w) => (Using(z)' <=> Using(z))
  BY <1>1, UsingSame
<1> QED BY <1>3, <1>4, VisitStays

\* A request that brings a guest finds it unused.
LEMMA AskVisit ==
    ASSUME SoundInv, VisitInv, NEW w \in Workflows, Ask(w)
    PROVE  VisitInv'
<1>1. PICK m : /\ m = NewRequest(w, To(Outside, made + 1, "Reply", 0))
               /\ posted' = posted \cup {m}
               /\ UNCHANGED <<tasks, known, threads, table>>
  BY DEF Ask
<1>2. m.to.wf = w
  BY <1>1 DEF NewRequest, To
<1>3. CASE w \notin Temporary
  <2>1. PICK R, A : R = {} /\ A = {m}
    OBVIOUS
  <2>2. posted' = (posted \ R) \cup A
    BY <1>1, <2>1
  <2>3. \A n \in R \cup A : \A v \in Temporary : \A x : x.what = n => ~Brings(x, v)
    BY <1>2, <1>3, <2>1, BringsNone
  <2> QED BY <1>1, <2>2, <2>3, PostVisit
<1>4. CASE w \in Temporary
  <2>1. \A z \in Tokens : ~Brings(z, w)
    <3> SUFFICES ASSUME NEW z \in Tokens, z.what.to.wf = w PROVE FALSE
      BY DEF Brings
    <3>1. \A i \in Ids : original[w][i] = Unset
      BY <1>4 DEF Ask
    <3>2. \A n \in InFlight : n.to.wf # w
      BY <1>4 DEF Ask
    <3>3. z.at # "session"
      <4>1. Unset \notin Message
        BY AddressParts, Constants DEF Unset, Ids
      <4> QED BY <3>1, <4>1, TokenSession
    <3>4. PICK n \in InFlight : n = z.what
      BY <3>3, Places, TokenPlaces DEF TokensPlaced, InFlight
    <3> QED BY <3>2, <3>4
  <2>2. w \notin known
    BY <1>4, <2>1, Unknown
  <2>3. /\ pc' = pc /\ msg' = msg /\ Originals' = Originals /\ phase' = phase
        /\ known' = known
    BY <1>1, WiresSame DEF table
  <2>4. \A z : z \in Tokens' <=> z \in Tokens \/ z = InPost(m)
    <3>1. PICK R, A : R = {} /\ A = {m}
      OBVIOUS
    <3>2. posted' = (posted \ R) \cup A /\ UNCHANGED <<tasks, pc, msg>> /\ Originals' = Originals
      BY <1>1, <2>3, <3>1
    <3>3. \A z : z \in Tokens' <=> \/ z \in Tokens /\ ~(\E n \in R : z = InPost(n))
                                   \/ \E n \in A : z = InPost(n)
      BY <3>2, PostMoves
    <3> QED BY <3>1, <3>3
  <2>5. \A v \in Temporary : \A z \in Tokens : Brings(z, v) => (Using(z)' <=> Using(z))
    BY <2>3, UsingSame
  <2>6. ~Using(InPost(m))' /\ InPost(m).what = m
    BY Places DEF Using
  <2>7. VisitOnce'
    BY <1>2, <2>1, <2>4, <2>6 DEF VisitInv, VisitOnce, Brings
  <2>8. ASSUME NEW v \in Temporary
        PROVE  v \in known' <=> \E z : z \in Tokens' /\ Brings(z, v) /\ Using(z)'
    BY <2>3, <2>4, <2>5, <2>6 DEF VisitInv, InUse
  <2> QED BY <2>7, <2>8 DEF VisitInv, InUse
<1> QED BY <1>3, <1>4

LEMMA InquireVisit ==
    ASSUME SoundInv, VisitInv, NEW w \in Workflows, NEW i \in Ids, Inquire(w, i)
    PROVE  VisitInv'
<1>1. PICK m : /\ m = [to |-> To(w, i, "Status", 0), back |-> To(Outside, i, "NoReply", 0),
                       json |-> FALSE]
               /\ posted' = posted \cup {m}
               /\ UNCHANGED <<tasks, known, threads, table>>
  BY DEF Inquire
<1>2. PICK R, A : R = {} /\ A = {m}
  OBVIOUS
<1>3. posted' = (posted \ R) \cup A
  BY <1>1, <1>2
<1>4. m.json = FALSE
  BY <1>1
<1>5. \A n \in R \cup A : \A v \in Temporary : \A x : x.what = n => ~Brings(x, v)
  BY <1>2, <1>4, BringsNone
<1> QED BY <1>1, <1>3, <1>5, PostVisit

LEMMA DispatchVisit ==
    ASSUME SoundInv, VisitInv, NEW m \in posted,
           Abort(m) \/ Deliver(m) \/ Route(m) \/ Register(m) \/ Misfit(m) \/ Refuse(m)
    PROVE  VisitInv'
<1>1. m \in Message /\ Shaped(m)
  BY DEF SoundInv, TypeOK, Shapes
<1>2. UNCHANGED <<threads, table>>
  BY DEF Abort, Deliver, Route, Register, Misfit, Refuse
<1>3. pc' = pc /\ msg' = msg /\ Originals' = Originals /\ phase' = phase
  BY <1>2, WiresSame DEF table
<1>4. \A v \in Temporary : \A z \in Tokens : Brings(z, v) => (Using(z)' <=> Using(z))
  BY <1>3, UsingSame
<1>5. InPost(m) \in Tokens /\ InPost(m).what = m /\ ~Using(InPost(m))
  BY Places, TokenPlaces DEF TokensPlaced, Using
<1>6. CASE Abort(m) \/ Deliver(m)
  <2>1. PICK R, A : R = {m} /\ A = {}
    OBVIOUS
  <2>2. posted' = (posted \ R) \cup A /\ tasks' = tasks /\ known' = known
    BY <1>6, <2>1 DEF Abort, Deliver
  <2>3. \A n \in R \cup A : \A v \in Temporary : \A x : x.what = n => ~Brings(x, v)
    <3>1. m.to.kind # "DefaultAction" \/ m.to.wf \notin Temporary
      BY <1>6, Constants DEF Abort, Deliver
    <3> QED BY <2>1, <3>1, BringsNone
  <2> QED BY <1>2, <2>2, <2>3, PostVisit
<1>7. CASE Route(m)
  <2>1. posted' = posted \ {m} /\ tasks' = tasks \cup {m} /\ known' = known
    BY <1>7 DEF Route
  <2>2. \A z : z \in Tokens' <=> (z \in Tokens /\ z # InPost(m)) \/ z = InPool(m)
    BY <1>3, <2>1, PassMoves
  <2>3. \A v \in Temporary : ~Brings(InPost(m), v) /\ ~Brings(InPool(m), v)
    <3>1. m.to.kind # "DefaultAction" \/ m.to.wf \notin Temporary
      BY <1>7 DEF Route
    <3> QED BY <3>1, Places, BringsNone
  <2> QED BY <1>4, <2>1, <2>2, <2>3, VisitStays
<1>8. CASE Register(m)
  <2>1. PICK w \in Temporary : w = m.to.wf /\ w \notin known
    BY <1>8 DEF Register
  <2>2. /\ posted' = posted \ {m} /\ tasks' = tasks \cup {m}
        /\ known' = known \cup {w} /\ m.json
    BY <1>8, <2>1 DEF Register
  <2>3. \A z : z \in Tokens' <=> (z \in Tokens /\ z # InPost(m)) \/ z = InPool(m)
    BY <1>3, <2>2, PassMoves
  <2>4. InPool(m).what = m /\ Using(InPool(m))'
    BY Places DEF Using
  <2>5. Brings(InPost(m), w) /\ Brings(InPool(m), w)
    <3>1. IsQuestion(m)
      BY <1>1, <2>1, <2>2, Constants DEF Shaped, IsStatus, IsAnswer, IsVoid
    <3> QED BY <1>5, <2>1, <2>4, <3>1 DEF Brings
  <2> QED BY <1>4, <1>5, <2>2, <2>3, <2>4, <2>5, VisitMoves
<1>9. CASE Misfit(m) \/ Refuse(m)
  <2>1. /\ posted' = (posted \ {m}) \cup {CreateReply(m)} /\ tasks' = tasks
        /\ known' = known /\ m.to.wf \in Temporary
    BY <1>9 DEF Misfit, Refuse
  <2>2. PICK R, A : R = {m} /\ A = {CreateReply(m)}
    OBVIOUS
  <2>3. \A z : z \in Tokens' <=> (z \in Tokens /\ z # InPost(m)) \/ z = InPost(CreateReply(m))
    <3>1. posted' = (posted \ R) \cup A /\ UNCHANGED <<tasks, pc, msg>> /\ Originals' = Originals
      BY <1>3, <2>1, <2>2
    <3>2. \A z : z \in Tokens' <=> \/ z \in Tokens /\ ~(\E n \in R : z = InPost(n))
                                   \/ \E n \in A : z = InPost(n)
      BY <3>1, PostMoves
    <3> QED BY <2>2, <3>2
  <2>4. \A v \in Temporary : ~Brings(InPost(CreateReply(m)), v)
    <3>1. ~CreateReply(m).json
      BY DEF CreateReply
    <3>2. InPost(CreateReply(m)).what = CreateReply(m)
      BY Places
    <3> QED BY <3>1, <3>2 DEF Brings, IsQuestion
  <2>5. VisitOnce'
    BY <2>3, <2>4 DEF VisitInv, VisitOnce
  <2>6. ASSUME NEW v \in Temporary
        PROVE  v \in known' <=> \E z : z \in Tokens' /\ Brings(z, v) /\ Using(z)'
    BY <1>4, <1>5, <2>1, <2>3, <2>4 DEF VisitInv, InUse
  <2> QED BY <2>5, <2>6 DEF VisitInv, InUse
<1> QED BY <1>6, <1>7, <1>8, <1>9

LEMMA TakeVisit ==
    ASSUME SoundInv, VisitInv, NEW t \in Pool, Take(t)
    PROVE  VisitInv'
<1>1. PICK m \in tasks :
        /\ tasks' = tasks \ {m} /\ msg' = [msg EXCEPT ![t] = m]
        /\ pc[t] = "idle" /\ pc' = [pc EXCEPT ![t] = "blocked"]
        /\ UNCHANGED <<posted, phase, original, known>>
  BY DEF Take, Goto, table
<1>2. /\ pc'[t] = "blocked" /\ msg'[t] = m
      /\ \A u \in Pool : u # t => pc'[u] = pc[u] /\ msg'[u] = msg[u]
  BY <1>1 DEF SoundInv, TypeOK
<1>3. Originals' = Originals
  BY <1>1 DEF Originals, Has
<1>4. \A z : z \in Tokens' <=> (z \in Tokens /\ z # InPool(m)) \/ z = InHand(t, m)
  BY <1>1, <1>2, <1>3, TakeMoves
<1>5. \A v \in Temporary : \A z \in Tokens : Brings(z, v) => (Using(z)' <=> Using(z))
  BY <1>1, UsingSame
<1>6. /\ InPool(m) \in Tokens /\ Using(InPool(m)) /\ Using(InHand(t, m))'
      /\ InPool(m).what = m /\ InHand(t, m).what = m
  BY Places, TokenPlaces DEF TokensPlaced, Using
<1>7. \A v : Brings(InPool(m), v) <=> Brings(InHand(t, m), v)
  BY <1>6 DEF Brings
<1>8. CASE \E w \in Temporary : Brings(InPool(m), w)
  <2>1. PICK w \in Temporary : Brings(InPool(m), w)
    BY <1>8
  <2>2. w \in known'
    BY <1>1, <1>6, <2>1 DEF VisitInv, InUse
  <2> QED BY <1>1, <1>4, <1>5, <1>6, <1>7, <2>1, <2>2, VisitMoves
<1>9. CASE ~\E w \in Temporary : Brings(InPool(m), w)
  BY <1>1, <1>4, <1>5, <1>7, <1>9, VisitStays
<1> QED BY <1>8, <1>9

\* A thread that enters no session, or one that is open, brings nobody.
LEMMA OldSession ==
    ASSUME SoundInv, VisitInv, NEW t \in Pool, pc[t] = "blocked", NEW w \in Temporary,
           Has(msg[t].to.wf, msg[t].to.id)
    PROVE  ~Brings(InHand(t, msg[t]), w)
<1> SUFFICES ASSUME Brings(InHand(t, msg[t]), w) PROVE FALSE
  OBVIOUS
<1>1. InHand(t, msg[t]) \in Tokens /\ InHand(t, msg[t]).what = msg[t]
  BY HandToken
<1>2. msg[t].to.wf = w /\ w \in Workflows /\ msg[t].to.id \in Ids
  BY <1>1, Taken DEF Brings
<1>3. PICK m \in Message : /\ m = original[w][msg[t].to.id] /\ Opens(m)
                           /\ m.to.wf = w /\ m.to.id = msg[t].to.id
  BY <1>2 DEF SoundInv, Shapes
<1>4. InSession(m) \in Tokens /\ InSession(m).what = m
  BY <1>2, <1>3, Places, TokenPlaces DEF TokensPlaced, Originals
<1>5. Brings(InSession(m), w)
  BY <1>3, <1>4 DEF Brings, Opens, IsStatus
<1>6. InSession(m) = InHand(t, msg[t])
  BY <1>1, <1>4, <1>5 DEF VisitInv, VisitOnce
<1> QED BY <1>6, Places

\* The session that opens has the guest's request.
LEMMA OpenVisit ==
    ASSUME SoundInv, VisitInv, NEW t \in Pool, Open(t)
    PROVE  VisitInv'
<1>1. PICK m \in Message, w \in Workflows, i \in Ids :
        /\ m = msg[t] /\ w = m.to.wf /\ i = m.to.id /\ Shaped(m)
        /\ pc[t] = "blocked" /\ CanExecute(m) /\ ~Has(w, i)
        /\ original' = Set(original, w, i, m)
        /\ UNCHANGED <<posted, tasks, known>>
  BY Taken DEF Open, wires
<1>2. PICK first \in {"kept", "running"} : phase' = Set(phase, w, i, first)
  BY <1>1 DEF Open
<1>3. pc'[t] # "blocked" /\ \A u \in Pool : u # t => pc'[u] = pc[u] /\ msg'[u] = msg[u]
  <2>1. TypeOK
    BY DEF SoundInv
  <2>2. Return(t) \/ (Goto(t, "run") /\ msg' = msg)
    BY <1>1 DEF Open
  <2> QED BY <2>1, <2>2, ReturnParts, GotoParts DEF Working
<1>4. Originals' = Originals \cup {m}
  BY <1>1, <1>2, OpenOriginals
<1>5. \A z : z \in Tokens' <=> (z \in Tokens /\ z # InHand(t, m)) \/ z = InSession(m)
  <2>1. PICK A, B : A = {} /\ B = {m}
    OBVIOUS
  <2>2. posted' = posted \cup A /\ Originals' = Originals \cup B /\ UNCHANGED tasks
    BY <1>1, <1>4, <2>1
  <2>3. \A z : z \in Tokens' <=> \/ z \in Tokens /\ z # InHand(t, msg[t])
                                 \/ \E n \in A : z = InPost(n)
                                 \/ \E n \in B : z = InSession(n)
    BY <1>1, <1>3, <2>2, HandMoves
  <2> QED BY <1>1, <2>1, <2>3
<1>6. \A c \in Workflows, j \in Ids : ~(c = w /\ j = i) => phase'[c][j] = phase[c][j]
  BY <1>2 DEF SoundInv, TypeOK, Set, Phases
<1>7. phase'[w][i] = first
  BY <1>2 DEF SoundInv, TypeOK, Set, Phases
<1>8. \A c \in Temporary, j \in Ids : phase'[c][j] = "over" <=> phase[c][j] = "over"
  BY <1>1, <1>6, <1>7, Constants DEF Has, SoundInv
<1>9. \A v \in Temporary : \A z \in Tokens : Brings(z, v) => (Using(z)' <=> Using(z))
  BY <1>8, UsingSame
<1>10. /\ InHand(t, m) \in Tokens /\ InHand(t, m).what = m /\ InSession(m).what = m
       /\ Using(InHand(t, m)) /\ Using(InSession(m))'
  BY <1>1, <1>7, HandToken, Places DEF Using
<1>11. \A v : Brings(InHand(t, m), v) <=> Brings(InSession(m), v)
  BY <1>10 DEF Brings
<1>12. CASE \E v \in Temporary : Brings(InHand(t, m), v)
  <2>1. PICK v \in Temporary : Brings(InHand(t, m), v)
    BY <1>12
  <2>2. v \in known'
    BY <1>1, <1>10, <2>1 DEF VisitInv, InUse
  <2> QED BY <1>1, <1>5, <1>9, <1>10, <1>11, <2>1, <2>2, VisitMoves
<1>13. CASE ~\E v \in Temporary : Brings(InHand(t, m), v)
  BY <1>1, <1>5, <1>9, <1>11, <1>13, VisitStays
<1> QED BY <1>12, <1>13

\* A thread drops a message that brings nobody, and may answer it.
LEMMA DropVisit ==
    ASSUME SoundInv, VisitInv, NEW t \in Pool, pc[t] = "blocked", pc'[t] # "blocked",
           \A u \in Pool : u # t => pc'[u] = pc[u] /\ msg'[u] = msg[u],
           Has(msg[t].to.wf, msg[t].to.id) \/ msg[t].to.kind # "DefaultAction",
           NEW A, posted' = posted \cup A,
           \A n \in A : \A v \in Temporary : \A x : x.what = n => ~Brings(x, v),
           UNCHANGED <<tasks, known>>, Originals' = Originals,
           \A c \in Temporary, j \in Ids : phase'[c][j] = "over" <=> phase[c][j] = "over"
    PROVE  VisitInv'
<1>1. \A v \in Temporary : ~Brings(InHand(t, msg[t]), v)
  <2>1. InHand(t, msg[t]).what = msg[t]
    BY Places
  <2> QED BY <2>1, OldSession, BringsNone
<1>2. \A z : z \in Tokens' <=> (z \in Tokens /\ z # InHand(t, msg[t])) \/ \E n \in A : z = InPost(n)
  <2>1. PICK B : B = {}
    OBVIOUS
  <2>2. Originals' = Originals \cup B /\ UNCHANGED tasks
    BY <2>1
  <2>3. \A z : z \in Tokens' <=> \/ z \in Tokens /\ z # InHand(t, msg[t])
                                 \/ \E n \in A : z = InPost(n)
                                 \/ \E n \in B : z = InSession(n)
    BY <2>2, HandMoves
  <2> QED BY <2>1, <2>3
<1>3. \A v \in Temporary : \A z : Brings(z, v) => (z \in Tokens' <=> z \in Tokens)
  BY <1>1, <1>2, Places
<1>4. \A v \in Temporary : \A z \in Tokens : Brings(z, v) => (Using(z)' <=> Using(z))
  BY UsingSame
<1> QED BY <1>3, <1>4, VisitStays

LEMMA BlockedVisit ==
    ASSUME CallInv, VisitInv, NEW t \in Pool, Keep(t) \/ Enter(t) \/ Reject(t)
    PROVE  VisitInv'
<1>1. SoundInv /\ OwedInv /\ TypeOK
  BY DEF CallInv, SoundInv
<1>2. pc[t] = "blocked"
  BY DEF Keep, Enter, Reject
<1>3. PICK m \in Message, w \in Workflows, i \in Ids :
        /\ m = msg[t] /\ w = m.to.wf /\ i = m.to.id /\ Shaped(m)
  BY <1>1, <1>2, Taken
<1>4. /\ pc'[t] # "blocked"
      /\ \A u \in Pool : u # t => pc'[u] = pc[u] /\ msg'[u] = msg[u]
  <2>1. Return(t) \/ (msg' = msg /\ \E l \in {"run", "fail", "leave"} : pc' = [pc EXCEPT ![t] = l])
    BY DEF Keep, Enter, Reject, Goto
  <2> QED BY <1>1, <2>1, ReturnParts DEF TypeOK
<1>5. Free(w) /\ UNCHANGED <<tasks, known, original>>
  BY <1>3 DEF Keep, Enter, Reject, wires, table
<1>6. CASE Keep(t)
  <2>1. posted' = posted \cup {} /\ phase' = phase /\ Has(w, i)
    BY <1>3, <1>6 DEF Keep, wires
  <2>2. Originals' = Originals
    BY <1>5, <2>1 DEF Originals, Has
  <2>3. PICK A : A = {}
    OBVIOUS
  <2>4. /\ posted' = posted \cup A /\ Has(msg[t].to.wf, msg[t].to.id)
        /\ \A n \in A : \A v \in Temporary : \A x : x.what = n => ~Brings(x, v)
    BY <1>3, <2>1, <2>3
  <2> QED BY <1>1, <1>2, <1>4, <1>5, <2>1, <2>2, <2>4, DropVisit
<1>7. CASE Enter(t)
  <2>1. /\ posted' = posted /\ Has(w, i)
        /\ \/ phase' = phase
           \/ phase' = Set(phase, w, i, "running") /\ m.to.kind \in {"Reply", "Error"}
    BY <1>3, <1>7 DEF Enter, wires, Expected
  <2>2. \A c \in Workflows, j \in Ids : /\ phase'[c][j] = "over" <=> phase[c][j] = "over"
                                        /\ Has(c, j)' <=> Has(c, j)
    <3>1. CASE phase' = phase
      BY <3>1 DEF Has
    <3>2. CASE phase' = Set(phase, w, i, "running") /\ m.to.kind \in {"Reply", "Error"}
      <4>1. phase[w][i] = "waiting"
        BY <1>1, <1>2, <1>3, <1>5, <3>2, AnswerAwaited
      <4>2. /\ phase'[w][i] = "running"
            /\ \A c \in Workflows, j \in Ids : ~(c = w /\ j = i) => phase'[c][j] = phase[c][j]
        BY <1>1, <3>2 DEF TypeOK, Set, Phases
      <4> QED BY <4>1, <4>2 DEF Has
    <3> QED BY <2>1, <3>1, <3>2
  <2>3. Originals' = Originals
    BY <1>5, <2>2, AddressParts DEF Originals
  <2>4. PICK A : A = {}
    OBVIOUS
  <2>5. /\ posted' = posted \cup A /\ Has(msg[t].to.wf, msg[t].to.id)
        /\ \A n \in A : \A v \in Temporary : \A x : x.what = n => ~Brings(x, v)
        /\ \A c \in Temporary, j \in Ids : phase'[c][j] = "over" <=> phase[c][j] = "over"
    BY <1>3, <2>1, <2>2, <2>4, Constants
  <2> QED BY <1>1, <1>2, <1>4, <1>5, <2>3, <2>5, DropVisit
<1>8. CASE Reject(t)
  <2>1. posted' = posted \cup {CreateReply(m)} /\ phase' = phase /\ ~CanExecute(m)
    BY <1>3, <1>8 DEF Reject, table
  <2>2. Originals' = Originals
    BY <1>5, <2>1 DEF Originals, Has
  <2>3. PICK A : A = {CreateReply(m)}
    OBVIOUS
  <2>4. \A n \in A : \A v \in Temporary : \A x : x.what = n => ~Brings(x, v)
    <3>1. ~CreateReply(m).json
      BY DEF CreateReply
    <3> QED BY <2>3, <3>1 DEF Brings, IsQuestion
  <2>5. /\ Has(msg[t].to.wf, msg[t].to.id) \/ msg[t].to.kind # "DefaultAction"
        /\ posted' = posted \cup A
    BY <1>3, <2>1, <2>3 DEF CanExecute
  <2> QED BY <1>1, <1>2, <1>4, <1>5, <2>1, <2>2, <2>4, <2>5, DropVisit
<1> QED BY <1>6, <1>7, <1>8

\* What a thread at work does with the messages.
LEMMA WorkTokens ==
    ASSUME SoundInv, NEW t \in Pool, Call(t) \/ Wait(t) \/ Answer(t) \/ Die(t) \/ Leave(t)
    PROVE  /\ Originals' = Originals
           /\ \A w \in Temporary : \A z : Brings(z, w) => (z \in Tokens' <=> z \in Tokens)
<1>1. pc[t] \in Working \cup {"leave"} /\ pc[t] # "blocked"
  BY DEF Call, Wait, Answer, Die, Leave, Working
<1>2. PICK w \in Workflows, i \in Ids :
        w = msg[t].to.wf /\ i = msg[t].to.id /\ Has(w, i)
  BY <1>1, AtWork
<1>3. original' = original /\ tasks' = tasks
  BY DEF Call, Wait, Answer, Die, Leave, wires, table
<1>4. pc'[t] # "blocked" /\ \A u \in Pool : u # t => pc'[u] = pc[u] /\ msg'[u] = msg[u]
  <2>1. Return(t) \/ (msg' = msg /\ \E l \in {"wait", "die", "leave"} : pc' = [pc EXCEPT ![t] = l])
    BY DEF Call, Wait, Answer, Die, Leave, Goto
  <2> QED BY <2>1, ReturnParts DEF SoundInv, TypeOK
<1>5. \A c \in Workflows, j \in Ids : Has(c, j)' <=> Has(c, j)
  <2>1. CASE phase' = phase
    BY <2>1 DEF Has
  <2>2. CASE phase' = Set(phase, w, i, "waiting") \/ phase' = Set(phase, w, i, "over")
    <3>1. /\ phase'[w][i] \in {"waiting", "over"}
          /\ \A c \in Workflows, j \in Ids : ~(c = w /\ j = i) => phase'[c][j] = phase[c][j]
      BY <2>2 DEF SoundInv, TypeOK, Set, Phases
    <3> QED BY <1>2, <3>1 DEF Has
  <2> QED BY <1>2, <2>1, <2>2 DEF Call, Wait, Answer, Die, Leave, table
<1>6. Originals' = Originals
  BY <1>3, <1>5, AddressParts DEF Originals
<1>7. PICK A : posted' = posted \cup A /\ \A n \in A : ~n.json \/ n.to.wf \notin Temporary
  <2>1. CASE posted' = posted
    <3>1. PICK B : B = {}
      OBVIOUS
    <3>2. posted' = posted \cup B /\ \A n \in B : ~n.json \/ n.to.wf \notin Temporary
      BY <2>1, <3>1
    <3> QED BY <3>2
  <2>2. CASE Call(t)
    <3>1. PICK c \in Calls[w] :
            posted' = posted \cup {NewRequest(c, To(w, i, "Reply", level[w][i]))}
      BY <1>2, <2>2 DEF Call
    <3>2. PICK m, B : m = NewRequest(c, To(w, i, "Reply", level[w][i])) /\ B = {m}
      OBVIOUS
    <3>3. m.to.wf = c /\ c \notin Temporary
      BY <3>2, Constants DEF NewRequest, To
    <3>4. posted' = posted \cup B /\ \A n \in B : ~n.json \/ n.to.wf \notin Temporary
      BY <3>1, <3>2, <3>3
    <3> QED BY <3>4
  <2>3. CASE Answer(t)
    <3>1. PICK m \in Message : m = original[w][i]
      BY <1>2 DEF SoundInv, Shapes
    <3>2. PICK answer : /\ answer = CreateReply(m) \/ answer = ErrorOf(m)
                        /\ posted' = posted \cup {answer}
      BY <1>2, <2>3, <3>1 DEF Answer
    <3>3. answer.json = FALSE
      <4>1. CreateReply(m).json = FALSE
        BY <3>1, CreateReplyParts
      <4>2. ErrorOf(m).json = FALSE
        BY <3>1, ErrorOfParts
      <4> QED BY <3>2, <4>1, <4>2
    <3>4. PICK B : B = {answer}
      OBVIOUS
    <3>5. posted' = posted \cup B /\ \A n \in B : ~n.json \/ n.to.wf \notin Temporary
      BY <3>2, <3>3, <3>4
    <3> QED BY <3>5
  <2> QED BY <2>1, <2>2, <2>3 DEF Wait, Die, Leave, wires
<1>8. \A z : z \in Tokens' <=> z \in Tokens \/ \E n \in A : z = InPost(n)
  BY <1>1, <1>3, <1>4, <1>6, <1>7, WorkMoves
<1>9. \A v \in Temporary : \A n \in A : ~Brings(InPost(n), v)
  BY <1>7, Places DEF Brings, IsQuestion
<1> QED BY <1>6, <1>8, <1>9

LEMMA WorkVisit ==
    ASSUME SoundInv, VisitInv, NEW t \in Pool, Call(t) \/ Wait(t) \/ Answer(t) \/ Leave(t)
    PROVE  VisitInv'
<1>1. \A w \in Temporary : \A z : Brings(z, w) => (z \in Tokens' <=> z \in Tokens)
  BY WorkTokens
<1>2. known' = known
  BY DEF Call, Wait, Answer, Leave, wires
<1>3. \A c \in Temporary, j \in Ids : phase'[c][j] = "over" <=> phase[c][j] = "over"
  <2>1. CASE phase' = phase
    BY <2>1
  <2>2. CASE Wait(t)
    <3>1. pc[t] \in Working
      BY <2>2 DEF Wait, Working
    <3>2. PICK w \in Workflows, i \in Ids :
            w = msg[t].to.wf /\ i = msg[t].to.id /\ phase[w][i] = "running"
      BY <3>1, AtWork
    <3>3. phase' = Set(phase, w, i, "waiting")
      BY <2>2, <3>2 DEF Wait
    <3>4. /\ phase'[w][i] = "waiting"
          /\ \A c \in Workflows, j \in Ids : ~(c = w /\ j = i) => phase'[c][j] = phase[c][j]
      BY <3>3 DEF SoundInv, TypeOK, Set, Phases
    <3> QED BY <3>2, <3>4, Constants
  <2> QED BY <2>1, <2>2 DEF Call, Answer, Leave, table
<1>4. \A v \in Temporary : \A z \in Tokens : Brings(z, v) => (Using(z)' <=> Using(z))
  BY <1>3, UsingSame
<1> QED BY <1>1, <1>2, <1>4, VisitStays

\* The guest leaves with its request.
LEMMA DieVisit ==
    ASSUME SoundInv, VisitInv, NEW t \in Pool, Die(t)
    PROVE  VisitInv'
<1>1. \A w \in Temporary : \A z : Brings(z, w) => (z \in Tokens' <=> z \in Tokens)
  BY WorkTokens
<1>2. pc[t] \in Working
  BY DEF Die, Working
<1>3. PICK w \in Workflows, i \in Ids :
        /\ w = msg[t].to.wf /\ i = msg[t].to.id
        /\ phase[w][i] = "running" /\ Has(w, i)
  BY <1>2, AtWork
<1>4. phase' = Set(phase, w, i, "over") /\ known' = known \ ({w} \cap Temporary)
  BY <1>3 DEF Die, Dropped
<1>5. /\ phase'[w][i] = "over"
      /\ \A c \in Workflows, j \in Ids : ~(c = w /\ j = i) => phase'[c][j] = phase[c][j]
  BY <1>4 DEF SoundInv, TypeOK, Set, Phases
<1>6. VisitOnce'
  BY <1>1 DEF VisitInv, VisitOnce
<1>7. ASSUME NEW v \in Temporary, v # w
      PROVE  v \in known' <=> \E z : z \in Tokens' /\ Brings(z, v) /\ Using(z)'
  <2>1. \A z \in Tokens : Brings(z, v) => (Using(z)' <=> Using(z))
    <3> SUFFICES ASSUME NEW z \in Tokens, Brings(z, v), z.at = "session"
                 PROVE  Using(z)' <=> Using(z)
      BY DEF Using
    <3>1. z.what.to.wf = v /\ z.what.to.id \in Ids
      BY TokenSession DEF Brings
    <3> QED BY <1>5, <1>7, <3>1, Constants DEF Using
  <2>2. v \in known' <=> v \in known
    BY <1>4, <1>7
  <2> QED BY <1>1, <2>1, <2>2 DEF VisitInv, InUse
<1>8. ASSUME w \in Temporary
      PROVE  w \notin known' /\ ~\E z : z \in Tokens' /\ Brings(z, w) /\ Using(z)'
  <2>1. PICK m \in Message :
          /\ m = original[w][i] /\ Opens(m) /\ m.to.wf = w /\ m.to.id = i
    BY <1>3 DEF SoundInv, Shapes
  <2>2. InSession(m) \in Tokens /\ InSession(m).what = m /\ InSession(m).at = "session"
    BY <1>3, <2>1, Places, TokenPlaces DEF TokensPlaced, Originals
  <2>3. Brings(InSession(m), w)
    BY <1>8, <2>1, <2>2 DEF Brings, Opens, IsStatus
  <2>4. \A z : z \in Tokens' /\ Brings(z, w) => z = InSession(m)
    BY <1>1, <1>8, <2>2, <2>3 DEF VisitInv, VisitOnce
  <2>5. ~Using(InSession(m))'
    BY <1>5, <2>1, <2>2 DEF Using
  <2> QED BY <1>4, <1>8, <2>4, <2>5
<1> QED BY <1>6, <1>7, <1>8 DEF VisitInv, InUse

LEMMA VisitInit == Init => VisitInv
<1> SUFFICES ASSUME Init PROVE VisitInv
  OBVIOUS
<1>1. Originals = {} /\ posted = {} /\ tasks = {} /\ \A t \in Pool : pc[t] = "idle"
  BY AddressParts DEF Init, Originals, Has, Each
<1>2. Tokens = {} /\ \A w \in Temporary : w \notin known
  BY <1>1 DEF Tokens, Init
<1> QED BY <1>2 DEF VisitInv, VisitOnce, InUse

LEMMA VisitNext == CallInv /\ VisitInv /\ [Next]_vars => VisitInv'
<1> SUFFICES ASSUME CallInv, SoundInv, VisitInv, [Next]_vars PROVE VisitInv'
  BY DEF CallInv
<1>1. CASE UNCHANGED vars
  <2>1. PICK R, A : R = {} /\ A = {}
    OBVIOUS
  <2>2. /\ posted' = (posted \ R) \cup A /\ tasks' = tasks
        /\ UNCHANGED <<known, threads, table>>
        /\ \A m \in R \cup A : \A w \in Temporary : \A x : x.what = m => ~Brings(x, w)
    BY <1>1, <2>1 DEF vars, wires
  <2> QED BY <2>2, PostVisit
<1>2. ASSUME NEW w \in Workflows, Ask(w) PROVE VisitInv'
  BY <1>2, AskVisit
<1>3. ASSUME NEW w \in Workflows, NEW i \in Ids, Inquire(w, i) PROVE VisitInv'
  BY <1>3, InquireVisit
<1>4. CASE Dispatch
  BY <1>4, DispatchVisit DEF Dispatch
<1>5. ASSUME NEW t \in Pool, Perform(t) PROVE VisitInv'
  BY <1>5, TakeVisit, OpenVisit, BlockedVisit, WorkVisit, DieVisit DEF Perform
<1>6. CASE Rest
  BY <1>1, <1>6 DEF Rest
<1> QED BY <1>1, <1>2, <1>3, <1>4, <1>5, <1>6 DEF Next

\* The controller of the guests knows one while its request is served, and no
\* longer: requestFinished drops it when its session is over, and never a guest
\* whose session runs or waits.
THEOREM GuestsInUse == Spec => []TemporaryInUse
<1>1. Init => VisitInv
  BY VisitInit
<1>2. CallInv /\ VisitInv /\ [Next]_vars => VisitInv'
  BY VisitNext
<1>3. SoundInv /\ VisitInv => TemporaryInUse
  <2> SUFFICES ASSUME SoundInv, VisitInv, NEW w \in Temporary
               PROVE  /\ (\E i \in Ids : phase[w][i] \in {"kept", "running", "waiting"})
                            => w \in known
                      /\ w \in known =>
                            \/ \E i \in Ids : phase[w][i] \in {"kept", "running", "waiting"}
                            \/ \E m \in InFlight : m.to.wf = w
    BY DEF TemporaryInUse
  <2>1. ASSUME NEW i \in Ids, phase[w][i] \in {"kept", "running", "waiting"}
        PROVE  w \in known
    <3>1. w \in Workflows /\ Has(w, i)
      BY <2>1, Constants DEF Has
    <3>2. PICK m \in Message :
            /\ m = original[w][i] /\ Opens(m) /\ m.to.wf = w /\ m.to.id = i
      BY <3>1 DEF SoundInv, Shapes
    <3>3. InSession(m) \in Tokens /\ InSession(m).what = m /\ InSession(m).at = "session"
      BY <3>1, <3>2, Places, TokenPlaces DEF TokensPlaced, Originals
    <3>4. Brings(InSession(m), w) /\ Using(InSession(m))
      BY <2>1, <3>2, <3>3 DEF Brings, Using, Opens, IsStatus
    <3> QED BY <3>3, <3>4 DEF VisitInv, InUse
  <2>2. ASSUME w \in known
        PROVE  \/ \E i \in Ids : phase[w][i] \in {"kept", "running", "waiting"}
               \/ \E m \in InFlight : m.to.wf = w
    <3>1. PICK x \in Tokens : Brings(x, w) /\ Using(x)
      BY <2>2 DEF VisitInv, InUse
    <3>2. x.what.to.wf = w
      BY <3>1 DEF Brings
    <3>3. CASE x.at = "session"
      <4>1. PICK i \in Ids : i = x.what.to.id /\ Has(w, i)
        BY <3>2, <3>3, TokenSession
      <4>2. phase[w][i] \in Phases /\ phase[w][i] # "over"
        BY <3>1, <3>2, <3>3, <4>1, Constants DEF Using, SoundInv, TypeOK
      <4> QED BY <4>1, <4>2 DEF Has, Phases
    <3>4. CASE x.at # "session"
      <4>1. x.what \in InFlight
        BY <3>4, Places, TokenPlaces DEF TokensPlaced, InFlight
      <4> QED BY <3>2, <4>1
    <3> QED BY <3>3, <3>4
  <2> QED BY <2>1, <2>2
<1>4. CallInv => SoundInv
  BY DEF CallInv
<1> QED BY <1>1, <1>2, <1>3, <1>4, CallInvariant, PTL DEF Spec

=============================================================================
