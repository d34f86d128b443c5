------------------------------ MODULE Building ------------------------------
(***************************************************************************)
(* Authors put workflows together and hand them to a controller while      *)
(* sessions run actions that call them: core/controller.cpp,               *)
(* StateMachine::validate, and ExecuteWorkflow, whose one object keeps the *)
(* contract of its callee for all the sessions of its workflow.            *)
(*                                                                         *)
(* A thread does one of these operations at a time.  Authors do not touch  *)
(* what the controller has accepted.  A session may check an action of a   *)
(* workflow that has been dropped: the call that runs it holds it.         *)
(***************************************************************************)
EXTENDS Structure

CONSTANTS
    Names,      \* of the workflows authors make and drop
    Puts,       \* the names of inputs and outputs; "" is none
    Objects,    \* a prefix of 1, 2, ...: the Workflow objects there may be
    Sessions,
    Parts,      \* what authors add: records of an id, an action, bindings
    Inputs,     \* the starters they add
    Shown,      \* what they expose: records of an id, a key, an alias
    Requests,   \* records of a workflow's name and the action bypasses
    Types,      \* the actions the factory makes, by name
    Stock,      \* sequence of workflows the controller is given at first
    MaxEdits,   \* bound: drafts, and changes of them
    MaxChecks   \* bound: calls found fit

VARIABLES
    heap,       \* the Workflow objects made so far
    workflows,  \* of the controller: name to object
    draft,      \* the objects authors are still working at
    sessions,   \* [of, own]: the workflow's object and the action bypasses
    checks,     \* history: <<session, action>>, the calls found fit, in order
    crashed,    \* an exception or a null pointer ended the program
    edits

vars == <<heap, workflows, draft, sessions, checks, crashed, edits>>

\* What the parts of a workflow look like.
BindingSet == [from : Puts, to : Int, in : Puts]
StarterSet == [from : Puts, act : Int, in : Puts]

IsProps(ps) == ps = [guarded |-> ps.guarded, props |-> ps.props]
IsAction(act) ==
    /\ act = [type |-> act.type, takes |-> act.takes, offers |-> act.offers,
              props |-> act.props, prepared |-> act.prepared]
    /\ IsProps(act.props)
    /\ act.props.guarded = TRUE
    /\ act.prepared \in BOOLEAN
    /\ act.prepared => act.type = "ExecuteWorkflow"

\* Every action has bindings and every binding an action, the steps init makes
\* stay, and no id is negative but those of steps.
Made(w) ==
    /\ w = [name |-> w.name, acts |-> w.acts, outputs |-> w.outputs,
            producers |-> w.producers, starters |-> w.starters, exposed |-> w.exposed]
    /\ IsFiniteSet(DOMAIN w.acts)
    /\ FirstSteps \subseteq DOMAIN w.acts
    /\ DOMAIN w.acts \subseteq Wrapped \cup Nat
    /\ \A a \in DOMAIN w.acts : IsAction(w.acts[a])
    /\ w.outputs \in [DOMAIN w.acts -> Seq(BindingSet)]
    /\ w.starters \in Seq(StarterSet)

\* Authors add actions and known steps; sessions bring sets of properties; the
\* workflows of the stock are made as all are.
ASSUME PutsAssumption == "" \in Puts
ASSUME PartsAssumption ==
    /\ \A part \in Parts : /\ part.id \in Int
                           /\ IsAction(part.act)
                           /\ part.bindings \in Seq(BindingSet)
    /\ Inputs \subseteq StarterSet
    /\ \A t \in DOMAIN Types : IsAction(Types[t])
    /\ \A r \in Requests : \A a \in DOMAIN r.bypass : IsProps(r.bypass[a])

ASSUME StockAssumption ==
    /\ Len(Stock) \in Nat
    /\ DOMAIN Stock = 1 .. Len(Stock)
    /\ 1 .. Len(Stock) \subseteq Objects
    /\ \A i \in 1 .. Len(Stock) : Made(Stock[i])

ASSUME BoundAssumption == MaxEdits \in Nat

Callers(w) == {a \in DOMAIN w.acts : w.acts[a].type = "ExecuteWorkflow"}

-----------------------------------------------------------------------------
(* ExecuteWorkflow *)

\* The layers the action of a workflow reads its properties through: without a
\* session its own alone.  The general bypass of a request stays empty here.
OwnLayers(w, a) == <<w.acts[a].props>>
LayersOf(s, a) ==
    LET own == sessions[s].own
        w   == heap[sessions[s].of]
    IN  IF a \in DOMAIN own THEN <<own[a], w.acts[a].props>> ELSE OwnLayers(w, a)

Callee(layers)  == Read(layers, "string", "workflow", "")
Dynamic(layers) == Read(layers, "bool", "dynamic", FALSE)

WithAct(hp, o, a, act) ==
    LET w == hp[o]
    IN  [hp EXCEPT ![o] = [w EXCEPT !.acts = [w.acts EXCEPT ![a] = act]]]
Unprepared(act) == [act EXCEPT !.prepared = FALSE]

\* The contract is cleared before the callee, which may be the same object, is read.
Bare(act) == [act EXCEPT !.takes = << >>, !.offers = << >>]
Cleared(hp, o, a) == WithAct(hp, o, a, Bare(hp[o].acts[a]))

Copied(hp, o, a, callee) ==
    LET w == Cleared(hp, o, a)[callee]
    IN  WithAct(hp, o, a, [hp[o].acts[a] EXCEPT !.takes = InputsOf(w), !.offers = OutputsOf(w),
                                                !.props = PropertiesWith(w, @),
                                                !.prepared = TRUE])

\* prepare, once it is known not to be prepared: the heap it leaves, whether the
\* callee is known, whether it throws.
Prepare(hp, known, o, a, name) ==
    IF name \notin DOMAIN known
    THEN [heap |-> WithAct(hp, o, a, Unprepared(hp[o].acts[a])), ok |-> FALSE, thrown |-> FALSE]
    ELSE IF CallThrows(Cleared(hp, o, a)[known[name]])
    THEN [heap |-> WithAct(hp, o, a, Unprepared(Bare(hp[o].acts[a]))),
          ok |-> FALSE, thrown |-> TRUE]
    ELSE [heap |-> Copied(hp, o, a, known[name]), ok |-> TRUE, thrown |-> FALSE]

\* expectInput and expectOutput: of an ExecuteWorkflow, after preparing it.
Expect(hp, known, o, a, side, name) ==
    LET caller == a \in Callers(hp[o]) \ Wrapped
        p == IF caller /\ ~hp[o].acts[a].prepared
             THEN Prepare(hp, known, o, a, Callee(OwnLayers(hp[o], a)))
             ELSE [heap |-> hp, ok |-> TRUE, thrown |-> FALSE]
        any == name = "" \/ (caller /\ Dynamic(OwnLayers(p.heap[o], a)))
        puts == IF side = "input" THEN Takes(p.heap[o], a) ELSE Offers(p.heap[o], a)
    IN  [p EXCEPT !.ok = @ /\ (any \/ name \in DOMAIN puts)]

-----------------------------------------------------------------------------
(* StateMachine::validate *)

\* The bindings, as pairs of an action and a place, and the one that comes first:
\* by action id, then in their order.
Places(w) == UNION {{<<a, i>> : i \in DOMAIN w.outputs[a]} : a \in DOMAIN w.outputs}
Foremost(left) ==
    CHOOSE p \in left : \A q \in left : p[1] < q[1] \/ (p[1] = q[1] /\ p[2] <= q[2])

\* The end of a binding is looked at when its origin is found valid.
AtEnd(out, known, o, b) ==
    IF out.thrown \/ ~out.ok \/ b.to \in {Die, Finish} THEN out
    ELSE Expect(out.heap, known, o, b.to, "input", b.in)

\* One binding: an error is noted and the next one looked at.
Noted(v, p, e) ==
    [v EXCEPT !.heap = e.heap, !.thrown = e.thrown, !.ok = @ /\ e.ok, !.left = @ \ {p}]
BindingValid(v, known, o) ==
    LET w == v.heap[o]
        p == Foremost(v.left)
        b == w.outputs[p[1]][p[2]]
    IN  IF v.thrown THEN v
        ELSE IF b.to \notin DOMAIN w.acts \cup {Die}
        THEN [v EXCEPT !.ok = FALSE, !.left = @ \ {p}]
        ELSE Noted(v, p, AtEnd(Expect(v.heap, known, o, p[1], "output", b.from), known, o, b))

\* What validate has found before it looks at a binding, and after each of them.
Unseen(hp, o) ==
    LET w == hp[o]
    IN  [heap |-> hp, thrown |-> FALSE, left |-> Places(w),
         ok |-> \A i \in DOMAIN w.starters : w.starters[i].act \in DOMAIN w.acts]
Validation(hp, known, o) ==
    LET v[n \in 0 .. Cardinality(Places(hp[o]))] ==
            IF n = 0 THEN Unseen(hp, o) ELSE BindingValid(v[n - 1], known, o)
    IN  v
Validated(hp, known, o) == Validation(hp, known, o)[Cardinality(Places(hp[o]))]
Accepted(v) == v.ok /\ ~v.thrown

\* A workflow that validates takes the place of one of the same name.
With(known, name, o) == Entry(name, o) ++ known

\* The controller's first workflows, added in order.
AddStock(c, n) ==
    LET v == Validated(c.heap ++ Entry(n, Stock[n]), c.known, n)
    IN  [heap  |-> v.heap,
         known |-> IF Accepted(v) THEN With(c.known, Stock[n].name, n) ELSE c.known]
Stocking ==
    LET c[n \in 0 .. Len(Stock)] ==
            IF n = 0 THEN [heap |-> << >>, known |-> << >>] ELSE AddStock(c[n - 1], n)
    IN  c
Stocked == Stocking[Len(Stock)]

-----------------------------------------------------------------------------
Init ==
    /\ heap = Stocked.heap
    /\ workflows = Stocked.known
    /\ draft = {}
    /\ sessions = << >>
    /\ checks = << >>
    /\ crashed = FALSE
    /\ edits = 0

Edit == ~crashed /\ edits < MaxEdits /\ edits' = edits + 1
KeepOn == ~crashed /\ UNCHANGED edits

\* Authors.
Make(w) ==
    LET o == Cardinality(DOMAIN heap) + 1
    IN  /\ o \in Objects
        /\ heap' = heap ++ Entry(o, w)
        /\ draft' = draft \cup {o}

StartDraft(name) ==
    /\ Edit
    /\ Make(NewWorkflow(name))
    /\ UNCHANGED <<workflows, sessions, checks, crashed>>

Change(o, w) ==
    /\ Edit
    /\ o \in draft
    /\ heap' = [heap EXCEPT ![o] = w]
    /\ UNCHANGED <<workflows, draft, sessions, checks, crashed>>

AddAction(o, part) == Change(o, WithAction(heap[o], part.id, part.act, part.bindings))
AddInput(o, starter) == Change(o, WithInput(heap[o], starter))
Expose(o, x) == Change(o, Exposing(heap[o], x.id, x.key, x.alias))
Unexpose(o, id) == id \in DOMAIN heap[o].exposed /\ Change(o, Unexposing(heap[o], id))
UnexposeAlias(o, x) == Change(o, UnexposingAlias(heap[o], x.id, x.alias))

\* A copy by way of JSON: str_save and str_load into a new Workflow.
SaveLoad(o) ==
    /\ Edit
    /\ Make(Loaded(NewWorkflow(heap[o].name), Saved(heap[o]), Types))
    /\ UNCHANGED <<workflows, sessions, checks, crashed>>

\* Controller::addWorkflow
AddWorkflow(o) ==
    LET v == Validated(heap, workflows, o)
    IN  /\ KeepOn
        /\ o \in draft
        /\ heap' = v.heap
        /\ crashed' = v.thrown
        /\ IF Accepted(v)
           THEN /\ workflows' = With(workflows, heap[o].name, o)
                /\ draft' = draft \ {o}
           ELSE UNCHANGED <<workflows, draft>>
        /\ UNCHANGED <<sessions, checks>>

DropWorkflow(name) ==
    /\ KeepOn
    /\ name \in DOMAIN workflows
    /\ workflows' = [n \in DOMAIN workflows \ {name} |-> workflows[n]]
    /\ UNCHANGED <<heap, draft, sessions, checks, crashed>>

\* A request to a stored workflow opens a session (pushRequest).
OpenSession(s, r) ==
    /\ KeepOn
    /\ s \notin DOMAIN sessions
    /\ r.workflow \in DOMAIN workflows
    /\ sessions' = Entry(s, [of |-> workflows[r.workflow], own |-> r.bypass]) ++ sessions
    /\ UNCHANGED <<heap, workflows, draft, checks, crashed>>

-----------------------------------------------------------------------------
(* ExecuteWorkflow::checkInputs, as it is called for a session: whenever   *)
(* an input of the action arrives.                                         *)

Mark == "__local_workflow"
Marked(s, a) ==
    IF a \in DOMAIN sessions[s].own THEN Get(sessions[s].own[a], "string", Mark, "") ELSE ""

\* Mutant: a prepared action is left as it is.
StillPreparedAlways(s, a) == heap[sessions[s].of].acts[a].prepared

\* A dynamic call stays prepared if this session has prepared it for this callee.
StillPrepared(s, a) ==
    /\ heap[sessions[s].of].acts[a].prepared
    /\ Dynamic(LayersOf(s, a)) => Marked(s, a) = Callee(LayersOf(s, a))

WithMark(s, a, name) ==
    LET own == sessions[s].own
    IN  [sessions EXCEPT ![s].own =
            Entry(a, Set(IF a \in DOMAIN own THEN own[a] ELSE Unguarded, "string", Mark, name))
            ++ @]

Check(s, a) ==
    LET o    == sessions[s].of
        name == Callee(LayersOf(s, a))
        p    == Prepare(heap, workflows, o, a, name)
    IN  /\ KeepOn
        /\ Len(checks) < MaxChecks
        /\ IF StillPrepared(s, a)
           THEN checks' = Append(checks, <<s, a>>) /\ UNCHANGED <<heap, sessions, crashed>>
           ELSE /\ heap' = p.heap
                /\ crashed' = p.thrown
                /\ sessions' = IF p.ok THEN WithMark(s, a, name) ELSE sessions
                /\ checks' = IF p.ok THEN Append(checks, <<s, a>>) ELSE checks
        /\ UNCHANGED <<workflows, draft>>

Next ==
    \/ \E name \in Names : StartDraft(name) \/ DropWorkflow(name)
    \/ \E o \in draft :
        \/ \E part \in Parts : AddAction(o, part)
        \/ \E starter \in Inputs : AddInput(o, starter)
        \/ \E x \in Shown : Expose(o, x) \/ UnexposeAlias(o, x)
        \/ \E id \in DOMAIN heap[o].exposed : Unexpose(o, id)
        \/ AddWorkflow(o)
    \/ \E o \in DOMAIN heap : SaveLoad(o)
    \/ \E s \in Sessions, r \in Requests : OpenSession(s, r)
    \/ \E s \in DOMAIN sessions : \E a \in Callers(heap[sessions[s].of]) : Check(s, a)

Spec == Init /\ [][Next]_vars

-----------------------------------------------------------------------------
\* Types, and what shared maps must agree on: sessions and controller refer to
\* objects there are and no author works at, and every workflow stays well made.
KnownNames == Names \cup {Stock[i].name : i \in DOMAIN Stock}
TypeOK ==
    /\ DOMAIN heap \subseteq Objects
    /\ \A o \in DOMAIN heap : heap[o].name \in KnownNames /\ Made(heap[o])
    /\ DOMAIN workflows \subseteq KnownNames
    /\ {workflows[n] : n \in DOMAIN workflows} \cup draft \subseteq DOMAIN heap
    /\ \A n \in DOMAIN workflows : workflows[n] \notin draft
    /\ DOMAIN sessions \subseteq Sessions
    /\ \A s \in DOMAIN sessions : sessions[s].of \in DOMAIN heap \ draft
    /\ checks \in Seq(Sessions \X (Wrapped \cup Nat))
    /\ crashed \in BOOLEAN
    /\ edits \in 0 .. MaxEdits

\* Whatever is replaced, loaded, dropped or prepared by sessions afterwards, a
\* workflow the controller has accepted stays sound: starters and bindings lead to
\* actions of its own, joins wait for nobody else, and what is bound is declared,
\* but for dynamic calls (Controller::addWorkflow, validate).
StockSound ==
    \A n \in DOMAIN workflows :
        LET w == heap[workflows[n]]
            open(a) == a \in Callers(w) /\ Dynamic(OwnLayers(w, a))
        IN  /\ \A i \in DOMAIN w.starters : w.starters[i].act \in DOMAIN w.acts
            /\ \A a \in DOMAIN w.outputs, b \in DOMAIN w.acts :
                (b \in DOMAIN w.producers /\ a \in w.producers[b]) <=> b \in Targets(w.outputs[a])
            /\ \A a \in DOMAIN w.outputs : \A i \in DOMAIN w.outputs[a] :
                LET b == w.outputs[a][i]
                IN  /\ b.to \in DOMAIN w.acts \cup {Die}
                    /\ b.from \in DOMAIN Offers(w, a) \cup {""} \/ open(a)
                    /\ \/ b.to \in {Die, Finish}
                       \/ b.in \in DOMAIN Takes(w, b.to) \cup {""}
                       \/ open(b.to)

\* The contract of a call is the one its callee has now.
Fresh(hp, o, a, name) ==
    LET w == hp[workflows[name]]
    IN  /\ hp[o].acts[a].takes = InputsOf(w)
        /\ hp[o].acts[a].offers = OutputsOf(w)

Checked(s, a) == checks' = Append(checks, <<s, a>>)
Refreshed(s, a) ==
    Dynamic(LayersOf(s, a)) =>
        /\ Callee(LayersOf(s, a)) \in DOMAIN workflows
        /\ Fresh(heap', sessions[s].of, a, Callee(LayersOf(s, a)))

\* The first time a session checks a dynamic call it goes by the callee that has
\* that name now, not by one that was replaced or that another session asked for
\* (ExecuteWorkflow::prepare).
FirstCheckFresh ==
    [][\A s \in DOMAIN sessions : \A a \in Callers(heap[sessions[s].of]) :
        Checked(s, a) /\ <<s, a>> \notin Range(checks) => Refreshed(s, a)]_vars

\* What the description of the property "dynamic" says: inputs and outputs are
\* refreshed upon checkInputs (execute_workflow.cpp:13).
ChecksRefresh ==
    [][\A s \in DOMAIN sessions : \A a \in Callers(heap[sessions[s].of]) :
        Checked(s, a) => Refreshed(s, a)]_vars

\* Values of a custom kind do not survive JSON, nor do the properties of steps.
Survives(w, l, a) ==
    /\ l.acts[a].type = w.acts[a].type
    /\ a \notin Wrapped =>
        /\ DOMAIN l.acts[a].props.props = DOMAIN w.acts[a].props.props
        /\ \A p \in DOMAIN w.acts[a].props.props :
            p[1] # "custom" => l.acts[a].props.props[p] = w.acts[a].props.props[p]

\* A workflow made of actions the factory knows comes back from JSON with its
\* actions, bindings, joins, starters and what it exposes, whatever its author or
\* its sessions have done to it (StateMachine::save and load).
RoundTrip ==
    \A o \in draft \cup {workflows[n] : n \in DOMAIN workflows} :
        LET w == heap[o]
            l == Loaded(NewWorkflow(w.name), Saved(w), Types)
            shown == {i \in DOMAIN w.exposed : DOMAIN w.exposed[i] # {}}
        IN  /\ DOMAIN l.acts = DOMAIN w.acts
            /\ \A a \in DOMAIN w.acts : Survives(w, l, a)
            /\ \A a \in DOMAIN w.outputs : l.outputs[a] = w.outputs[a]
            /\ \A b \in DOMAIN w.producers \cup DOMAIN l.producers :
                l.producers[b] = w.producers[b]
            /\ l.starters = w.starters
            /\ DOMAIN l.exposed = shown
            /\ \A i \in shown : l.exposed[i] = w.exposed[i]

=============================================================================
