----------------------------- MODULE Structure -----------------------------
(***************************************************************************)
(* What a workflow is made of and how it is put together, saved and loaded *)
(* (core/state_machine.cpp: init, addAction, addInput, expose, getEnders,  *)
(* save, load; core/action.cpp; core/bindings.cpp; core/put_definition.h), *)
(* and what a call of it takes and offers (execute_workflow.cpp).          *)
(*                                                                         *)
(* A workflow is a record: its name, acts and outputs (the bindings of an  *)
(* action, in order) by action id, producers (inputs_map), starters, and   *)
(* exposed, the property behind each alias by action id.  An action is a   *)
(* record of its type (the name the factory knows it by), its puts, its    *)
(* properties and the prepared flag of an ExecuteWorkflow.                 *)
(***************************************************************************)
EXTENDS Integers, Sequences, SequencesExt, PropertySet

Die            == -1666
Cleanup        == -1020
Error          == -1015
Finish         == -1010
Interrupt      == -1005
Initialisation == 0

\* The steps addAction accepts and wraps.
Wrapped == {Interrupt, Error, Finish, Cleanup}

Binding(from, to, in) == [from |-> from, to |-> to, in |-> in]
Starter(from, act, in) == [from |-> from, act |-> act, in |-> in]

\* A PutDefinition; "checked" is whether it has a checker.
Put(must) == [must |-> must, skip |-> FALSE, empty |-> FALSE, checked |-> TRUE]

\* The one std::map::operator[] makes up.
Blank == [must |-> TRUE, skip |-> FALSE, empty |-> FALSE, checked |-> FALSE]

Stricter(d, e) == [e EXCEPT !.must = @ \/ d.must, !.skip = @ \/ d.skip,
                            !.empty = @ \/ d.empty]

Action(type, takes, offers, props) ==
    [type |-> type, takes |-> takes, offers |-> offers, props |-> props,
     prepared |-> FALSE]

DefaultNextAction == Action("Next", << >>, << >>, Guarded)

ExecuteWorkflow(workflow, dynamic) ==
    Action("ExecuteWorkflow", << >>, << >>,
           Define(Define(Define(Guarded, "bool", "dynamic", dynamic, FALSE),
                         "string", "workflow", workflow, FALSE),
                  "custom", "customization", "set", FALSE))

-----------------------------------------------------------------------------
(* Building *)

Targets(bindings) == {bindings[i].to : i \in DOMAIN bindings}

\* Mutant: the map is not cleared: a replaced action stays a producer.
ProducersOfKept(old, outputs) ==
    [to \in UNION {Targets(outputs[a]) : a \in DOMAIN outputs} \cup DOMAIN old |->
        {a \in DOMAIN outputs : to \in Targets(outputs[a])}
        \cup (IF to \in DOMAIN old THEN old[to] ELSE {})]

\* inputs_map, rebuilt entirely.
ProducersOf(old, outputs) ==
    [to \in UNION {Targets(outputs[a]) : a \in DOMAIN outputs} |->
        {a \in DOMAIN outputs : to \in Targets(outputs[a])}]

\* expose(id, key, alias), of an action the workflow need not have, and the two
\* unexpose; the one of an alias leaves an empty entry behind.
ExposedOf(exposed, id) == IF id \in DOMAIN exposed THEN exposed[id] ELSE << >>
WithAliases(exposed, id, aliases) ==
    Entry(id, aliases ++ ExposedOf(exposed, id)) ++ exposed
Exposing(w, id, key, alias) ==
    [w EXCEPT !.exposed = WithAliases(@, id, Entry(alias, key))]
Unexposing(w, id) ==
    [w EXCEPT !.exposed = [i \in DOMAIN @ \ {id} |-> @[i]]]
UnexposingAlias(w, id, alias) ==
    LET aliases == ExposedOf(w.exposed, id)
    IN  [w EXCEPT !.exposed = Entry(id, [k \in DOMAIN aliases \ {alias} |-> aliases[k]]) ++ @]

\* Actions under new ids or in the place of others, with their bindings; their
\* exposed properties are exposed.
WithActions(w, acts, bindings) ==
    LET outs  == bindings ++ w.outputs
        keys(a) == ExposedKeys(acts[a].props)
        shown == {a \in DOMAIN acts : keys(a) # {}}
    IN  [w EXCEPT !.acts = acts ++ @,
                  !.outputs = outs,
                  !.producers = ProducersOf(@, outs),
                  !.exposed = [a \in shown |-> [k \in keys(a) |-> k] ++ ExposedOf(@, a)] ++ @]

\* Mutant: no id is refused.
WithActionAny(w, id, act, bindings) == WithActions(w, Entry(id, act), Entry(id, bindings))

\* addAction refuses a negative id that is no step.
Accepts(id) == id >= 0 \/ id \in Wrapped
WithAction(w, id, act, bindings) ==
    IF Accepts(id) THEN WithActions(w, Entry(id, act), Entry(id, bindings)) ELSE w

\* addInput
WithInput(w, starter) == [w EXCEPT !.starters = Append(@, starter)]

\* init
FirstAction == Action("Action", << >>, << >>, Guarded)
FirstSteps  == {Initialisation, Error, Finish, Cleanup}
NewWorkflow(name) ==
    LET to(s) == CASE s = Initialisation -> Finish
                   [] s = Cleanup -> Die
                   [] OTHER -> Cleanup
    IN  WithActions([name |-> name, acts |-> << >>, outputs |-> << >>, producers |-> << >>,
                     starters |-> << >>, exposed |-> << >>],
                    [s \in FirstSteps |-> IF s = Initialisation THEN FirstAction
                                          ELSE DefaultNextAction],
                    [s \in FirstSteps |-> <<Binding("", to(s), "")>>])

-----------------------------------------------------------------------------
(* Saving and loading *)

\* A wrapper saves itself: the properties of the step it wraps are not saved.
Saved(w) ==
    [name     |-> w.name,
     acts     |-> [a \in DOMAIN w.acts |->
                    [type  |-> w.acts[a].type,
                     props |-> IF a \in Wrapped THEN Guarded ELSE w.acts[a].props]],
     outputs  |-> w.outputs,
     starters |-> w.starters,
     exposed  |-> [i \in {j \in DOMAIN w.exposed : DOMAIN w.exposed[j] # {}} |-> w.exposed[i]]]

\* What save(saved) has of the actions the factory knows, added to w; types is
\* the action the factory makes for a name.
Rebuilt(w, saved, types) ==
    LET known == {a \in DOMAIN saved.acts : Accepts(a) /\ saved.acts[a].type \in DOMAIN types}
    IN  WithActions(w, [a \in known |-> [types[saved.acts[a].type] EXCEPT
                                            !.props = Reloaded(@, saved.acts[a].props)]],
                       [a \in known |-> saved.outputs[a]])

\* Mutant: what was exposed before the load stays exposed.
LoadedExposing(w, saved, types) ==
    LET u == Rebuilt(w, saved, types)
    IN  [u EXCEPT !.name = saved.name, !.starters = @ \o saved.starters,
                  !.exposed = saved.exposed ++ @]

\* load, into a workflow that may have actions already.
Loaded(w, saved, types) ==
    [Rebuilt(w, saved, types) EXCEPT !.name = saved.name,
                                     !.starters = @ \o saved.starters,
                                     !.exposed = saved.exposed]

-----------------------------------------------------------------------------
(* What a call of a workflow takes and offers (prepare).                   *)

\* The puts of an action as others see them: a wrapper shows none.
Takes(w, id)  == IF id \in Wrapped THEN << >> ELSE w.acts[id].takes
Offers(w, id) == IF id \in Wrapped THEN << >> ELSE w.acts[id].offers

\* One starter of the first loop: an input is asked for by the workflow's name
\* and defined by the action's.  Nothing is looked at after an at() that threw.
WithStarter(w, call, s) ==
    LET taken == s.from \in DOMAIN call.takes
        input == Takes(w, s.act)[s.in]
        ours  == IF s.in \in DOMAIN call.takes THEN call.takes[s.in] ELSE Blank
    IN  IF call.thrown THEN call
        ELSE IF s.act \notin DOMAIN w.acts THEN [takes |-> call.takes, thrown |-> TRUE]
        ELSE IF ~taken /\ s.in = "" THEN call
        ELSE IF s.in \notin DOMAIN Takes(w, s.act)
        THEN [takes |-> call.takes, thrown |-> TRUE]
        ELSE [takes |-> Entry(s.in, IF taken THEN Stricter(input, ours) ELSE input) ++ call.takes,
              thrown |-> FALSE]

Starting(w) ==
    LET c[n \in 0 .. Len(w.starters)] ==
            IF n = 0 THEN [takes |-> << >>, thrown |-> FALSE]
            ELSE WithStarter(w, c[n - 1], w.starters[n])
    IN  c
CallOf(w) == Starting(w)[Len(w.starters)]
InputsOf(w) == CallOf(w).takes

\* getEnders
Enders(w) ==
    UNION {{[act |-> a, put |-> w.outputs[a][i].from] :
                i \in {j \in DOMAIN w.outputs[a] : w.outputs[a][j].to = Finish}} :
            a \in DOMAIN w.outputs}

\* The second loop: the strictest of the definitions that share a name.
OutputsOf(w) ==
    LET defs(name) == {Offers(w, e.act)[name] : e \in {x \in Enders(w) : x.put = name}}
    IN  [name \in {e.put : e \in Enders(w)} |->
            [must  |-> \E d \in defs(name) : d.must,
             skip  |-> \E d \in defs(name) : d.skip,
             empty |-> \E d \in defs(name) : d.empty,
             checked |-> TRUE]]

\* The third loop: a property another action exposes is taken whole, in the
\* first of these kinds that has it, under its own key and not its alias.
KindOrder == <<"bool", "double", "string", "uint", "custom">>
Given(w, id) ==
    {k \in DOMAIN w.acts[id].props.props :
        /\ \E alias \in DOMAIN w.exposed[id] : w.exposed[id][alias] = k[2]
        /\ \A i, j \in DOMAIN KindOrder :
            KindOrder[i] = k[1] /\ Holds(w.acts[id].props, KindOrder[j], k[2]) => i <= j}

\* The actions come by id: of several that give a property the last one counts.
PropertiesWith(w, props) ==
    LET last(k) == Max({id \in DOMAIN w.exposed : k \in Given(w, id)})
    IN  [props EXCEPT !.props =
            [k \in UNION {Given(w, id) : id \in DOMAIN w.exposed} |->
                w.acts[last(k)].props.props[k]] ++ @]

\* at() of a put the action does not have, or properties() of an action the
\* workflow does not have.
CallThrows(w) ==
    \/ CallOf(w).thrown
    \/ \E e \in Enders(w) : e.put \notin DOMAIN Offers(w, e.act)
    \/ DOMAIN w.exposed \ DOMAIN w.acts # {}

=============================================================================
