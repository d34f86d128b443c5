----------------------------- MODULE MCBuilding -----------------------------
(* A small stock of workflows, and what authors and requests do with it.   *)
EXTENDS Building

CONSTANTS s1, s2

Needs(put) == put :> Put(TRUE)
Relay    == Action("Relay", Needs("data"), Needs("data"),
                   Define(Guarded, "bool", "log", TRUE, TRUE))
Producer == Action("Producer", << >>, Needs("data"), Guarded)
Other    == Action("Other", << >>, Needs("other"), Guarded)

Part(id, act, bindings) == [id |-> id, act |-> act, bindings |-> bindings]

\* callee takes and offers data; second offers other; main calls what its sessions
\* name, or else callee.
OneAction(name, act, binding) ==
    WithAction(NewWorkflow(name), 0, act, <<binding>>)
MCStock == <<
    WithInput(WithAction(OneAction("callee", Producer, Binding("data", Finish, "data")),
                         1, Relay, <<Binding("data", Finish, "data")>>),
              Starter("data", 1, "data")),
    OneAction("second", Other, Binding("other", Finish, "other")),
    WithInput(WithAction(OneAction("main", Other, Binding("other", Finish, "other")),
                         1, ExecuteWorkflow("callee", TRUE), <<Binding("data", Finish, "data")>>),
              Starter("", 1, ""))>>

MCNames == {"callee", "main"}
MCParts == {
    Part(0, Other, <<Binding("other", Finish, "other")>>),
    Part(1, ExecuteWorkflow("callee", FALSE), <<Binding("data", 2, "data")>>),
    Part(1, ExecuteWorkflow("second", TRUE), <<Binding("other", Finish, "other")>>),
    Part(2, Relay, <<Binding("data", Finish, "data")>>),
    Part(Interrupt, DefaultNextAction, <<Binding("", Cleanup, "")>>),
    Part(-7, Other, <<Binding("other", Finish, "other")>>)}
MCInputs == {Starter("", 1, ""), Starter("data", 2, "data")}
MCShown  == {[id |-> 2, key |-> "log", alias |-> "verbose"]}
MCRequests ==
    [workflow : {"main"},
     bypass : {<< >>, 1 :> Define(Unguarded, "string", "workflow", "second", FALSE)}]
MCTypes ==
    [t \in {"Next", "Relay", "Producer", "Other", "ExecuteWorkflow"} |->
        CASE t = "Next" -> DefaultNextAction
          [] t = "Relay" -> Relay
          [] t = "Producer" -> Producer
          [] t = "Other" -> Other
          [] t = "ExecuteWorkflow" -> ExecuteWorkflow("", TRUE)]

Symmetry == Permutations({s1, s2})
=============================================================================
