--------------------------- MODULE MCStateMachine ---------------------------
(***************************************************************************)
(* The layouts StateMachine is checked on: those of the repository's tests *)
(* and the small ones of two actions.                                      *)
(***************************************************************************)
EXTENDS StateMachine, TLC

\* The steps StateMachine::init adds, with their bindings.
B(from, to, in) == [to |-> to, in |-> in, from |-> from]
DefaultOut == [a \in Ids |->
    CASE a \in {Error, Finish} -> << B("", Cleanup, "") >>
      [] a = Cleanup           -> << B("", Die, "") >>
      [] OTHER                 -> << >>]

Just(r)  == [a \in Ids |-> r]
Blank    == [acts |-> {Cleanup, Error, Finish}, out |-> DefaultOut,
             starters |-> << >>,
             takes |-> Just({}), needs |-> Just({}), lax |-> Just({}),
             offers |-> Just(<< >>),
             does |-> Just({"Done"}), later |-> Just({"Done"}),
             yields |-> Just({<< >>}), picky |-> {}, handles |-> {}]
Def(p, must, skip) == [put |-> p, must |-> must, skip |-> skip, lax |-> FALSE]
S(a)     == [act |-> a, in |-> "", from |-> ""]

With(f, g) == [a \in Ids |-> IF a \in DOMAIN g THEN g[a] ELSE f[a]]
Flow(out)  == [Blank EXCEPT !.acts = @ \cup DOMAIN out,
                            !.out = With(@, out),
                            !.starters = << S(0) >>]

\* tests/test_13.cpp, a diamond: 3 joins 1 and 2, which may call another
\* workflow; 2 may refuse to run.
Diamond ==
    [Flow(0 :> << B("", 1, ""), B("", 2, "") >> @@ 1 :> << B("", 3, "") >>
          @@ 2 :> << B("", 3, "") >> @@ 3 :> << B("", Finish, "") >>)
     EXCEPT !.does = With(@, 1 :> {"Done", "Wait", "Error"} @@ 2 :> {"Done", "Wait"}
                                   @@ 3 :> {"Done", "Finish"}),
            !.later = With(@, 1 :> {"Done", "Error"}),
            !.picky = {2}]

\* tests/test_14.cpp, a condition: 0 sends one of 1 and 2 a SkipCtx.  Here 3
\* joins them, so that it is skipped or promoted.
Condition ==
    [Flow(0 :> << B("x", 1, ""), B("y", 2, "") >> @@ 1 :> << B("", 3, "") >>
          @@ 2 :> << B("", 3, "") >> @@ 3 :> << B("", Finish, "") >>)
     EXCEPT !.offers = With(@, 0 :> << Def("x", TRUE, TRUE), Def("y", TRUE, TRUE) >>),
            !.yields = With(@, 0 :> {"x" :> v @@ "y" :> w : v, w \in {"ctx", "skip"}}),
            !.does = With(@, 1 :> {"Done", "Wait"})]

\* tests/test_15.cpp, a loop: 0 goes round through 1 and 2, or to Finish.
Loop ==
    [Flow(0 :> << B("x", 1, ""), B("y", Finish, "") >> @@ 1 :> << B("", 2, "") >>
          @@ 2 :> << B("", 0, "") >>)
     EXCEPT !.offers = With(@, 0 :> << Def("x", TRUE, TRUE), Def("y", FALSE, TRUE) >>),
            !.yields = With(@, 0 :> {"x" :> "ctx" @@ "y" :> "skip",
                                     "x" :> "skip" @@ "y" :> "ctx"}),
            !.does = With(@, 1 :> {"Done", "Wait"}),
            !.later = With(@, 1 :> {"Done", "Wait"})]

\* A workflow that may be interrupted while 0 or 1 waits, with steps of its
\* own in the error flow, and an action that catches errors.
Interruptible ==
    [Flow(0 :> << B("", 1, "") >> @@ 1 :> << B("", Finish, "") >>
          @@ 2 :> << B("", Cleanup, "") >>
          @@ Interrupt :> << B("", Cleanup, "") >>
          @@ Error :> << B("", 2, ""), B("", Cleanup, "") >>)
     EXCEPT !.does = With(@, 0 :> {"Done", "Wait"} @@ 1 :> {"Done", "Wait"} @@ Interrupt :> {"Done", "Wait"}),
            !.later = With(@, 0 :> {"Done", "Wait", "Error"}),
            !.handles = {1}]

\* An interruption that runs the flow again: 0 may wait a second time.
Retry ==
    [Flow(0 :> << B("", Finish, "") >> @@ Interrupt :> << B("", 0, "") >>)
     EXCEPT !.does = With(@, 0 :> {"Done", "Wait"})]

\* Branches 2 and 3 end asynchronously; 1 joins them, ...
Operations ==
    [Flow(0 :> << B("", 2, ""), B("", 3, "") >> @@ 2 :> << B("", 1, "") >>
          @@ 3 :> << B("", 1, "") >> @@ 1 :> << B("", Finish, "") >>)
     EXCEPT !.does = With(@, 2 :> {"Async"} @@ 3 :> {"Done", "Async"}),
            !.later = With(@, 2 :> {"Done", "Wait", "Error"})]

\* ... or the workflow may finish with the first of them.
Fork ==
    [Operations EXCEPT !.out = With(@, 2 :> << B("", Finish, "") >>
                                       @@ 1 :> << >>)]

\* Every way two actions can be bound to each other and to Finish, when 1
\* takes an input that 0 may set, leave, skip or get wrong.  Either its checker or
\* that of the output is a plain one.
Pairs ==
    {[Flow(0 :> o0 @@ 1 :> o1)
      EXCEPT !.starters = st,
             !.takes = With(@, 1 :> {"x"}), !.needs = With(@, 1 :> n),
             !.lax = With(@, 1 :> l),
             !.offers = With(@, 0 :> << [Def("x", FALSE, TRUE) EXCEPT !.lax = (l = {})] >>),
             !.yields = With(@, 0 :> {<< >>, "x" :> "ctx", "x" :> "skip", "x" :> "bad"}),
             !.does = With(@, 0 :> {"Done", "Wait", "Error"} @@ 1 :> {"Done", "Wait"}),
             !.picky = {1}]
        : o0 \in {<< >>, << B("x", 1, "x") >>, << B("x", Finish, "x") >>,
                  << B("x", 1, "x"), B("", Finish, "") >>,
                  << B("", 1, ""), B("x", Finish, "x") >>},
          o1 \in {<< >>, << B("", Finish, "") >>, << B("", 0, "") >>,
                  << B("", 0, ""), B("", Finish, "") >>},
          st \in {<< S(0) >>, << S(0), [act |-> 1, in |-> "x", from |-> "x"] >>},
          <<n, l>> \in {<<{"x"}, {}>>, <<{}, {}>>, <<{"x"}, {"x"}>>}}

MCPuts == {"", "x", "y"}

Acyclic(w) == \A i \in 1 .. Len(w.out[1]) : w.out[1][i].to # 0
FlowLayouts == {Diamond, Condition, Loop, Interruptible, Retry} \cup Pairs
CallLayouts == {Diamond, Condition, Interruptible} \cup {w \in Pairs : Acyclic(w)}
AsyncLayouts == {Operations, Fork}

=============================================================================
