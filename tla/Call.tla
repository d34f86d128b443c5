-------------------------------- MODULE Call --------------------------------
(***************************************************************************)
(* What a workflow promises the sender of a request: the request opens a   *)
(* session, the session sends one answer, and is closed after it.          *)
(***************************************************************************)
EXTENDS Sequences

VARIABLES phase,    \* "unknown", "running" or "over"
          answers   \* what was sent to the caller

vars == <<phase, answers>>

Init == phase = "unknown" /\ answers = << >>

Open == /\ phase = "unknown"
        /\ phase' = "running"
        /\ UNCHANGED answers

Reply == /\ phase = "running" /\ answers = << >>
         /\ answers' \in {<<"Reply">>, <<"Error">>}
         /\ UNCHANGED phase

Close == /\ phase = "running" /\ answers # << >>
         /\ phase' = "over"
         /\ UNCHANGED answers

Next == Open \/ Reply \/ Close

Spec == Init /\ [][Next]_vars /\ WF_vars(Reply) /\ WF_vars(Close)

=============================================================================
