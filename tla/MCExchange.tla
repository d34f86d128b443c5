---------------------------- MODULE MCExchange ----------------------------
(***************************************************************************)
(* Small exchanges: a chain of workflows that call each other and may      *)
(* fail, and a temporary workflow that calls another one.                  *)
(***************************************************************************)
EXTENDS Exchange

CONSTANTS parent, child, leaf, guest

\* The parent calls the child, and the child the leaf.
Chain == {parent, child, leaf}

ChainCalls == [w \in Chain |-> CASE w = parent -> {child}
                                 [] w = child  -> {leaf}
                                 [] OTHER      -> {}]

\* A temporary workflow and the one it calls.
Visit == {guest, child}

VisitCalls == [w \in Visit |-> IF w = guest THEN {child} ELSE {}]

=============================================================================
