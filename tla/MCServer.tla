------------------------------ MODULE MCServer ------------------------------
(***************************************************************************)
(* A server with a controller of its user's, two actors and an input.      *)
(***************************************************************************)
EXTENDS Server

CONSTANTS extra, actor1, actor2

MCAdded  == << extra >>
MCActors == << actor1, actor2 >>

=============================================================================
