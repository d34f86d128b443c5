------------------------------ MODULE MCClient ------------------------------
(***************************************************************************)
(* An actor that publishes two requests, one that is its own reply address *)
(* and one with a reply address of its own, as the tests have it.  While   *)
(* the first is served, an action of its workflow asks the actor something *)
(* and waits: reply address and request id are those of the first request. *)
(* An actor may look up controllers and have a heartbeat, and need not do  *)
(* either: what actors with fewer habits do is among what it may do.       *)
(***************************************************************************)
EXTENDS Client, TLC

MCBack   == 1 :> 1 @@ 2 :> 20 @@ 3 :> 1
MCRoot   == 3 :> 1
MCWants  == 1 :> "Reply" @@ 2 :> "Reply" @@ 3 :> "Reply"
MCEnds   == 1 :> {"Reply"} @@ 2 :> {"Error"}
MCHabits == {{"looks", "beats"}}

=============================================================================
