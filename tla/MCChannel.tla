----------------------------- MODULE MCChannel -----------------------------
(* A small instance of Channel: the idle thread and three workers of three  *)
(* priorities, x the most urgent.  Two messages are enough to see an order. *)
EXTENDS Channel, TLC

CONSTANTS idle, x, y, z, rx, tx, mail, memo, none

MCThread == {idle, x, y, z}
MCObj == {rx, tx}
MCPrio == idle :> 3 @@ x :> 0 @@ y :> 1 @@ z :> 2
MCReady == 0 :> << >> @@ 1 :> <<y>> @@ 2 :> <<z>> @@ 3 :> <<idle>>
MCMsg == {mail, memo}
MCWaits == idle :> {} @@ x :> {"limited", "forever"} @@ z :> {"no", "forever"}
           @@ y :> {"no", "limited", "forever"}
MCMsgOf == idle :> mail @@ x :> mail @@ y :> mail @@ z :> memo
=============================================================================
