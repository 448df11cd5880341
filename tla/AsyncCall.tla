------------------------------ MODULE AsyncCall ------------------------------
(***************************************************************************)
(* What every asynchronous call of the transport promises to its caller:   *)
(* the callback it was given runs once, with success or an error, perhaps  *)
(* before the call itself returns; and it does run.  Connection.tla is     *)
(* written against this promise, AsioConnect.tla keeps it.                 *)
(***************************************************************************)

VARIABLE result

Results == {"ok", "error"}

Init == result = "idle"

Call == result = "idle" /\ result' = "pending"

(* A call that ends inside itself: a plain socket's post_init and shutdown. *)
CallAndReturn == result = "idle" /\ result' \in Results

Return == result = "pending" /\ result' \in Results

Next == Call \/ CallAndReturn \/ Return

Spec == Init /\ [][Next]_result

(* The callback runs at last. *)
Returns == result = "pending" ~> result \in Results
=============================================================================
