---------------------------- MODULE ConnectionLife ----------------------------
(***************************************************************************)
(* The life of one connection of the library, as its user can see it: the  *)
(* opening handshake, open, the closing handshake or the shutdown of the   *)
(* socket, over but still held by pending handlers, and gone.  It starts   *)
(* once, is open at most once, and never goes back.                        *)
(*                                                                         *)
(* Connection.tla implements this module; con[h] of Plugin.tla is such a   *)
(* phase, and moves as written here.                                       *)
(***************************************************************************)

VARIABLE phase

Phases == {"none", "connecting", "open", "closing", "terminated", "gone"}

(* Which phase may follow which. *)
Moves ==
    {<<"none", "connecting">>,
     <<"connecting", "open">>, <<"connecting", "terminated">>,
     <<"open", "closing">>, <<"open", "terminated">>,
     <<"closing", "terminated">>,
     <<"terminated", "gone">>}

Init == phase = "none"

Next == <<phase, phase'>> \in Moves

Spec == Init /\ [][Next]_phase

(***************************************************************************)
(* Opening, closing and the last handlers do not go on for ever.  An open  *)
(* connection may.                                                         *)
(***************************************************************************)
PhasesEnd == \A p \in {"connecting", "closing", "terminated"} : phase = p ~> phase # p
=============================================================================
