---------------------------- MODULE MCClientStream ----------------------------
(* ClientStream.tla on small instances, for TLC. *)
EXTENDS ClientStream, MCHybi13

(* The header as the server writes it: lines, then a blank one. *)
Written(lines) ==
    FlattenSeq([i \in DOMAIN lines |-> lines[i] \o Delimiter]) \o Delimiter

(***************************************************************************)
(* Two legal headers, one with a lone CR; one that the reads may make too  *)
(* long; a status other than 101; headers missing; no line at all; lines   *)
(* that do not parse; a line too long.                                     *)
(***************************************************************************)
MCAnswers ==
    {Written(lines) : lines \in
        {<< <<Switch>>, <<Switch, Plain>> >>,
         << <<Switch>>, <<Plain, CR, Plain>>, <<Switch>> >>,
         << <<Switch>>, <<Switch>>, [i \in 1..12 |-> Plain] >>,
         << <<Plain>>, <<Switch>> >>,
         << <<Switch>>, <<Plain>> >>,
         << <<Switch>> >>,
         << >>,
         << <<Bad>>, <<Switch>> >>,
         << <<Switch>>, <<Switch, Bad>> >>,
         << <<Switch>>, [i \in 1..MaxHeaderSize |-> Switch] >>}}
=============================================================================
