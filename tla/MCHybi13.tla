------------------------------- MODULE MCHybi13 -------------------------------
(* Hybi13.tla on small instances, for TLC. *)
EXTENDS Hybi13

Digits(length, n) == [i \in 1..n |-> (length \div Base^(n - i)) % Base]

Frame(fin, op, size, payload) ==
    [fin |-> fin, rsv |-> FALSE, op |-> op, masked |-> FALSE, size |-> size,
     extended |-> Digits(Len(payload), ExtendedLen([size |-> size])),
     payload |-> payload]

Payloads(n) == [1..n -> {"ascii", "lead2", "continuation"}]

(* Lengths 0 and 1 are basic, 2 is the only 16 bit one, 3 and up are 64 bit. *)
DataFrames ==
    {Frame(fin, op, 0, <<>>) : fin \in BOOLEAN, op \in {"continuation", "text", "binary"}}
    \cup {Frame(fin, op, 1, s) : fin \in BOOLEAN, op \in {"continuation", "text"},
                                 s \in Payloads(1)}
    \cup {Frame(fin, op, -16, s) : fin \in BOOLEAN, op \in {"continuation", "text"},
                                   s \in Payloads(2)}
    \cup {Frame(TRUE, op, -64, s) : op \in {"binary", "text"},
                                    s \in {<<"ascii", "lead2", "continuation">>,
                                           <<"lead3", "continuation", "continuation">>,
                                           <<"ascii", "ascii", "never">>}}

ControlFrames ==
    {Frame(fin, "control", 0, <<>>) : fin \in BOOLEAN}
    \cup {Frame(TRUE, "control", 1, <<"lead2">>),
          Frame(TRUE, "control", -16, <<"ascii", "ascii">>)}

(* Not minimal, too big, reserved, masked. *)
FlawedFrames ==
    {Frame(TRUE, "binary", -16, <<"ascii">>),
     Frame(TRUE, "continuation", -64, <<"ascii", "ascii">>),
     Frame(TRUE, "binary", -64, <<"ascii", "ascii", "ascii", "ascii">>),
     Frame(TRUE, "reserved", 0, <<>>),
     [Frame(TRUE, "binary", 0, <<>>) EXCEPT !.masked = TRUE],
     [Frame(TRUE, "binary", 0, <<>>) EXCEPT !.rsv = TRUE]}

(* The longest length there is: behind a first fragment the sum wraps. *)
WrappingFrames == {Frame(TRUE, "continuation", -64, [i \in 1..8 |-> "ascii"])}

MCFrames == DataFrames \cup ControlFrames \cup FlawedFrames \cup WrappingFrames
=============================================================================
