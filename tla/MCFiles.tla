------------------------------- MODULE MCFiles -------------------------------
(* A tree of four nodes; paths absolute and relative, through the dots, with
   slashes at the end and through a file. *)
EXTENDS Files

Abs(comps) == [abs |-> TRUE, comps |-> comps, slash |-> FALSE]
Rel(comps) == [abs |-> FALSE, comps |-> comps, slash |-> FALSE]

MCName == {"a", "b"}
MCBootPath == {Abs(<<"a">>), Abs(<<"a", "b">>)}
MCPath == {Abs(<<"a", "b">>), Rel(<<"b">>), Rel(<<"b", "a">>), Rel(<<"..", "b">>), Rel(<<".">>),
           [Rel(<<"a">>) EXCEPT !.slash = TRUE]}
=============================================================================
