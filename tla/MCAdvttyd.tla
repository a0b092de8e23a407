----------------------------- MODULE MCAdvttyd -----------------------------
(***************************************************************************)
(* Instances of Advttyd for TLC.                                           *)
(***************************************************************************)
EXTENDS Advttyd

line(m, a) == [minor |-> m, type |-> 5412, ip |-> a, idx |-> 1, red |-> None]

\* Two ports, one of them on either of two device servers.  The scripts do not
\* recognise the line with the second one, whose type has a letter (C524): when the
\* first is added again, the port has two.
MCConf0 == <<line(1, "a")>>
MCAdds == {line(1, "a"), [line(1, "b") EXCEPT !.type = 50468], line(2, "a")}
MCRemoves == {1}

MCBudget == [edit |-> 2, run |-> 2, stop |-> 1, death |-> 1, race |-> 1]

============================================================================
