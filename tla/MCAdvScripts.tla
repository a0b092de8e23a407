---------------------------- MODULE MCAdvScripts ----------------------------
(***************************************************************************)
(* Instances of AdvScripts for TLC.                                        *)
(***************************************************************************)
EXTENDS AdvScripts

line(m, t, a, n) == [minor |-> m, type |-> t, ip |-> a, idx |-> n, red |-> None]

\* A number that ends another, a type with a letter (C524), an address in the other
\* notation, a device port that begins another.
MCAdds ==
    {line(m, 5412, "v4", n) : m \in {1, 11}, n \in {1, 2}}
        \cup {line(1, 50468, "v4", 1), line(1, 5412, "v6", 1),
              line(11, 50468, "v4", 10), line(2, 5412, "v4", 10)}

============================================================================
