------------------------------ MODULE MCTunnel ------------------------------
(***************************************************************************)
(* Values of Tunnel's constants for the model checker.                     *)
(***************************************************************************)
EXTENDS Tunnel

CONSTANTS s1, s2

(* Three bytes up and one down: a chunk of two, of which a write takes     *)
(* one, and a byte after it to show what became of the other.              *)
ThreeUp == [s \in Sessions |-> [d \in Lanes |-> IF d = "up" THEN 3 ELSE 1]]

OneEach == [s \in Sessions |-> [d \in Lanes |-> 1]]

(* One session carries a byte and the other none.                          *)
OneOfTwo ==
    [s \in Sessions |-> [d \in Lanes |-> IF s = s1 /\ d = "up" THEN 1 ELSE 0]]
=============================================================================
