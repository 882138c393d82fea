------------------------------ MODULE Gallery ------------------------------
(***************************************************************************)
(* What the gallery of a service promises, without requests, transactions, *)
(* locks or stored objects: each operation takes effect on all the         *)
(* pictures it is about, in one step, and on nothing else.  A promotion    *)
(* leaves every place alone and an arrangement every primary flag, so that *)
(* neither undoes the other.  A removal promotes another picture or does   *)
(* not: ServiceImages.tla, which is shown to implement this, removes a     *)
(* picture by the flag it has read.                                        *)
(***************************************************************************)
EXTENDS Integers, FiniteSets

CONSTANTS Images, Absent

VARIABLE gallery   \* Images -> [sort, primary], or Absent

Shown == { i \in Images : gallery[i] # Absent }

Primaries == { i \in Shown : gallery[i].primary }

Init ==
    /\ gallery \in [Images -> [sort : Nat, primary : BOOLEAN] \cup {Absent}]
    /\ Shown # {} => Cardinality(Primaries) = 1
    /\ \A i, j \in Shown : i # j => gallery[i].sort # gallery[j].sort

\* A picture is put in, as the primary one if there is none.
Add(i) ==
    /\ gallery[i] = Absent
    /\ gallery'[i] \in [sort : Nat, primary : BOOLEAN]
    /\ gallery'[i].primary => Primaries = {}
    /\ gallery' = [gallery EXCEPT ![i] = gallery'[i]]

Remove(i) ==
    /\ i \in Shown
    /\ gallery' = [gallery EXCEPT ![i] = Absent]

\* A picture is taken out and another one becomes the primary.
Succeed(i, j) ==
    /\ {i, j} \subseteq Shown /\ i # j
    /\ Primaries \subseteq {i, j}
    /\ gallery' = [gallery EXCEPT ![i] = Absent, ![j].primary = TRUE]

Promote(i) ==
    /\ i \in Shown
    /\ gallery' = [k \in Images |-> IF k \in Shown THEN [gallery[k] EXCEPT !.primary = (k = i)]
                                    ELSE Absent]

\* The pictures that were listed take the first places, in any order.
Arrange(listed) ==
    /\ \A k \in listed : gallery'[k] # Absent
    /\ { gallery'[k].sort : k \in listed } = 0 .. Cardinality(listed) - 1
    /\ gallery' = [k \in Images |-> IF k \in listed THEN [gallery[k] EXCEPT !.sort = gallery'[k].sort]
                                    ELSE gallery[k]]

\* An operation that finds everything as it would leave it is no step.
Next ==
    /\ gallery' # gallery
    /\ \/ \E i \in Images : Add(i) \/ Remove(i) \/ Promote(i)
       \/ \E i, j \in Images : Succeed(i, j)
       \/ \E listed \in SUBSET Shown : Arrange(listed)

Spec == Init /\ [][Next]_gallery

=============================================================================
