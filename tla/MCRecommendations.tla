-------------------------- MODULE MCRecommendations --------------------------
(* Recommendations and PopularSongs on small instances, for TLC. *)
EXTENDS PopularSongs, TLC

CONSTANTS new, mid, old

MCCatalog == <<new, mid, old>>
MCArtist == new :> "A" @@ mid :> "B" @@ old :> "A"

Symmetry == Permutations(Pass) \cup Permutations(User)

\* The passes and the popular songs share only what they read: it is enough that each
\* meets every state of the songs and the plays, not every state of the other.
OneOrTheOther ==
    \/ popular = None /\ \A r \in Request : asked[r] = None
    \/ /\ lock = None /\ rec = [u \in User |-> None]
       /\ \A p \in Pass : ~Inside(p)
=============================================================================
