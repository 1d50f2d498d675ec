----------------------- MODULE MCAssetReconciliation -----------------------
(***************************************************************************)
(* Two assets, a claim of a third, two paths below one root, two contents, *)
(* two observers.                                                          *)
(***************************************************************************)
EXTENDS AssetReconciliation, TLC

CONSTANTS film, logo, x, y, top, sub

MCBeneath == top :> {top, sub, film, logo} @@ sub :> {sub, logo}
MCDepth == top :> 1 @@ sub :> 2

\* The two contents differ in the size of the file, not in its time alone.
OtherSize == x :> 1 @@ y :> 2

Root(key, complete) ==
    [key |-> key, complete |-> complete, inaccessible |-> {}, failed |-> FALSE]

ScopeOf(roots, names) ==
    [roots |-> roots, assets |-> names, allSeen |-> TRUE, failures |-> {},
     included |-> {}, lifecycles |-> {}, excluded |-> {}, byMedia |-> FALSE]

\* A complete root with an incomplete one inside, excluded, and a complete list
\* of names, one of which failed: some records should have been seen, some not.
MCScopes ==
    {[ScopeOf({Root(top, TRUE), Root(sub, FALSE)}, {1, 2})
          EXCEPT !.failures = {1}, !.excluded = {sub}]}

\* Once the snapshot is complete nobody writes any more: what the registry held
\* and how it came about no longer makes a difference, nor do the files once the
\* last observer has looked.
MCView ==
    IF captured = None THEN <<vars>>
    ELSE <<records, captured, observations, outcome, plan,
           IF Observers = {o.id : o \in observations} THEN None ELSE <<disk, edits>> >>

Symmetry == Permutations({x, y})
=============================================================================
