----------------------------- MODULE SharedWorld -----------------------------
(***************************************************************************)
(* What the world server promises its players: the README's "run around in *)
(* the world with everyone else that has connected to the server".  There  *)
(* is one place per player, and every player sees every other player where *)
(* that player is: to enter, to move and to be seen are single steps.      *)
(***************************************************************************)
CONSTANTS Sessions, Positions, Nowhere

VARIABLES
    place,   \* where each player is, Nowhere before entering the world
    view     \* where each player sees each other player

vars == <<place, view>>

\* Everyone in the world sees everyone else in the world, at their places.
Common(pl) ==
    [s \in Sessions |-> [t \in Sessions |->
        IF s # t /\ pl[s] # Nowhere /\ pl[t] # Nowhere THEN pl[t] ELSE Nowhere]]

Init ==
    /\ place = [s \in Sessions |-> Nowhere]
    /\ view = Common(place)

Enter(s) ==
    /\ place[s] = Nowhere
    /\ \E p \in Positions : place' = [place EXCEPT ![s] = p]
    /\ view' = Common(place')

Move(s) ==
    /\ place[s] # Nowhere
    /\ \E p \in Positions : place' = [place EXCEPT ![s] = p]
    /\ view' = Common(place')

Next == \E s \in Sessions : Enter(s) \/ Move(s)

Spec == Init /\ [][Next]_vars
=============================================================================
