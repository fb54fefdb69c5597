----------------------------- MODULE Conference -----------------------------
(***************************************************************************)
(* What the servers of the application promise about membership, with no   *)
(* registry, handle, thread or message in sight: every member is in one    *)
(* room or in none, a room never holds more than Capacity members, and     *)
(* members come, move and go one at a time.  The signaling server and the  *)
(* SFU are both shown to implement it.                                     *)
(***************************************************************************)
EXTENDS Naturals, FiniteSets

CONSTANTS Member,    \* whoever can be in a room
          Room,      \* the rooms
          Nowhere,   \* the place of a member that is in no room
          Capacity   \* the most members a room may hold

VARIABLE where       \* where[m] is the room m is in, or Nowhere

Occupants(r) == {m \in Member : where[m] = r}

Init == where = [m \in Member |-> Nowhere]

\* m enters r, leaving the room it was in; m itself takes no second place.
Enter(m, r) ==
    /\ Cardinality(Occupants(r) \ {m}) < Capacity
    /\ where' = [where EXCEPT ![m] = r]

Exit(m) == where' = [where EXCEPT ![m] = Nowhere]

Next == \E m \in Member : Exit(m) \/ \E r \in Room : Enter(m, r)

Spec == Init /\ [][Next]_where
=============================================================================
