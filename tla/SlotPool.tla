----------------------------- MODULE SlotPool -----------------------------
(***************************************************************************)
(* What the registration handlers promise about the slots of a tournament, *)
(* without handlers, counters or waitlist: a team takes the lowest free    *)
(* slot in one step, keeps it until it gives it up, and never comes back.  *)
(* SlotAllocation implements this for every interleaving of its handlers.  *)
(***************************************************************************)
EXTENDS Integers

CONSTANTS Teams, MaxCapacity

VARIABLES
    capacity,   \* number of slots
    place,      \* slot of a team, 0: none
    gone        \* teams that held a slot and gave it up

poolVars == <<capacity, place, gone>>

Holders == {t \in Teams : place[t] # 0}
FreeSlots == (1..capacity) \ {place[t] : t \in Holders}

Init ==
    /\ capacity \in 1..MaxCapacity
    /\ place = [t \in Teams |-> 0]
    /\ gone = {}

Claim(t) ==
    /\ t \notin Holders \cup gone
    /\ \E s \in FreeSlots :
          /\ \A u \in FreeSlots : s <= u
          /\ place' = [place EXCEPT ![t] = s]
    /\ UNCHANGED <<capacity, gone>>

Release(t) ==
    /\ t \in Holders
    /\ place' = [place EXCEPT ![t] = 0]
    /\ gone' = gone \cup {t}
    /\ UNCHANGED capacity

Grow ==
    /\ capacity' \in (capacity + 1)..MaxCapacity
    /\ UNCHANGED <<place, gone>>

Next == Grow \/ \E t \in Teams : Claim(t) \/ Release(t)

Spec == Init /\ [][Next]_poolVars
=============================================================================
