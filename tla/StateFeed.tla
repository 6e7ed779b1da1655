------------------------------ MODULE StateFeed ------------------------------
(***************************************************************************)
(* What the backend is to those outside it: states that are stored and     *)
(* messages about them.  Whoever stores a value tells of it afterwards,    *)
(* once, if at all; between the two the states can be read and others may  *)
(* store and tell, so that messages may come late, in another order than   *)
(* the values were stored, or never.  But no message tells of a value that *)
(* the one who tells has not stored before.                                *)
(***************************************************************************)
CONSTANTS
    Names,      \* the states
    Levels,     \* their values
    Writers,    \* who stores and tells, one state each at a time
    None        \* no state of that name; nothing to tell

VARIABLES
    store,      \* what is stored
    telling,    \* what a writer has stored and not yet told: a message
    announced   \* the last value told, per state

vars == <<store, telling, announced>>

Messages == Names \X Levels

Init ==
    /\ store \in [Names -> Levels \cup {None}]
    /\ telling = [w \in Writers |-> None]
    /\ announced = store

\* w stores v and will tell of it, or will not.
StoreToTell(w, n, v) ==
    /\ telling[w] = None
    /\ store' = [store EXCEPT ![n] = v]
    /\ telling' = [telling EXCEPT ![w] = <<n, v>>]
    /\ UNCHANGED announced

StoreInSilence(w, n, v) ==
    /\ telling[w] = None
    /\ store' = [store EXCEPT ![n] = v]
    /\ UNCHANGED <<telling, announced>>

\* The message goes out, with the value w stored and not the one stored now.
Tell(w) ==
    /\ telling[w] # None
    /\ announced' = [announced EXCEPT ![telling[w][1]] = telling[w][2]]
    /\ telling' = [telling EXCEPT ![w] = None]
    /\ UNCHANGED store

\* Some messages will never go out.
Drop(W) ==
    /\ \E w \in W : telling[w] # None
    /\ telling' = [w \in Writers |-> IF w \in W THEN None ELSE telling[w]]
    /\ UNCHANGED <<store, announced>>

Next ==
    \/ \E w \in Writers :
        \/ \E n \in Names, v \in Levels : StoreToTell(w, n, v) \/ StoreInSilence(w, n, v)
        \/ Tell(w)
    \/ \E W \in SUBSET Writers : Drop(W)

Spec == Init /\ [][Next]_vars
=============================================================================
