---------------------------- MODULE StateRegistry ----------------------------
(***************************************************************************)
(* What the state service promises to a caller, without its mechanism: an  *)
(* operation takes effect at one instant between its call and its answer,  *)
(* the answer follows from what was stored at that instant and shows the   *)
(* state as it is then, and the last value announced for a state is the    *)
(* value stored for it.                                                    *)
(***************************************************************************)
EXTENDS HmsttTypes

CONSTANT Callers    \* who calls the service, one operation each at a time

VARIABLES
    store,      \* what is stored in each slot
    announced,  \* the last value subscribers were told, per slot
    job,        \* the operation a caller asked for
    outcome,    \* its answer, "pending" until it has taken effect
    shown       \* the state the answer shows, if it shows one

vars == <<store, announced, job, outcome, shown>>

Init ==
    /\ store \in Stores
    /\ WellFormed(store)
    /\ announced = [s \in Slots |-> ValueOf(store[s])]
    /\ job = [c \in Callers |-> None]
    /\ outcome = [c \in Callers |-> "none"]
    /\ shown = [c \in Callers |-> NoEntry]

\* The answer to q where e is stored
Verdict(q, e) ==
    CASE q.op = "get" ->
            IF e = NoEntry THEN "notfound" ELSE "ok"
      [] q.op = "create" ->
            IF ~canTypeChangedWithKey(q.slot, q.value) THEN "invalid"
            ELSE IF e # NoEntry THEN "exists" ELSE "ok"
      [] q.op = "set" ->
            IF canTypeChangedWithKey(q.slot, q.value) THEN "ok" ELSE "invalid"
      [] q.op = "patch" ->
            IF q.value = None /\ q.description = None THEN "nothing"
            ELSE IF e = NoEntry THEN "notfound"
            ELSE IF q.value = None \/ canTypeChangedWithKey(q.slot, q.value)
                 THEN "ok" ELSE "invalid"

\* What is stored once q has taken effect: the fields q names, the others kept
Updated(q, e) ==
    [value |-> IF q.value = None THEN e.value ELSE q.value,
     description |-> IF q.description # None THEN q.description
                     ELSE IF e = NoEntry THEN "" ELSE e.description]

\* A caller with no operation of its own asks for one.
Invoke(c) ==
    /\ outcome[c] = "none"
    /\ \E q \in Input : job' = [job EXCEPT ![c] = q]
    /\ outcome' = [outcome EXCEPT ![c] = "pending"]
    /\ UNCHANGED <<store, announced, shown>>

\* The operation takes effect: store, announcement and answer at once.  An
\* answer that is a success shows the state as it is after the effect.
Perform(c) ==
    LET q == job[c]
        verdict == Verdict(q, store[q.slot])
        entry == Updated(q, store[q.slot])
    IN  /\ outcome[c] = "pending"
        /\ outcome' = [outcome EXCEPT ![c] = verdict]
        /\ IF verdict = "ok" /\ q.op \in Mutators
           THEN /\ store' = [store EXCEPT ![q.slot] = entry]
                /\ announced' = [announced EXCEPT ![q.slot] = entry.value]
           ELSE UNCHANGED <<store, announced>>
        /\ shown' = [shown EXCEPT ![c] =
                        IF verdict = "ok" THEN store'[q.slot] ELSE NoEntry]
        /\ UNCHANGED job

\* Storage refuses a mutation that was good: nothing happened.
Fail(c) ==
    /\ outcome[c] = "pending"
    /\ job[c].op \in Mutators
    /\ Verdict(job[c], store[job[c].slot]) = "ok"
    /\ outcome' = [outcome EXCEPT ![c] = "failed"]
    /\ UNCHANGED <<store, announced, job, shown>>

\* The caller takes the answer.
Return(c) ==
    /\ outcome[c] \notin {"none", "pending"}
    /\ job' = [job EXCEPT ![c] = None]
    /\ outcome' = [outcome EXCEPT ![c] = "none"]
    /\ shown' = [shown EXCEPT ![c] = NoEntry]
    /\ UNCHANGED <<store, announced>>

Next == \E c \in Callers : Invoke(c) \/ Perform(c) \/ Fail(c) \/ Return(c)

Spec == Init /\ [][Next]_vars
==============================================================================
