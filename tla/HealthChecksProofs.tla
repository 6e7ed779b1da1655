------------------------- MODULE HealthChecksProofs -------------------------
(***************************************************************************)
(* What the probes tell in a process that lives as Lifecycle says, whoever *)
(* else is connected and whatever Redis and the broker do.  A process with *)
(* probes is a process: what LifecycleProofs shows holds of it as well.    *)
(***************************************************************************)
EXTENDS HealthChecks, LifecycleProofs

\* What a check has found so far it has found at some moment of it.
FoundSoFar ==
    Probing =>
        /\ status = "healthy" => Checked \ unchecked \subseteq wasUp
        /\ status = "unhealthy" => wasDown # {}

\* A check that began after the loss has still to see it, or has seen it.
LossShows ==
    Probing /\ lostBefore =>
        lost /\ ("rabbitmq" \in unchecked \/ status = "unhealthy")

HealthInv == LifeInv /\ HealthTypeOK /\ FoundSoFar /\ LossShows

\* The steps of a process with probes are those of a process.
LEMMA HealthStepIsStep == [HealthNext]_allVars => [Next]_vars
    BY DEF HealthNext, allVars, Process, Check, RedisChanges, LoseConnection

\* It all holds when the process starts.
LEMMA HealthStarts == HealthInit => HealthInv
<1> SUFFICES ASSUME HealthInit PROVE HealthInv
    OBVIOUS
<1>1. LifeInv
    BY LifeInit DEF HealthInit
<1>2. ~Probing
    BY ProberAssumption DEF HealthInit, Init, Probing, Conns
<1>3. HealthTypeOK
    BY <1>1 DEF LifeInv, HealthInit, HealthTypeOK
<1> QED BY <1>1, <1>2, <1>3 DEF HealthInv, FoundSoFar, LossShows

\* What was up or down is remembered until the next check begins.
LEMMA Remembered ==
    ASSUME HealthInv, Remember
    PROVE  /\ wasUp' \subseteq Checked /\ wasDown' \subseteq Checked
           /\ lostBefore' \in BOOLEAN
           /\ \A d \in Checked : IF Reachable(d)' THEN d \in wasUp' ELSE d \in wasDown'
           /\ ~Begins => /\ wasUp \subseteq wasUp' /\ wasDown \subseteq wasDown'
                         /\ lostBefore' = lostBefore
           /\ Begins => lostBefore' = lost
<1> DEFINE up == {d \in Checked : Reachable(d)'}
<1>1. /\ wasUp' = IF Begins THEN up ELSE wasUp \cup up
      /\ wasDown' = IF Begins THEN Checked \ up ELSE wasDown \cup (Checked \ up)
      /\ lostBefore' = IF Begins THEN lost ELSE lostBefore
    BY DEF Remember
<1>2. wasUp \subseteq Checked /\ wasDown \subseteq Checked /\ lostBefore \in BOOLEAN
      /\ lost \in BOOLEAN
    BY DEF HealthInv, HealthTypeOK
<1> HIDE DEF Begins
<1> QED BY <1>1, <1>2

\* Every step keeps it.
LEMMA HealthNextKeeps == HealthInv /\ [HealthNext]_allVars => HealthInv'
<1> SUFFICES ASSUME HealthInv, [HealthNext]_allVars PROVE HealthInv'
    OBVIOUS
<1>1. LifeInv'
    BY HealthStepIsStep, LifeNext DEF HealthInv
<1>2. TypeOK'
    BY <1>1 DEF LifeInv
<1>3. Probing' => Begins \/ Probing
    BY DEF Begins, Probing
<1>4. ASSUME Process(Next), Remember PROVE HealthInv'
  <2>1. HealthTypeOK'
    BY <1>2, <1>4, Remembered DEF Process, HealthInv, HealthTypeOK, world
  <2>2. FoundSoFar'
    BY <1>3, <1>4, Remembered DEF Process, HealthInv, FoundSoFar
  <2>3. LossShows'
    BY <1>3, <1>4, Remembered DEF Process, HealthInv, LossShows, world, Checked
  <2> QED BY <1>1, <2>1, <2>2, <2>3 DEF HealthInv
<1>5. ASSUME NEW d \in Checked, Check(d), Remember PROVE HealthInv'
  <2>1. /\ Probing /\ ~Begins
        /\ unchecked' = unchecked \ {d}
        /\ status' = StatusWith(d)
        /\ Reachable(d)' = Reachable(d)
        /\ lost' = lost
    BY <1>5 DEF Check, Begins, vars, world, Reachable
  <2>2. HealthTypeOK'
    BY <1>2, <1>5, <2>1, Remembered DEF Check, HealthInv, HealthTypeOK, world, StatusWith
  <2>3. FoundSoFar'
    BY <2>1, <1>5, Remembered DEF StatusWith, HealthInv, FoundSoFar
  <2>4. LossShows'
    BY <2>1, <1>5, Remembered DEF StatusWith, HealthInv, LossShows, Reachable
  <2> QED BY <1>1, <2>2, <2>3, <2>4 DEF HealthInv
<1>6. ASSUME RedisChanges \/ LoseConnection, Remember PROVE HealthInv'
  <2>1. ~Begins /\ UNCHANGED <<vars, probe>>
    BY <1>6 DEF RedisChanges, LoseConnection, Begins, Probing, vars, probe
  <2>2. HealthTypeOK'
    BY <1>2, <1>6, Remembered DEF RedisChanges, LoseConnection, HealthInv, HealthTypeOK,
       probe
  <2>3. /\ Probing' = Probing /\ unchecked' = unchecked /\ status' = status
        /\ lostBefore' = lostBefore
    BY <2>1, <1>6, Remembered DEF Probing, vars, probe
  <2>4. FoundSoFar'
    <3>1. wasUp \subseteq wasUp' /\ wasDown \subseteq wasDown'
      BY <2>1, <1>6, Remembered
    <3> QED BY <2>3, <3>1 DEF HealthInv, FoundSoFar
  <2>5. LossShows'
    <3>1. lost => lost'
      BY <1>6 DEF RedisChanges, LoseConnection
    <3>2. lostBefore' => lostBefore
      BY <2>3
    <3> QED BY <2>3, <3>1, <3>2, Zenon DEF HealthInv, LossShows
  <2> QED BY <1>1, <2>2, <2>4, <2>5 DEF HealthInv
<1>7. CASE UNCHANGED allVars
    BY <1>1, <1>2, <1>7 DEF allVars, vars, world, probe, memory, HealthInv,
       HealthTypeOK, FoundSoFar, LossShows, Probing
<1> QED BY <1>4, <1>5, <1>6, <1>7 DEF HealthNext

\* It holds in every reachable state.
LEMMA HealthAlways == HealthSpec => []HealthInv
<1> QED BY HealthStarts, HealthNextKeeps, PTL DEF HealthSpec

\* A process with probes is a process: requests keep what they need, probes
\* among them, and a process that ends in time ends clean.
THEOREM ProbedProcessIsProcess == HealthSpec => Spec
<1>1. HealthInit => Init
    BY DEF HealthInit
<1> QED BY <1>1, HealthStepIsStep, PTL DEF HealthSpec, Spec

\* The variables of the checks keep their types.
THEOREM HealthTypeCorrect == HealthSpec => []HealthTypeOK
<1>1. HealthInv => HealthTypeOK
    BY DEF HealthInv
<1> QED BY <1>1, HealthAlways, PTL

\* A healthy answer found each dependency up at some moment of the check, and
\* an unhealthy one found some dependency down, however the two change.
THEOREM VerdictsAlwaysTrue == HealthSpec => []VerdictsWereTrue
<1>1. HealthInv => VerdictsWereTrue
  <2> SUFFICES ASSUME HealthInv, Complete
               PROVE  IF status = "healthy" THEN wasUp = Checked ELSE wasDown # {}
    BY DEF VerdictsWereTrue
  <2>1. /\ Probing /\ unchecked = {}
        /\ wasUp \subseteq Checked
        /\ status \in {"healthy", "unhealthy"}
    BY DEF Complete, HealthInv, HealthTypeOK
  <2> QED BY <2>1 DEF HealthInv, FoundSoFar
<1> QED BY <1>1, HealthAlways, PTL

\* Once the broker is lost, no check that begins is healthy: the process is not
\* ready again until it is started anew.
THEOREM LostIsNeverReady == HealthSpec => []NeverReadyAgain
<1>1. HealthInv => NeverReadyAgain
    BY DEF HealthInv, LossShows, NeverReadyAgain, Complete
<1> QED BY <1>1, HealthAlways, PTL
=============================================================================
