------------------------ MODULE ElectricDeviceProofs ------------------------
(***************************************************************************)
(* What holds of the device for every interval and every width of          *)
(* millis(), any number of writers in the backend and of messages on their *)
(* way: its timer, and why its switches follow what is stored.             *)
(***************************************************************************)
EXTENDS ElectricDevice, TLAPS, WellFoundedInduction

\* The difference of two readings of millis() is the time between them, as
\* long as the clock has not lapped.
LEMMA Elapsed ==
    ASSUME NEW n \in Nat \ {0}, NEW c \in 0..(n - 1), NEW l \in 0..(n - 1),
           NEW w \in 0..(n - 1), (c - l) % n = w
    PROVE  /\ (c + 1) % n \in 0..(n - 1)
           /\ w + 1 < n => (((c + 1) % n) - l) % n = w + 1
<1>1. CASE c + 1 < n
  <2>1. (c + 1) % n = c + 1
    BY <1>1
  <2>2. CASE c >= l
    BY <1>1, <2>1, <2>2
  <2>3. CASE c < l
    BY <1>1, <2>1, <2>3
  <2> QED BY <2>1, <2>2, <2>3
<1>2. CASE c + 1 = n
    BY <1>2
<1> QED BY <1>1, <1>2

\* What is read of an answer, and of a message, is a level for every switch.
LEMMA LevelsStayLevels ==
    ASSUME TypeOK
    PROVE  /\ \A name \in Names, state \in Levels :
                setStateData(name, state) \in [Switches -> Levels]
           /\ response # None => Shown(response) \in [Switches -> Levels]
<1>1. pins \in [Switches -> Levels] BY DEF TypeOK
<1>2. \A name \in Names, state \in Levels :
            setStateData(name, state) \in [Switches -> Levels]
  BY <1>1 DEF setStateData
<1>3. ASSUME response # None
      PROVE  Shown(response) \in [Switches -> Levels]
  <2>1. response \in States BY <1>3 DEF TypeOK
  <2>2. \A s \in Switches : response[s] \in Levels \cup {None}
    BY <2>1 DEF States, Names
  <2> QED BY <1>1, <2>2 DEF Shown
<1> QED BY <1>2, <1>3

\* The backend keeps its states and messages what they are.
LEMMA ChangeTyped ==
    ASSUME TypeOK, NEW w \in Writers, NEW n \in Names, NEW v \in Levels,
           Feed!StoreToTell(w, n, v) \/ Feed!StoreInSilence(w, n, v)
    PROVE  /\ store' \in States /\ announced' \in States
           /\ telling' \in [Writers -> Messages \cup {None}]
<1>1. /\ store' = [store EXCEPT ![n] = v]
      /\ announced' = announced
      /\ telling' = telling \/ telling' = [telling EXCEPT ![w] = <<n, v>>]
    BY DEF Feed!StoreToTell, Feed!StoreInSilence
<1>2. store' \in States BY <1>1 DEF TypeOK, States
<1>3. telling' \in [Writers -> Messages \cup {None}]
  <2>1. <<n, v>> \in Messages BY DEF Messages
  <2> QED BY <1>1, <2>1 DEF TypeOK
<1> QED BY <1>1, <1>2, <1>3 DEF TypeOK

\* A message that goes out is one, and so is the queue it comes into.
LEMMA TellTyped ==
    ASSUME TypeOK, NEW w \in Writers, Feed!Tell(w)
    PROVE  /\ telling[w] \in Messages
           /\ announced' \in States
           /\ telling' \in [Writers -> Messages \cup {None}]
           /\ Append(inbox, telling[w]) \in Seq(Messages)
<1>1. telling[w] \in Messages BY DEF TypeOK, Feed!Tell
<1>2. telling[w][2] \in Levels BY <1>1 DEF Messages
<1>3. announced' \in States BY <1>2 DEF TypeOK, States, Feed!Tell
<1>4. telling' \in [Writers -> Messages \cup {None}] BY DEF TypeOK, Feed!Tell
<1>5. Append(inbox, telling[w]) \in Seq(Messages) BY <1>1 DEF TypeOK
<1> QED BY <1>1, <1>3, <1>4, <1>5

\* What every step does to the interval: it is the default, or grows up to the
\* ceiling of the backoff.
LEMMA BackoffTyped ==
    ASSUME TypeOK
    PROVE  /\ BackoffInterval \in Intervals
           /\ DefaultInterval \in Intervals
           /\ minUL(requestInterval + BackoffInterval, MaxBackoffInterval)
                \in Intervals
BY DeviceAssumption DEF TypeOK, Intervals, minUL

\* The types hold when the device is switched on.
LEMMA InitTyped == Init => TypeOK
<1> SUFFICES ASSUME Init PROVE TypeOK
  OBVIOUS
<1>1. DefaultInterval \in Intervals /\ 0 \in 0..(Wrap - 1)
  BY DeviceAssumption DEF Intervals
<1>2. inbox \in Seq(Messages) BY DEF Init
<1>6. /\ store \in States /\ announced \in States
      /\ telling \in [Writers -> Messages \cup {None}]
  BY DEF Init, Feed!Init, States
<1>3. pins \in [Switches -> Levels] BY DEF Init, Levels
<1>4. pc \in Phases BY DEF Init, Phases
<1>5. /\ changes \in 0..MaxChanges
      /\ faults \in 0..MaxFaults
      /\ waited \in Nat
  BY DeviceAssumption DEF Init
<1> QED BY <1>1, <1>2, <1>3, <1>4, <1>5, <1>6 DEF Init, TypeOK

\* A clock that goes on shows another of its readings.
LEMMA ClockTyped ==
    ASSUME TypeOK, Elapse
    PROVE  /\ clock' \in 0..(Wrap - 1)
           /\ lastRequestTime' \in 0..(Wrap - 1)
           /\ waited' \in Nat
BY DeviceAssumption DEF TypeOK, Elapse

\* Every step of the device and of its environment keeps the types.
LEMMA NextTyped ==
    ASSUME TypeOK, [Next]_vars
    PROVE  TypeOK'
<1> USE DEF Phases
<1>1. CASE Change
  <2>1. PICK w \in Writers, n \in Names, v \in Levels : Feed!StoreToTell(w, n, v)
    BY <1>1 DEF Change
  <2>2. changes' \in 0..MaxChanges BY <1>1, DeviceAssumption DEF Change, TypeOK
  <2> QED BY <1>1, <2>1, <2>2, ChangeTyped DEF Change, TypeOK, session, timer, backoff
<1>2. CASE ChangeUntold
  <2>1. PICK w \in Writers, n \in Names, v \in Levels :
            /\ Feed!StoreInSilence(w, n, v)
            /\ missed' = missed \cup ({n} \cap Switches)
    BY <1>2 DEF ChangeUntold
  <2>2. changes' \in 0..MaxChanges /\ faults' \in 0..MaxFaults
    BY <1>2, DeviceAssumption DEF ChangeUntold, Fault, TypeOK
  <2>3. missed' \subseteq Switches BY <2>1 DEF TypeOK
  <2> QED BY <1>2, <2>1, <2>2, <2>3, ChangeTyped
          DEF ChangeUntold, TypeOK, session, timer, backoff
<1>16. CASE \E w \in Writers : Tell(w)
  <2>1. PICK w \in Writers : Tell(w) BY <1>16
  <2>2. Feed!Tell(w) BY <2>1 DEF Tell
  <2>3. inbox' \in Seq(Messages) BY <2>1, <2>2, TellTyped DEF Tell, TypeOK
  <2>4. missed' \subseteq Switches BY <2>1 DEF Tell, TypeOK
  <2>5. store' = store BY <2>2 DEF Feed!Tell
  <2> QED BY <2>1, <2>2, <2>3, <2>4, <2>5, TellTyped DEF Tell, TypeOK, timer, backoff
<1>17. CASE LoseMessages
  <2>1. PICK W \in SUBSET Writers :
            /\ Feed!Drop(W)
            /\ missed' = missed \cup {s \in Switches :
                    \E w \in W : telling[w] # None /\ telling[w][1] = s}
    BY <1>17 DEF LoseMessages
  <2>2. /\ telling' \in [Writers -> Messages \cup {None}]
        /\ store' = store
        /\ announced' = announced
    BY <2>1 DEF Feed!Drop, TypeOK
  <2>3. faults' \in 0..MaxFaults
    BY <1>17, DeviceAssumption DEF LoseMessages, Fault, TypeOK
  <2>4. missed' \subseteq Switches BY <2>1 DEF TypeOK
  <2> QED BY <1>17, <2>2, <2>3, <2>4 DEF LoseMessages, TypeOK, session, timer, backoff
<1>3. CASE LoseSession
  <2>1. /\ inbox' \in Seq(Messages)
        /\ connected' \in BOOLEAN
        /\ missed' \subseteq Switches
    <3>1. inbox' \in Seq(Messages) BY <1>3 DEF LoseSession
    <3>2. connected' \in BOOLEAN BY <1>3 DEF LoseSession
    <3>3. missed' \subseteq Switches BY <1>3 DEF LoseSession, TypeOK
    <3> QED BY <3>1, <3>2, <3>3
  <2>2. faults' \in 0..MaxFaults
    BY <1>3, DeviceAssumption DEF LoseSession, Fault, TypeOK
  <2> QED BY <1>3, <2>1, <2>2 DEF LoseSession, TypeOK, server, timer, backoff
<1>4. CASE FindDisconnected
  BY <1>4 DEF FindDisconnected, TypeOK, server, session, timer, backoff
<1>5. CASE Connect
  BY <1>5 DEF Connect, TypeOK, server, timer, backoff
<1>6. CASE Receive
  <2>1. Head(inbox) \in Messages /\ Tail(inbox) \in Seq(Messages)
    BY <1>6 DEF Receive, TypeOK
  <2>2. pins' \in [Switches -> Levels]
    BY <1>6, <2>1, LevelsStayLevels DEF Receive, Messages
  <2>3. inbox' \in Seq(Messages) BY <1>6, <2>1 DEF Receive
  <2> QED BY <1>6, <2>2, <2>3 DEF Receive, TypeOK, server, timer, backoff
<1>7. CASE GetStates
  <2>1. response' \in States \cup {None} /\ missed' \subseteq Switches
    BY <1>7 DEF GetStates, TypeOK
  <2> QED BY <1>7, <2>1 DEF GetStates, TypeOK, server, session, timer, backoff
<1>8. CASE Synced
  <2>1. pins' \in [Switches -> Levels]
    BY <1>8, LevelsStayLevels DEF Synced
  <2>2. requestInterval' \in Intervals
    BY <1>8, BackoffTyped DEF Synced
  <2> QED BY <1>8, <2>1, <2>2 DEF Synced, AfterSync, TypeOK, server, session, timer
<1>9. CASE SyncRefused
  <2>1. requestInterval' \in Intervals
    BY <1>9, BackoffTyped DEF SyncRefused
  <2>2. faults' \in 0..MaxFaults
    BY <1>9, DeviceAssumption DEF SyncRefused, Fault, TypeOK
  <2> QED BY <1>9, <2>1, <2>2 DEF SyncRefused, AfterSync, TypeOK, server, session, timer
<1>10. CASE SyncFailed
  <2>1. faults' \in 0..MaxFaults /\ missed' \subseteq Switches
    BY <1>10, DeviceAssumption DEF SyncFailed, Fault, TypeOK
  <2> QED BY <1>10, <2>1 DEF SyncFailed, AfterSync, TypeOK, server, session, timer
<1>11. CASE StartSync
  BY <1>11 DEF StartSync, TypeOK, server, session, backoff
<1>12. CASE LoopTick
  <2>1. Elapse BY <1>12 DEF LoopTick
  <2> QED BY <1>12, <2>1, ClockTyped DEF LoopTick, TypeOK, server, session, backoff
<1>13. CASE Stall
  <2>1. Elapse BY <1>13 DEF Stall
  <2>2. faults' \in 0..MaxFaults
    BY <1>13, DeviceAssumption DEF Stall, Fault, TypeOK
  <2> QED BY <1>13, <2>1, <2>2, ClockTyped DEF Stall, TypeOK, server, session, backoff
<1>14. CASE Reset
  <2>1. faults' \in 0..MaxFaults /\ 0 \in 0..(Wrap - 1)
    BY <1>14, DeviceAssumption DEF Reset, Fault, TypeOK
  <2>2. pins' \in [Switches -> Levels] /\ inbox' \in Seq(Messages)
    BY <1>14 DEF Reset, Levels
  <2> QED BY <1>14, <2>1, <2>2, BackoffTyped DEF Reset, TypeOK, server
<1>15. CASE UNCHANGED vars
  BY <1>15 DEF vars, TypeOK, server, session, timer, backoff
<1> QED
  BY <1>1, <1>2, <1>3, <1>4, <1>5, <1>6, <1>7, <1>8, <1>9, <1>10, <1>11, <1>12,
     <1>13, <1>14, <1>15, <1>16, <1>17 DEF Next, Device

\* Every variable keeps its type; the interval stays between the shortest
\* backoff and the default, and a clock reading is one millis() can give.
THEOREM DeviceTypeCorrect == Spec => []TypeOK
BY InitTyped, NextTyped, PTL DEF Spec

-----------------------------------------------------------------------------
\* The timer measures the time since the last sync it started, which waits
\* longer than the interval only for what makes the device wait.
TimerInv ==
    /\ (clock - lastRequestTime) % Wrap = waited
    /\ waited <= DefaultInterval + faults

\* A timer that was just set shows nothing, and more faults allow for more.
LEMMA TimerArithmetic ==
    /\ \A c \in 0..(Wrap - 1) : (c - c) % Wrap = 0
    /\ \A f \in Nat : 0 <= DefaultInterval + f
    /\ \A f \in Nat, g \in Nat, w \in Nat :
            f <= g /\ w <= DefaultInterval + f => w <= DefaultInterval + g
<1>1. \A c \in 0..(Wrap - 1) : (c - c) % Wrap = 0
  <2> TAKE c \in 0..(Wrap - 1)
  <2>1. c - c = 0 BY DeviceAssumption
  <2>2. 0 % Wrap = 0 BY DeviceAssumption
  <2> QED BY <2>1, <2>2
<1> QED BY <1>1, DeviceAssumption

\* Time that passes is time the timer sees.
LEMMA ElapseMeasured ==
    ASSUME TypeOK, TimerInv, Elapse, waited + 1 < Wrap
    PROVE  (clock' - lastRequestTime') % Wrap = waited' /\ waited' = waited + 1
<1>1. Wrap \in Nat \ {0} BY DeviceAssumption
<1>2. /\ clock \in 0..(Wrap - 1)
      /\ lastRequestTime \in 0..(Wrap - 1)
      /\ waited \in 0..(Wrap - 1)
      /\ (clock - lastRequestTime) % Wrap = waited
  BY DeviceAssumption DEF TypeOK, TimerInv
<1>3. (((clock + 1) % Wrap) - lastRequestTime) % Wrap = waited + 1
  BY <1>1, <1>2, Elapsed
<1> QED BY <1>3 DEF Elapse

\* The timer starts with nothing to measure.
LEMMA TimerInit == Init => TimerInv
BY DeviceAssumption DEF Init, TimerInv

\* Every step keeps what the timer measures.
LEMMA TimerStep ==
    ASSUME TypeOK, TimerInv, [Next]_vars
    PROVE  TimerInv'
<1>1. CASE LoopTick
  <2>1. waited < DefaultInterval + 1 /\ waited + 1 <= DefaultInterval
    <3>1. /\ waited \in Nat
          /\ requestInterval \in BackoffInterval..DefaultInterval
      BY DeviceAssumption DEF TypeOK, Intervals
    <3>2. ~(waited >= requestInterval)
      BY <1>1 DEF LoopTick, Due, TimerInv
    <3> QED BY <3>1, <3>2, DeviceAssumption
  <2>2. waited + 1 < Wrap
    BY <2>1, DeviceAssumption DEF TypeOK
  <2>3. Elapse /\ faults' = faults BY <1>1 DEF LoopTick
  <2> QED BY <2>1, <2>2, <2>3, ElapseMeasured, DeviceAssumption DEF TimerInv, TypeOK
<1>2. CASE Stall
  <2>1. Elapse /\ faults' = faults + 1 /\ faults < MaxFaults
    BY <1>2 DEF Stall, Fault
  <2>2. waited + 1 < Wrap
    BY <2>1, DeviceAssumption DEF TimerInv, TypeOK
  <2> QED BY <2>1, <2>2, ElapseMeasured, DeviceAssumption DEF TimerInv, TypeOK
<1>3. CASE StartSync \/ Reset
  <2>1. clock' = lastRequestTime' /\ waited' = 0 /\ clock' \in 0..(Wrap - 1)
    BY <1>3, NextTyped, DeviceAssumption DEF StartSync, Reset, TypeOK, Next, Device
  <2>2. faults' \in Nat
    BY <1>3, DeviceAssumption DEF StartSync, Reset, Fault, TypeOK
  <2>3. (clock' - lastRequestTime') % Wrap = 0
    BY <2>1, TimerArithmetic, Zenon
  <2>4. 0 <= DefaultInterval + faults' BY <2>2, TimerArithmetic, Zenon
  <2> QED BY <2>1, <2>3, <2>4 DEF TimerInv
<1>4. CASE /\ UNCHANGED timer
           /\ faults' = faults \/ Fault
  <2>1. faults' >= faults /\ faults \in Nat /\ faults' \in Nat
    BY <1>4 DEF Fault, TypeOK
  <2>2. waited <= DefaultInterval + faults'
    <3>1. waited \in Nat /\ waited <= DefaultInterval + faults
      BY DEF TimerInv, TypeOK
    <3>2. faults <= faults' BY <2>1
    <3> QED BY <2>1, <3>1, <3>2, TimerArithmetic, Zenon
  <2> QED BY <1>4, <2>2 DEF TimerInv, timer
<1>5. ASSUME ~(LoopTick \/ Stall \/ StartSync \/ Reset)
      PROVE  UNCHANGED timer /\ (faults' = faults \/ Fault)
  BY <1>5 DEF Next, Device, vars, Change, ChangeUntold, Tell,
     LoseMessages, LoseSession,
     FindDisconnected, Connect, Receive, GetStates, Synced, SyncRefused, SyncFailed
<1> QED BY <1>1, <1>2, <1>3, <1>4, <1>5

\* A sync that is due is not put off while the device is in its loop, for
\* every width of millis() that is wider than the interval.
THEOREM DevicePollsInTime == Spec => PollsInTime
<1>1. TypeOK /\ TimerInv /\ [Next]_vars
      => [(pc = "loop" /\ pc' = "loop" /\ waited' > waited)
            => waited < requestInterval]_vars
  <2> SUFFICES ASSUME TypeOK, TimerInv, Next,
                      pc = "loop", pc' = "loop", waited' > waited
               PROVE  waited < requestInterval
    OBVIOUS
  <2>1. CASE LoopTick
    BY <2>1, DeviceAssumption DEF LoopTick, Due, TimerInv, TypeOK, Intervals
  <2>2. ~Stall BY DEF Stall
  <2>3. ~(StartSync \/ Reset) BY DEF StartSync, Reset, TypeOK
  <2>4. ASSUME ~(LoopTick \/ Stall \/ StartSync \/ Reset) PROVE FALSE
    <3>1. waited' = waited
      BY <2>4 DEF Next, Device, timer, Change, ChangeUntold, Tell,
     LoseMessages, LoseSession,
         FindDisconnected, Connect, Receive, GetStates, Synced, SyncRefused,
         SyncFailed
    <3> QED BY <3>1 DEF TypeOK
  <2> QED BY <2>1, <2>2, <2>3, <2>4
<1>2. TypeOK /\ TimerInv /\ [Next]_vars => TimerInv' BY TimerStep
<1> QED BY <1>1, <1>2, DeviceTypeCorrect, TimerInit, PTL DEF Spec, PollsInTime
-----------------------------------------------------------------------------
(* The switches.  SwitchesFollow is inductive with the types; the work is in  *)
(* what a queue of messages comes to.                                         *)

\* A set of positions that is not empty has a last one.
LEMMA LastPosition ==
    ASSUME NEW n \in Nat, NEW T \in SUBSET (1..n), T # {}
    PROVE  /\ Max(T) \in T
           /\ \A i \in T : Max(T) >= i
<1> DEFINE Less == OpToRel(<, Nat)
           D == {n - i : i \in T}
<1>1. IsWellFoundedOn(Less, Nat)
    BY NatLessThanWellFounded
<1>2. D \subseteq Nat /\ D # {}
  <2>1. \A i \in 1..n : n - i \in Nat
    OBVIOUS
  <2>2. \A i \in T : n - i \in D
    OBVIOUS
  <2> QED BY <2>1, <2>2
<1>3. PICK x \in D : \A y \in D : <<y, x>> \notin Less
  <2> HIDE DEF Less, D
  <2> QED BY <1>1, <1>2, WFMin
<1>4. \A y \in D : ~(y < x)
    BY <1>2, <1>3 DEF OpToRel
<1>5. PICK m \in T : x = n - m
    BY <1>3
<1>6. \A i \in T : m >= i
  <2> TAKE i \in T
  <2>1. ~(n - i < n - m)
    BY <1>4, <1>5
  <2> QED BY <2>1
<1> QED BY <1>6 DEF Max

\* And only one.
LEMMA LastPositionIs ==
    ASSUME NEW n \in Nat, NEW T \in SUBSET (1..n), NEW m \in T,
           \A i \in T : m >= i
    PROVE  Max(T) = m
<1>1. Max(T) \in T /\ \A i \in T : Max(T) >= i
    BY LastPosition
<1>2. \A i, j \in 1..n : i >= j /\ j >= i => i = j
    OBVIOUS
<1>3. Max(T) >= m /\ m >= Max(T)
    BY <1>1
<1>4. m \in 1..n /\ Max(T) \in 1..n
    BY <1>1
<1> QED BY <1>2, <1>3, <1>4, Zenon

\* A message that comes last counts if it tells of the name.
LEMMA LastToldAppend ==
    ASSUME NEW M, NEW q \in Seq(M), NEW m \in M, NEW name, NEW value
    PROVE  LastTold(Append(q, m), name, value) =
                IF m[1] = name THEN m[2] ELSE LastTold(q, name, value)
<1> DEFINE n == Len(q)
           a == Append(q, m)
           told == Told(q, name)
<1>1. /\ n \in Nat /\ DOMAIN q = 1..n /\ DOMAIN a = 1..(n + 1)
      /\ a[n + 1] = m
      /\ \A i \in 1..n : a[i] = q[i]
    OBVIOUS
<1>2. told \in SUBSET (1..n)
    BY <1>1 DEF Told
<1>3. CASE m[1] = name
  <2>1. n + 1 \in Told(a, name) /\ Told(a, name) \in SUBSET (1..(n + 1))
    BY <1>1, <1>3 DEF Told
  <2>2. \A i \in Told(a, name) : n + 1 >= i
    BY <1>1, <2>1
  <2>3. Max(Told(a, name)) = n + 1
    <3>1. n + 1 \in Nat
      BY <1>1
    <3> HIDE DEF a, n
    <3> QED BY <2>1, <2>2, <3>1, LastPositionIs
  <2> QED BY <1>1, <1>3, <2>1, <2>3 DEF LastTold
<1>4. CASE m[1] # name
  <2>1. Told(a, name) = told
    BY <1>1, <1>4 DEF Told
  <2>2. CASE told = {}
    BY <1>4, <2>1, <2>2 DEF LastTold
  <2>3. CASE told # {}
    <3>1. Max(told) \in 1..n
      <4> HIDE DEF told, n
      <4> QED BY <1>1, <1>2, <2>3, LastPosition
    <3> QED BY <1>1, <1>4, <2>1, <2>3, <3>1 DEF LastTold
  <2> QED BY <2>2, <2>3
<1> QED BY <1>3, <1>4

\* A message that has come to its turn is as good as the value it carries.
LEMMA LastToldTail ==
    ASSUME NEW M, NEW q \in Seq(M), q # << >>, NEW name, NEW value
    PROVE  LastTold(q, name, value) =
                LastTold(Tail(q), name,
                         IF Head(q)[1] = name THEN Head(q)[2] ELSE value)
<1> DEFINE n == Len(q)
           t == Tail(q)
           told == Told(q, name)
           later == Told(t, name)
<1>1. /\ n \in Nat \ {0} /\ DOMAIN q = 1..n /\ DOMAIN t = 1..(n - 1)
      /\ Head(q) = q[1]
      /\ \A i \in 1..(n - 1) : t[i] = q[i + 1]
    OBVIOUS
<1>2. /\ told \in SUBSET (1..n) /\ later \in SUBSET (1..(n - 1))
      /\ \A i \in 1..(n - 1) : i \in later <=> i + 1 \in told
      /\ 1 \in told <=> Head(q)[1] = name
    BY <1>1 DEF Told
<1>3. CASE later = {}
  <2>1. \A i \in told : i = 1
    <3> TAKE i \in told
    <3>1. i \in 1..n /\ (i # 1 => i - 1 \in 1..(n - 1) /\ (i - 1) + 1 = i)
      BY <1>1, <1>2
    <3> QED BY <1>2, <1>3, <3>1
  <2>2. CASE told = {}
    BY <1>2, <1>3, <2>2 DEF LastTold
  <2>3. CASE told # {}
    <3>1. told = {1}
      BY <2>1, <2>3
    <3>2. Max(told) = 1
      <4> HIDE DEF told, n
      <4> QED BY <1>1, <1>2, <3>1, LastPositionIs
    <3> QED BY <1>1, <1>2, <1>3, <3>1, <3>2 DEF LastTold
  <2> QED BY <2>2, <2>3
<1>4. CASE later # {}
  <2> DEFINE m == Max(later)
  <2>1. m \in later /\ \A i \in later : m >= i
    <3> HIDE DEF later, n
    <3>1. n - 1 \in Nat
      BY <1>1
    <3> QED BY <1>2, <1>4, <3>1, LastPosition
  <2>2. m \in 1..(n - 1) /\ m + 1 \in told
    BY <1>2, <2>1
  <2>3. \A i \in told : m + 1 >= i
    <3> TAKE i \in told
    <3>1. i \in 1..n /\ (i # 1 => i - 1 \in 1..(n - 1) /\ (i - 1) + 1 = i)
      BY <1>1, <1>2
    <3>2. i # 1 => m >= i - 1
      BY <1>2, <2>1, <3>1
    <3> HIDE DEF m
    <3> QED BY <1>1, <2>2, <3>1, <3>2
  <2>4. Max(told) = m + 1
    <3> HIDE DEF told, n, m
    <3> QED BY <1>1, <1>2, <2>2, <2>3, LastPositionIs
  <2>5. t[m] = q[m + 1]
    BY <1>1, <2>2
  <2> HIDE DEF m
  <2>6. LastTold(q, name, value) = q[m + 1][2]
    BY <2>2, <2>4 DEF LastTold
  <2> QED BY <1>4, <2>5, <2>6 DEF LastTold, m
<1> QED BY <1>3, <1>4
-----------------------------------------------------------------------------
\* A switch that did what it should does so after a step that stores nothing
\* for it, drops no message it waits for and leaves what it will show.
LEMMA FollowFrame ==
    ASSUME SwitchesFollow,
           \A s \in Switches \ missed' :
                \/ store'[s] = None
                \/ ToldSoon(s)'
                \/ WillShow(s)' = store'[s]
                \/ /\ s \notin missed
                   /\ store'[s] = store[s]
                   /\ ToldSoon(s) => ToldSoon(s)'
                   /\ WillShow(s)' = WillShow(s)
    PROVE  SwitchesFollow'
    BY DEF SwitchesFollow

\* What a switch will show depends on the messages, the answer and its pin.
LEMMA ShowFrame ==
    ASSUME UNCHANGED <<inbox, response, pins>>, NEW s \in Switches
    PROVE  WillShow(s)' = WillShow(s)
    BY DEF WillShow, LastTold, Told

\* Someone is about to tell a switch what is stored for it, and still is if
\* neither the message nor what is stored has changed.
LEMMA SoonFrame ==
    ASSUME NEW w \in Writers, NEW s \in Switches, telling[w] = <<s, store[s]>>,
           telling'[w] = telling[w], store'[s] = store[s]
    PROVE  ToldSoon(s)'
    BY DEF ToldSoon

\* A value stored to be told of is told soon, and the rest stays as it is.
LEMMA FollowStore ==
    ASSUME TypeOK, SwitchesFollow, NEW w \in Writers, NEW n \in Names,
           NEW v \in Levels, UNCHANGED <<inbox, response, pins>>,
           missed \subseteq missed',
           \/ Feed!StoreToTell(w, n, v)
           \/ /\ Feed!StoreInSilence(w, n, v)
              /\ n \in Switches => n \in missed'
    PROVE  SwitchesFollow'
<1>1. /\ telling[w] = None /\ store' = [store EXCEPT ![n] = v]
      /\ telling \in [Writers -> Messages \cup {None}]
      /\ store \in [Names -> Levels \cup {None}]
      /\ \/ telling' = [telling EXCEPT ![w] = <<n, v>>]
         \/ telling' = telling /\ (n \in Switches => n \in missed')
    BY DEF Feed!StoreToTell, Feed!StoreInSilence, TypeOK, States
<1>2. ASSUME NEW s \in Switches \ missed', s # n, store'[s] # None
      PROVE  /\ s \notin missed /\ store'[s] = store[s]
             /\ ToldSoon(s) => ToldSoon(s)'
             /\ WillShow(s)' = WillShow(s)
  <2>1. s \in Names /\ store'[s] = store[s]
    BY <1>1, <1>2 DEF Names
  <2>2. ToldSoon(s) => ToldSoon(s)'
    <3> SUFFICES ASSUME NEW o \in Writers, telling[o] = <<s, store[s]>>
                 PROVE  ToldSoon(s)'
      BY DEF ToldSoon
    <3>1. telling[o] # None
      BY <1>1, <1>2, <2>1, NoneAssumption DEF Messages
    <3>2. telling'[o] = telling[o]
      BY <1>1, <3>1
    <3> QED BY <2>1, <3>2, SoonFrame
  <2> QED BY <2>1, <2>2, ShowFrame
<1>3. ASSUME n \in Switches \ missed' PROVE ToldSoon(n)'
  <2>1. telling'[w] = <<n, store'[n]>>
    BY <1>1, <1>3
  <2> QED BY <2>1 DEF ToldSoon
<1> QED BY <1>2, <1>3, FollowFrame

\* A message reaches the session, or is missed.  One that another writer's
\* newer message will follow does no harm.
LEMMA FollowTell ==
    ASSUME TypeOK, SwitchesFollow, NEW w \in Writers, Tell(w)
    PROVE  SwitchesFollow'
<1>1. /\ telling[w] \in Messages
      /\ telling' = [telling EXCEPT ![w] = None]
      /\ telling \in [Writers -> Messages \cup {None}]
      /\ UNCHANGED <<store, pins, response>>
      /\ inbox' = IF connected THEN Append(inbox, telling[w]) ELSE inbox
    BY DEF Tell, Feed!Tell, TypeOK
<1>2. PICK n \in Names, v \in Levels : telling[w] = <<n, v>>
    BY <1>1 DEF Messages
<1>3. missed' = IF connected /\ (v = store[n] \/ ToldSoon(n))
                THEN missed ELSE missed \cup ({n} \cap Switches)
    BY <1>2 DEF Tell
<1>4. ASSUME NEW s \in Switches, NEW o \in Writers, telling[o] = <<s, store[s]>>,
             o # w
      PROVE  ToldSoon(s)'
    BY <1>1, <1>4, SoonFrame
<1>5. \A s \in Switches, b \in Levels \cup {None} :
            LastTold(inbox', s, b) = IF connected /\ s = n THEN v
                                     ELSE LastTold(inbox, s, b)
  <2>1. inbox \in Seq(Messages)
    BY DEF TypeOK
  <2> QED BY <1>1, <1>2, <2>1, LastToldAppend
<1>6. \A s \in Switches : WillShow(s)' = IF connected /\ s = n THEN v ELSE WillShow(s)
  <2> TAKE s \in Switches
  <2> DEFINE b == IF response = None \/ response[s] = None THEN pins[s]
                  ELSE response[s]
  <2>1. b \in Levels \cup {None} /\ b' = b
    BY <1>1 DEF TypeOK, States, Names
  <2>2. WillShow(s) = LastTold(inbox, s, b) /\ WillShow(s)' = LastTold(inbox', s, b)
    BY <1>1 DEF WillShow, LastTold, Told
  <2> QED BY <1>5, <2>1, <2>2
<1>7. ASSUME NEW s \in Switches \ missed', s # n
      PROVE  /\ s \notin missed /\ store'[s] = store[s]
             /\ ToldSoon(s) => ToldSoon(s)'
             /\ WillShow(s)' = WillShow(s)
    BY <1>1, <1>2, <1>3, <1>4, <1>6, <1>7 DEF ToldSoon
<1>8. ASSUME n \in Switches \ missed'
      PROVE  ToldSoon(n)' \/ WillShow(n)' = store'[n]
  <2>1. connected /\ (v = store[n] \/ ToldSoon(n))
    BY <1>3, <1>8
  <2>2. CASE v = store[n]
    BY <1>1, <1>6, <1>8, <2>1, <2>2
  <2>3. CASE v # store[n]
    <3>1. PICK o \in Writers : telling[o] = <<n, store[n]>>
      BY <2>1, <2>3 DEF ToldSoon
    <3>2. o # w
      BY <1>2, <2>3, <3>1
    <3> QED BY <1>4, <1>8, <3>1, <3>2
  <2> QED BY <2>2, <2>3
<1> QED BY <1>7, <1>8, FollowFrame

\* What is lost is missed.
LEMMA FollowLoss ==
    ASSUME TypeOK, SwitchesFollow, LoseMessages \/ LoseSession
    PROVE  SwitchesFollow'
<1>1. CASE LoseMessages
  <2>1. PICK W \in SUBSET Writers :
            /\ telling' = [w \in Writers |-> IF w \in W THEN None ELSE telling[w]]
            /\ missed' = missed \cup {s \in Switches :
                    \E w \in W : telling[w] # None /\ telling[w][1] = s}
    BY <1>1 DEF LoseMessages, Feed!Drop
  <2>2. UNCHANGED <<store, inbox, response, pins>>
    BY <1>1 DEF LoseMessages, Feed!Drop, session
  <2>3. ASSUME NEW s \in Switches \ missed', store[s] # None, NEW w \in Writers,
               telling[w] = <<s, store[s]>>
        PROVE  ToldSoon(s)'
    <3>1. s \in Names /\ telling[w] \in Messages \cup {None}
      BY <2>3 DEF Names, TypeOK
    <3>2. telling[w] # None /\ telling[w][1] = s
      <4>1. store[s] \in Levels
        BY <2>3, <3>1 DEF TypeOK, States
      <4> QED BY <2>3, <3>1, <4>1, NoneAssumption DEF Messages
    <3>3. w \notin W
      BY <2>1, <2>3, <3>2
    <3> QED BY <2>1, <2>2, <2>3, <3>3, SoonFrame
  <2>4. \A s \in Switches : WillShow(s)' = WillShow(s)
    BY <2>2, ShowFrame
  <2>5. \A s \in Switches \ missed' : s \notin missed /\ store'[s] = store[s]
    BY <2>1, <2>2
  <2>6. \A s \in Switches \ missed' : store[s] # None /\ ToldSoon(s) => ToldSoon(s)'
    BY <2>3 DEF ToldSoon
  <2> QED BY <2>4, <2>5, <2>6, FollowFrame
<1>2. CASE LoseSession
  <2>1. /\ inbox' = << >> /\ inbox \in Seq(Messages)
        /\ missed' = missed \cup {s \in Switches : \E m \in ToSet(inbox) : m[1] = s}
        /\ UNCHANGED <<store, telling, response, pins>>
    BY <1>2 DEF LoseSession, server, TypeOK
  <2>2. ASSUME NEW s \in Switches \ missed' PROVE WillShow(s)' = WillShow(s)
    <3>1. Told(inbox, s) = {}
      BY <2>1, <2>2 DEF Told, ToSet
    <3>2. Told(inbox', s) = {}
      BY <2>1 DEF Told
    <3>3. \A b : LastTold(inbox', s, b) = LastTold(inbox, s, b)
      BY <3>1, <3>2 DEF LastTold
    <3>4. WillShow(s)' = LastTold(inbox', s, IF response = None \/ response[s] = None
                                             THEN pins[s] ELSE response[s])
      BY <2>1 DEF WillShow, LastTold, Told
    <3> QED BY <3>3, <3>4 DEF WillShow
  <2>3. \A s \in Switches : ToldSoon(s)' = ToldSoon(s)
    BY <2>1 DEF ToldSoon
  <2>4. \A s \in Switches \ missed' : s \notin missed /\ store'[s] = store[s]
    BY <2>1
  <2> QED BY <2>2, <2>3, <2>4, FollowFrame
<1> QED BY <1>1, <1>2

\* Reading a message moves what a switch will show to what it shows.
LEMMA FollowReceive ==
    ASSUME TypeOK, SwitchesFollow, Receive
    PROVE  SwitchesFollow'
<1>1. /\ inbox \in Seq(Messages) /\ inbox # << >>
      /\ inbox' = Tail(inbox)
      /\ pins' = setStateData(Head(inbox)[1], Head(inbox)[2])
      /\ response = None
      /\ UNCHANGED <<store, telling, response, missed>>
    BY DEF Receive, TypeOK, server
<1>2. ASSUME NEW s \in Switches PROVE WillShow(s)' = WillShow(s)
  <2>1. pins'[s] = IF Head(inbox)[1] = s THEN Head(inbox)[2] ELSE pins[s]
    BY <1>1 DEF setStateData
  <2>2. LastTold(inbox, s, pins[s]) = LastTold(inbox', s, pins'[s])
    BY <1>1, <2>1, LastToldTail
  <2>3. WillShow(s) = LastTold(inbox, s, pins[s])
    BY <1>1 DEF WillShow
  <2>4. WillShow(s)' = LastTold(inbox', s, pins'[s])
    BY <1>1 DEF WillShow, LastTold, Told
  <2> QED BY <2>2, <2>3, <2>4
<1>3. \A s \in Switches : ToldSoon(s)' = ToldSoon(s)
    BY <1>1 DEF ToldSoon
<1> QED BY <1>1, <1>2, <1>3, FollowFrame

\* An answer of the backend makes up for what was missed, except where an older
\* message would undo it.
LEMMA FollowGetStates ==
    ASSUME TypeOK, SwitchesFollow, GetStates
    PROVE  SwitchesFollow'
<1>1. /\ response = None /\ response' = store
      /\ missed' = {s \in missed : LastTold(inbox, s, store[s]) # store[s]}
      /\ missed \subseteq Switches
      /\ UNCHANGED <<store, telling, inbox, pins>>
    BY DEF GetStates, server, session, TypeOK
<1>2. ASSUME NEW s \in Switches \ missed', store[s] # None
      PROVE  ToldSoon(s)' \/ WillShow(s)' = store'[s]
  <2>1. response' # None
    BY <1>1, NoneAssumption DEF TypeOK
  <2>2. WillShow(s)' = LastTold(inbox, s, store[s])
    BY <1>1, <1>2, <2>1 DEF WillShow, LastTold, Told
  <2>3. CASE s \in missed
    BY <1>1, <1>2, <2>2, <2>3
  <2>4. CASE s \notin missed /\ ToldSoon(s)
    BY <1>1, <2>4 DEF ToldSoon
  <2>5. CASE s \notin missed /\ ~ToldSoon(s)
    <3>1. LastTold(inbox, s, pins[s]) = store[s]
      BY <1>1, <1>2, <2>5 DEF SwitchesFollow, WillShow
    <3>2. LastTold(inbox, s, store[s]) \in {store[s], LastTold(inbox, s, pins[s])}
      BY DEF LastTold
    <3> QED BY <1>1, <2>2, <3>1, <3>2
  <2> QED BY <2>3, <2>4, <2>5
<1>3. \A s \in Switches \ missed' :
            store'[s] = None \/ ToldSoon(s)' \/ WillShow(s)' = store'[s]
    BY <1>1, <1>2
<1> QED BY <1>3, FollowFrame

\* Showing an answer changes nothing of what a switch will show; one that is
\* thrown away is missed.
LEMMA FollowAnswer ==
    ASSUME TypeOK, SwitchesFollow, Synced \/ SyncFailed
    PROVE  SwitchesFollow'
<1>1. /\ response' = None
      /\ UNCHANGED <<store, telling, inbox>>
    BY DEF Synced, SyncFailed, server, session
<1>2. \A s \in Switches : ToldSoon(s)' = ToldSoon(s)
    BY <1>1 DEF ToldSoon
<1>3. \A s \in Switches : WillShow(s)' = LastTold(inbox, s, pins'[s])
    BY <1>1 DEF WillShow, LastTold, Told
<1>4. CASE Synced
  <2>1. \A s \in Switches : WillShow(s) = LastTold(inbox, s, pins'[s])
    BY <1>4 DEF Synced, Shown, WillShow
  <2>2. missed' = missed
    BY <1>4 DEF Synced
  <2> QED BY <1>1, <1>2, <1>3, <2>1, <2>2, FollowFrame
<1>5. CASE SyncFailed /\ response = None
  <2>1. \A s \in Switches : WillShow(s) = LastTold(inbox, s, pins'[s])
    BY <1>5 DEF SyncFailed, WillShow
  <2>2. missed' = missed
    BY <1>5 DEF SyncFailed
  <2> QED BY <1>1, <1>2, <1>3, <2>1, <2>2, FollowFrame
<1>6. CASE SyncFailed /\ response # None
    BY <1>6 DEF SyncFailed, SwitchesFollow
<1> QED BY <1>4, <1>5, <1>6

\* Every step of the device and of its environment keeps the switches right.
LEMMA FollowNext ==
    ASSUME TypeOK, SwitchesFollow, [Next]_vars
    PROVE  SwitchesFollow'
<1>1. CASE Change
  <2>1. PICK w \in Writers, n \in Names, v \in Levels : Feed!StoreToTell(w, n, v)
    BY <1>1 DEF Change
  <2>2. UNCHANGED <<inbox, response, pins, missed>>
    BY <1>1 DEF Change, session
  <2> QED BY <2>1, <2>2, FollowStore
<1>2. CASE ChangeUntold
  <2>1. PICK w \in Writers, n \in Names, v \in Levels :
            /\ Feed!StoreInSilence(w, n, v)
            /\ missed' = missed \cup ({n} \cap Switches)
    BY <1>2 DEF ChangeUntold
  <2>2. UNCHANGED <<inbox, response, pins>>
    BY <1>2 DEF ChangeUntold, session
  <2> QED BY <2>1, <2>2, FollowStore
<1>3. CASE \E w \in Writers : Tell(w)
    BY <1>3, FollowTell
<1>4. CASE LoseMessages \/ LoseSession
    BY <1>4, FollowLoss
<1>5. CASE Receive
    BY <1>5, FollowReceive
<1>6. CASE GetStates
    BY <1>6, FollowGetStates
<1>7. CASE Synced \/ SyncFailed
    BY <1>7, FollowAnswer
<1>8. CASE Reset
    BY <1>8 DEF Reset, SwitchesFollow
<1>9. CASE UNCHANGED <<store, telling, inbox, pins, response, missed>>
  <2>1. \A s \in Switches : WillShow(s)' = WillShow(s)
    BY <1>9, ShowFrame
  <2>2. \A s \in Switches : ToldSoon(s)' = ToldSoon(s)
    BY <1>9 DEF ToldSoon
  <2> QED BY <1>9, <2>1, <2>2, FollowFrame
<1>10. CASE \/ FindDisconnected \/ Connect \/ StartSync \/ LoopTick
            \/ SyncRefused \/ Stall \/ UNCHANGED vars
    BY <1>9, <1>10 DEF FindDisconnected, Connect, StartSync, LoopTick, SyncRefused,
       Stall, vars, server, session, TypeOK
<1> QED BY <1>1, <1>2, <1>3, <1>4, <1>5, <1>6, <1>7, <1>8, <1>10 DEF Next, Device

\* The switches follow what is stored, or will when the messages sent and about
\* to be sent are read, but for what was missed since the last answer: for any
\* number of switches, writers and messages on their way.
THEOREM SwitchesAlwaysFollow == Spec => []SwitchesFollow
<1>1. Init => SwitchesFollow
    BY DEF Init, SwitchesFollow
<1> QED BY <1>1, FollowNext, DeviceTypeCorrect, PTL DEF Spec

\* Nothing is on its way to the device: no answer, no message, and none that a
\* request of the backend has still to send.
AtRest ==
    /\ response = None
    /\ inbox = << >>
    /\ \A w \in Writers : telling[w] = None

\* Once nothing is on its way, every switch shows what is stored for it, but
\* for those whose changes were missed since the last answer of the backend.
THEOREM SwitchesAtRestAreRight ==
    Spec => [](AtRest => \A s \in Switches \ missed :
                            store[s] # None => pins[s] = store[s])
<1>1. ASSUME TypeOK, SwitchesFollow, AtRest,
             NEW s \in Switches \ missed, store[s] # None
      PROVE  pins[s] = store[s]
  <2>1. ~ToldSoon(s)
    <3>1. <<s, store[s]>> \in Messages
      BY <1>1 DEF TypeOK, States, Names, Messages
    <3> QED BY <1>1, <3>1, NoneAssumption DEF ToldSoon, AtRest
  <2>2. WillShow(s) = pins[s]
    <3>1. Told(inbox, s) = {}
      BY <1>1 DEF AtRest, Told
    <3> QED BY <1>1, <3>1 DEF WillShow, LastTold, AtRest
  <2> QED BY <1>1, <2>1, <2>2 DEF SwitchesFollow
<1>2. TypeOK /\ SwitchesFollow
      => (AtRest => \A s \in Switches \ missed :
                        store[s] # None => pins[s] = store[s])
    BY <1>1
<1> QED BY <1>2, DeviceTypeCorrect, SwitchesAlwaysFollow, PTL
-----------------------------------------------------------------------------
\* The backend that the device is modelled with takes the steps of the feed and
\* no others, and HmsttService implements the same feed: what is proved of the
\* device rests on nothing that the service does not do.
THEOREM DeviceBackendIsFeed == Spec => Feed!Spec
<1>1. Init => Feed!Init
    BY DEF Init
<1>2. ASSUME [Next]_vars PROVE [Feed!Next]_Feed!vars
  <2>1. CASE Change
    BY <2>1 DEF Change, Feed!Next
  <2>2. CASE ChangeUntold
    BY <2>2 DEF ChangeUntold, Feed!Next
  <2>3. CASE \E w \in Writers : Tell(w)
    BY <2>3 DEF Tell, Feed!Next
  <2>4. CASE LoseMessages
    BY <2>4 DEF LoseMessages, Feed!Next
  <2>5. CASE UNCHANGED server
    BY <2>5 DEF server, Feed!vars
  <2>6. ~(Change \/ ChangeUntold \/ LoseMessages \/ \E w \in Writers : Tell(w))
        => UNCHANGED server
    BY <1>2 DEF Next, Device, LoseSession, FindDisconnected, Connect, Receive,
       GetStates, Synced, StartSync, LoopTick, SyncRefused, SyncFailed, Stall,
       Reset, vars
  <2> QED BY <2>1, <2>2, <2>3, <2>4, <2>5, <2>6
<1> QED BY <1>1, <1>2, PTL DEF Spec, Feed!Spec
=============================================================================
