--------------------------- MODULE ElectricDevice ---------------------------
(***************************************************************************)
(* The microcontroller of mqttelectric.ino, which drives a set of switches *)
(* from two sources: the messages the backend publishes when a state       *)
(* changes, which a broker passes on to the device's session, and the      *)
(* backend's batch endpoint, which the device reads when it starts, when   *)
(* it is connected again and whenever a timer says so.  The backend is     *)
(* StateFeed, which HmsttService implements.                               *)
(*                                                                         *)
(* The program is one thread: while it waits for the broker or for an      *)
(* answer it does nothing else.  One pass of loop() looks at the session,  *)
(* at one message and at the timer; here these come in any order.          *)
(***************************************************************************)
EXTENDS Integers, Sequences, SequencesExt

CONSTANTS
    Switches,           \* the names the device is wired to
    OtherNames,         \* switches of other devices, on the same topic
    DefaultInterval,    \* ticks between two syncs that went well
    BackoffInterval,    \* and after one that was refused
    MaxBackoffInterval,
    Writers,            \* requests of the backend that change states
    Wrap,               \* millis() counts modulo this
    None,               \* no answer is there; no state of that name exists
    MaxChanges,         \* bound: how often stored states change
    MaxFaults           \* bound: how often something fails or takes long

Names == Switches \cup OtherNames
Levels == {"on", "off"}

States == [Names -> Levels \cup {None}]

Messages == Names \X Levels

\* The interval fits the timer, which does not lap while the device waits.
ASSUME DeviceAssumption ==
    /\ BackoffInterval \in Nat \ {0}
    /\ MaxBackoffInterval \in Nat /\ BackoffInterval <= MaxBackoffInterval
    /\ DefaultInterval \in Nat /\ MaxBackoffInterval <= DefaultInterval
    /\ MaxChanges \in Nat /\ MaxFaults \in Nat
    /\ Wrap \in Nat /\ DefaultInterval + MaxFaults < Wrap

ASSUME NoneAssumption == None \notin Levels \cup Messages \cup States

VARIABLES
    store,              \* the backend's states
    telling,            \* messages its requests are about to publish
    announced,          \* the last value it published, per state
    connected, inbox,   \* the broker's session, and the messages on their way
    pc, pins, response, \* the device: what it does, its outputs, an answer
    clock,              \* millis(), in ticks of BackoffInterval's unit
    lastRequestTime, requestInterval, lastStatusGetPersistentData,
    changes, faults,    \* counters of the bounds
    missed, waited      \* history, read by the properties alone

Feed == INSTANCE StateFeed

server  == <<store, telling, announced, changes>>
session == <<connected, inbox>>
timer   == <<clock, lastRequestTime, waited>>
backoff == <<requestInterval, lastStatusGetPersistentData>>
vars == <<server, session, pc, pins, response, timer, backoff, faults, missed>>

Phases == {"setup_sync", "setup_connect", "loop", "connect", "sync"}

\* The default, or an interval of the backoff, which stays under its ceiling
Intervals == BackoffInterval..MaxBackoffInterval \cup {DefaultInterval}

TypeOK ==
    /\ store \in States
    /\ telling \in [Writers -> Messages \cup {None}]
    /\ announced \in States
    /\ connected \in BOOLEAN
    /\ inbox \in Seq(Messages)
    /\ pc \in Phases
    /\ pins \in [Switches -> Levels]
    /\ response \in States \cup {None}
    /\ response # None => pc \in {"setup_sync", "sync"}
    /\ clock \in 0..(Wrap - 1)
    /\ lastRequestTime \in 0..(Wrap - 1)
    /\ requestInterval \in Intervals
    /\ lastStatusGetPersistentData \in BOOLEAN
    /\ changes \in 0..MaxChanges
    /\ faults \in 0..MaxFaults
    /\ missed \subseteq Switches
    /\ waited \in Nat

\* The device is switched on: setup() has turned every switch off.
Init ==
    /\ Feed!Init
    /\ connected = FALSE
    /\ inbox = << >>
    /\ pc = "setup_sync"
    /\ pins = [s \in Switches |-> "off"]
    /\ response = None
    /\ clock = 0
    /\ lastRequestTime = 0
    /\ requestInterval = DefaultInterval
    /\ lastStatusGetPersistentData = FALSE
    /\ changes = 0
    /\ faults = 0
    /\ missed = Switches
    /\ waited = 0
-----------------------------------------------------------------------------
(* The backend and the broker *)

Fault == faults < MaxFaults /\ faults' = faults + 1

\* The messages on their way that tell of name
Told(messages, name) == {i \in DOMAIN messages : messages[i][1] = name}

\* The last value a message on its way carries for name, or else value
LastTold(messages, name, value) ==
    LET told == Told(messages, name)
    IN  IF told = {} THEN value ELSE messages[Max(told)][2]

\* A request stores a value, and will tell of it.
Change ==
    /\ changes < MaxChanges
    /\ changes' = changes + 1
    /\ \E w \in Writers, n \in Names, v \in Levels : Feed!StoreToTell(w, n, v)
    /\ UNCHANGED <<session, pc, pins, response, timer, backoff, faults, missed>>

\* It stores one and tells nobody: the reply of Redis is lost, or what it had
\* read before was stale.
ChangeUntold ==
    /\ Fault
    /\ changes < MaxChanges
    /\ changes' = changes + 1
    /\ \E w \in Writers, n \in Names, v \in Levels :
        /\ Feed!StoreInSilence(w, n, v)
        /\ missed' = missed \cup ({n} \cap Switches)
    /\ UNCHANGED <<session, pc, pins, response, timer, backoff>>

\* Some request is about to tell what is stored for n.
ToldSoon(n) == \E w \in Writers : telling[w] = <<n, store[n]>>

\* The message of w reaches the session, if there is one.  It is missed if
\* there is none; and if it comes after that of a value stored later, it is
\* that one which is as good as missed.
Tell(w) ==
    /\ Feed!Tell(w)
    /\ inbox' = IF connected THEN Append(inbox, telling[w]) ELSE inbox
    /\ missed' = LET n == telling[w][1] IN
                 IF connected /\ (telling[w] = <<n, store[n]>> \/ ToldSoon(n))
                 THEN missed ELSE missed \cup ({n} \cap Switches)
    /\ UNCHANGED <<changes, connected, pc, pins, response, timer, backoff, faults>>

\* Messages are lost between backend and session, or with their requests.
LoseMessages ==
    /\ Fault
    /\ \E W \in SUBSET Writers :
        /\ Feed!Drop(W)
        /\ missed' = missed \cup
                {s \in Switches : \E w \in W : telling[w] # None /\ telling[w][1] = s}
    /\ UNCHANGED <<changes, session, pc, pins, response, timer, backoff>>

\* The session breaks, and with it go the messages on their way (QoS 0).
LoseSession ==
    /\ Fault
    /\ connected
    /\ connected' = FALSE
    /\ inbox' = << >>
    /\ missed' = missed \cup {s \in Switches : \E m \in ToSet(inbox) : m[1] = s}
    /\ UNCHANGED <<server, pc, pins, response, timer, backoff>>
-----------------------------------------------------------------------------
(* The device *)

\* Mutant: a device that was already on stays on.
OnlyTurnsOn(name, state) ==
    [s \in Switches |-> IF s = name /\ state = "on" THEN "on" ELSE pins[s]]

\* setStateData: a name the device is not wired to is ignored.
setStateData(name, state) ==
    [s \in Switches |-> IF s = name THEN state ELSE pins[s]]

\* loop() finds the session gone.
FindDisconnected ==
    /\ pc = "loop"
    /\ ~connected
    /\ pc' = "connect"
    /\ UNCHANGED <<server, session, pins, response, timer, backoff, faults, missed>>

\* connectToMQTTBroker succeeds and subscribes.  After setup() that is all;
\* in loop() a sync follows.
Connect ==
    /\ pc \in {"setup_connect", "connect"}
    /\ connected' = TRUE
    /\ pc' = IF pc = "setup_connect" THEN "loop" ELSE "sync"
    /\ UNCHANGED <<server, inbox, pins, response, timer, backoff, faults, missed>>

\* mqttCallback
Receive ==
    /\ pc = "loop"
    /\ connected
    /\ inbox # << >>
    /\ pins' = setStateData(Head(inbox)[1], Head(inbox)[2])
    /\ inbox' = Tail(inbox)
    /\ UNCHANGED <<server, connected, pc, response, timer, backoff, faults, missed>>

\* The backend answers the batch request with what is stored now.  A switch
\* stays behind if an older message for it is still on its way.
GetStates ==
    /\ pc \in {"setup_sync", "sync"}
    /\ response = None
    /\ response' = store
    /\ missed' = {s \in missed : LastTold(inbox, s, store[s]) # store[s]}
    /\ UNCHANGED <<server, session, pc, pins, timer, backoff, faults>>

AfterSync == IF pc = "setup_sync" THEN "setup_connect" ELSE "loop"

\* Mutant: what is off in the answer stays as it is.
TurnedOn(answer) ==
    [s \in Switches |-> IF answer[s] = "on" THEN "on" ELSE pins[s]]

\* The pins once an answer is read: a state the backend does not have is not
\* in it, and its switch stays as it is.
Shown(answer) ==
    [s \in Switches |-> IF answer[s] = None THEN pins[s] ELSE answer[s]]

Synced ==
    /\ response # None
    /\ pins' = Shown(response)
    /\ lastStatusGetPersistentData' = TRUE
    /\ requestInterval' = DefaultInterval
    /\ response' = None
    /\ pc' = AfterSync
    /\ UNCHANGED <<server, session, timer, faults, missed>>

\* Mutant: the backoff has no ceiling.
NoCeiling(a, b) == a

minUL(a, b) == IF a < b THEN a ELSE b

\* The backend cannot be reached (a negative HTTPClient code): the next try
\* comes sooner, and less soon with every one that fails.
SyncRefused ==
    /\ Fault
    /\ pc \in {"setup_sync", "sync"}
    /\ response = None
    /\ requestInterval' =
            IF lastStatusGetPersistentData THEN BackoffInterval
            ELSE minUL(requestInterval + BackoffInterval, MaxBackoffInterval)
    /\ lastStatusGetPersistentData' = FALSE
    /\ pc' = AfterSync
    /\ UNCHANGED <<server, session, pins, response, timer, missed>>

\* It answers with an error, or with what cannot be read: the interval stays.
SyncFailed ==
    /\ Fault
    /\ pc \in {"setup_sync", "sync"}
    /\ lastStatusGetPersistentData' = FALSE
    /\ response' = None
    /\ pc' = AfterSync
    /\ missed' = IF response = None THEN missed ELSE Switches
    /\ UNCHANGED <<server, session, pins, timer, requestInterval>>

Elapse ==
    /\ clock' = (clock + 1) % Wrap
    /\ waited' = waited + 1
    /\ UNCHANGED lastRequestTime

\* Mutant: the sum, which does not overflow as the difference does.
DueBySum == clock >= lastRequestTime + requestInterval

\* currentTime - lastRequestTime >= requestInterval, all unsigned long
Due == (clock - lastRequestTime) % Wrap >= requestInterval

StartSync ==
    /\ pc = "loop"
    /\ Due
    /\ pc' = "sync"
    /\ lastRequestTime' = clock
    /\ waited' = 0
    /\ UNCHANGED <<server, session, pins, response, clock, backoff, faults, missed>>

\* A pass of loop() takes no time worth a tick: none passes while a sync is due.
LoopTick ==
    /\ pc = "loop"
    /\ ~Due
    /\ Elapse
    /\ UNCHANGED <<server, session, pc, pins, response, backoff, faults, missed>>

\* The broker refuses the device, which waits five seconds, or an answer takes
\* that long.
Stall ==
    /\ Fault
    /\ pc # "loop"
    /\ Elapse
    /\ UNCHANGED <<server, session, pc, pins, response, backoff, missed>>

\* The device is reset and runs setup() again.
Reset ==
    /\ Fault
    /\ connected' = FALSE
    /\ inbox' = << >>
    /\ pc' = "setup_sync"
    /\ pins' = [s \in Switches |-> "off"]
    /\ response' = None
    /\ clock' = 0
    /\ lastRequestTime' = 0
    /\ requestInterval' = DefaultInterval
    /\ lastStatusGetPersistentData' = FALSE
    /\ missed' = Switches
    /\ waited' = 0
    /\ UNCHANGED server

Device ==
    \/ FindDisconnected \/ Connect \/ Receive
    \/ GetStates \/ Synced
    \/ StartSync \/ LoopTick

Next ==
    \/ Change \/ ChangeUntold \/ LoseMessages \/ LoseSession
    \/ \E w \in Writers : Tell(w)
    \/ Device \/ SyncRefused \/ SyncFailed \/ Stall \/ Reset

Spec == Init /\ [][Next]_vars

\* loop() goes round: it looks at the session, a message and the timer in every
\* pass, and time passes; a call that does not fail returns.
FairSpec ==
    /\ Spec
    /\ WF_vars(FindDisconnected) /\ WF_vars(Connect) /\ WF_vars(Receive)
    /\ WF_vars(GetStates) /\ WF_vars(Synced)
    /\ WF_vars(StartSync) /\ WF_vars(LoopTick)
-----------------------------------------------------------------------------
\* What a switch will show once the device has read what is on its way to it:
\* first the answer it is reading, then the messages in their order
WillShow(s) ==
    LastTold(inbox, s, IF response = None \/ response[s] = None THEN pins[s]
                       ELSE response[s])

\* A switch shows what is stored, or will once the device has caught up with
\* the messages sent and about to be sent, except where a change was missed
\* since the last answer of the backend: no message older than an answer
\* outlives it unless a newer one was lost or overtaken.
SwitchesFollow ==
    \A s \in Switches \ missed :
        store[s] # None => WillShow(s) = store[s] \/ ToldSoon(s)

\* While the device is in its loop a sync that is due is not put off, not even
\* when millis() wraps around between two syncs.
PollsInTime ==
    [][(pc = "loop" /\ pc' = "loop" /\ waited' > waited)
            => waited < requestInterval]_vars

\* Whatever was missed, lost or refused: when the states no longer change and
\* nothing fails any more, the switches show what is stored, for good.
SwitchesConverge ==
    <>[](\A s \in Switches : store[s] # None => pins[s] = store[s])
=============================================================================
