---------------------------- MODULE HealthChecks ----------------------------
(***************************************************************************)
(* The readiness and health probes (internal/health) in a process that     *)
(* lives as Lifecycle says.  A check asks each dependency in turn, in the  *)
(* random order of a Go map, while Redis comes and goes, the connection to *)
(* the broker is lost and main may be closing both.                        *)
(*                                                                         *)
(* One connection asks for nothing else; checks do not meet each other.    *)
(***************************************************************************)
EXTENDS Lifecycle

CONSTANT Prober     \* the connection probes come on

ASSUME ProberAssumption == Prober \in HttpConns

VARIABLES
    redisUp,        \* Redis answers a PING in time
    lost,           \* the connection to the broker is gone
    unchecked,      \* dependencies the check has still to ask
    status,         \* what it has found so far
    wasUp, wasDown, lostBefore  \* history of the check, read by the properties

world   == <<redisUp, lost>>
probe   == <<unchecked, status>>
memory  == <<wasUp, wasDown, lostBefore>>
allVars == <<vars, world, probe, memory>>

Checked == {"redis", "rabbitmq"}

\* Mutant: a connection main has not closed counts as open.
NotClosedHere(d) == IF d = "redis" THEN redisUp /\ d \in opened ELSE d \in opened

\* checkRedis pings, and checkRabbitMQ looks whether the connection is closed,
\* by whomever.  Neither looks at the channel.
Reachable(d) ==
    /\ d \in opened
    /\ IF d = "redis" THEN redisUp ELSE ~lost

HealthTypeOK ==
    /\ TypeOK
    /\ redisUp \in BOOLEAN
    /\ lost \in BOOLEAN
    /\ unchecked \subseteq Checked
    /\ status \in {"healthy", "unhealthy"}
    /\ wasUp \subseteq Checked /\ wasDown \subseteq Checked
    /\ lostBefore \in BOOLEAN

HealthInit ==
    /\ Init
    /\ redisUp = TRUE
    /\ lost = FALSE
    /\ unchecked = {}
    /\ status = "unhealthy"
    /\ wasUp = {} /\ wasDown = {}
    /\ lostBefore = FALSE
-----------------------------------------------------------------------------
Probing == conns[Prober] = "busy"
Begins  == ~Probing /\ conns'[Prober] = "busy"

\* History: what was up, and what was down, at some moment since the request
Remember ==
    LET up == {d \in Checked : Reachable(d)'} IN
    /\ wasUp' = IF Begins THEN up ELSE wasUp \cup up
    /\ wasDown' = IF Begins THEN Checked \ up ELSE wasDown \cup (Checked \ up)
    /\ lostBefore' = IF Begins THEN lost ELSE lostBefore

\* A step of the process.  A request on the prober's connection begins a check,
\* and is answered when the check is complete, or left by the prober.
Process(A) ==
    /\ A
    /\ unchecked' = IF Begins THEN Checked ELSE unchecked
    /\ status' = IF Begins THEN "healthy" ELSE status
    /\ UNCHANGED world

\* Mutant: the last dependency decides.
LastDecides(d) == IF Reachable(d) THEN "healthy" ELSE "unhealthy"

StatusWith(d) == IF Reachable(d) THEN status ELSE "unhealthy"

Check(d) ==
    /\ Alive
    /\ Probing
    /\ d \in unchecked
    /\ unchecked' = unchecked \ {d}
    /\ status' = StatusWith(d)
    /\ UNCHANGED <<vars, world>>

\* Redis comes and goes.  The connection goes: nobody dials again.
RedisChanges ==
    /\ Alive
    /\ redisUp' = ~redisUp
    /\ UNCHANGED <<vars, lost, probe>>

LoseConnection ==
    /\ Alive
    /\ "rabbitmq" \in opened
    /\ lost' = TRUE
    /\ UNCHANGED <<vars, redisUp, probe>>

HealthNext ==
    /\ \/ Process(Next)
       \/ \E d \in Checked : Check(d)
       \/ RedisChanges
       \/ LoseConnection
    /\ Remember

HealthSpec == HealthInit /\ [][HealthNext]_allVars

\* The fairness of FairSpec.  Nothing is assumed of the probes.
HealthFairSpec ==
    /\ HealthSpec
    /\ WF_allVars(Process(Main) /\ Remember)
    /\ WF_allVars(Process(Expire) /\ Remember)
    /\ WF_allVars(Process(McpStartFails) /\ Remember)
    /\ WF_allVars(Process(HttpStartFails) /\ Remember)
    /\ \A s \in Servers : WF_allVars(Process(StartCancelled(s)) /\ Remember)
-----------------------------------------------------------------------------
Complete == Probing /\ unchecked = {}

\* What a check tells was so while it ran: if healthy, each dependency could be
\* reached at some moment of it (though perhaps never all at once), and if not,
\* one of them could not.
VerdictsWereTrue ==
    Complete => IF status = "healthy" THEN wasUp = Checked ELSE wasDown # {}

\* A process that has lost the broker is not ready again before it is started
\* anew, whatever Redis does: no check that begins after the loss is healthy.
NeverReadyAgain == Complete /\ lostBefore => status = "unhealthy"
=============================================================================
