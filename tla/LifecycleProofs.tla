--------------------------- MODULE LifecycleProofs ---------------------------
(***************************************************************************)
(* What holds of Lifecycle for any number of connections: the types, that  *)
(* requests keep what they need, and that a process that ends in time ends *)
(* clean.  The argument follows main from step to step: what is open once  *)
(* it serves, and what each step of the shutdown has closed for good.      *)
(***************************************************************************)
EXTENDS Lifecycle, TLAPS

\* What is open before main takes a step, and while the servers run
OpenByNow ==
    /\ main \in {"rabbitmq", "channel", "serving", "close_http", "close_mcp"}
            => "redis" \in opened
    /\ main \in {"channel", "serving", "close_http", "close_mcp"}
            => "rabbitmq" \in opened
    /\ main \in {"serving", "close_http", "close_mcp"} => "channel" \in opened

\* A server that was shut down in time has no connection and accepts none.
IsShut(s) ==
    /\ listener[s] = "shut"
    /\ \A c \in ConnsOf(s) : conns[c] = "none"

Past(step) ==
    CASE step = "close_http" -> (Closing \ {"close_http"}) \cup {"exited"}
      [] step = "close_mcp" -> {"close_rabbitmq", "close_redis", "close_otel",
                                "close_logger", "exited"}
      [] step = "close_rabbitmq" -> {"close_redis", "close_otel", "close_logger",
                                     "exited"}
      [] step = "close_redis" -> {"close_otel", "close_logger", "exited"}
      [] step = "close_otel" -> {"close_logger", "exited"}
      [] step = "close_logger" -> {"exited"}

ClosesAt(r) ==
    CASE r = "rabbitmq" -> "close_rabbitmq"
      [] r = "channel" -> "close_rabbitmq"
      [] r = "redis" -> "close_redis"
      [] r = "otel" -> "close_otel"
      [] r = "logger" -> "close_logger"

\* What is closed once main is past the step that closes it
ClosedByNow ==
    ~expired =>
        /\ \A s \in Servers : main \in Past(ClosingStep(s)) => IsShut(s)
        /\ main \in Past("close_rabbitmq") => "rabbitmq" \notin opened
        /\ main \in Past("close_redis") => "redis" \notin opened
        /\ main \in Past("close_otel") => "otel" \notin opened
        /\ main \in Past("close_logger") => "logger" \notin opened

\* The channel goes with its connection.
ChannelWithConnection ==
    main \in Closing \cup {"exited"} /\ "channel" \in opened => "rabbitmq" \in opened

LifeInv ==
    /\ TypeOK
    /\ OpenByNow
    /\ ClosedByNow
    /\ ChannelWithConnection
    /\ RequestsKeepDependencies

\* Connections belong to one server each.
LEMMA ServersConns ==
    /\ \A s \in Servers : ConnsOf(s) \subseteq Conns
    /\ \A s, t \in Servers : s # t => ConnsOf(s) \cap ConnsOf(t) = {}
    /\ Conns = UNION {ConnsOf(s) : s \in Servers}
    BY ConnsAssumption DEF Servers, ConnsOf, Conns

\* It all holds when the process starts.
LEMMA LifeInit == Init => LifeInv
    BY DEF Init, LifeInv, TypeOK, OpenByNow, ClosedByNow, ChannelWithConnection,
       RequestsKeepDependencies, Startup, Resources, Past, Closing, ClosingStep,
       Servers

\* The order of the steps
LEMMA Order ==
    /\ \A m \in Startup : After[m] \in Startup \cup {"serving"}
    /\ After["redis"] = "rabbitmq" /\ After["rabbitmq"] = "channel"
    /\ After["channel"] = "serving" /\ After["serving"] = "close_http"
    /\ \A m \in Startup \ {"redis", "rabbitmq", "channel"} :
            After[m] \notin {"rabbitmq", "channel", "serving"}
    /\ After["close_http"] = "close_mcp" /\ After["close_mcp"] = "close_rabbitmq"
    /\ After["close_rabbitmq"] = "close_redis" /\ After["close_redis"] = "close_otel"
    /\ After["close_otel"] = "close_logger" /\ After["close_logger"] = "exited"
    BY DEF After, Startup, Resources

\* A step that leaves main, what is open and the deadline alone, and lets no
\* server come back: a request needs a server that is not shut.
LEMMA LifeFrame ==
    ASSUME LifeInv, TypeOK', UNCHANGED <<main, opened>>,
           expired => expired',
           \A s \in Servers : IsShut(s) => IsShut(s)',
           \A c \in Conns : conns'[c] = "busy" =>
                \/ conns[c] = "busy"
                \/ Alive /\ \E s \in Servers : ~IsShut(s)
    PROVE  LifeInv'
<1> USE DEF LifeInv
<1>1. OpenByNow' /\ ChannelWithConnection'
    BY DEF OpenByNow, ChannelWithConnection
<1>2. ClosedByNow'
  <2>1. Past(ClosingStep("http"))' = Past(ClosingStep("http"))
    BY DEF Past, ClosingStep
  <2> QED BY <2>1 DEF ClosedByNow, Past, ClosingStep
<1>3. RequestsKeepDependencies'
  <2> SUFFICES ASSUME NEW c \in Conns, conns'[c] = "busy", ~expired'
               PROVE  Dependencies \subseteq opened
    BY DEF RequestsKeepDependencies
  <2>1. CASE conns[c] = "busy"
    BY <2>1 DEF RequestsKeepDependencies
  <2>2. ASSUME NEW s \in Servers, Alive, ~IsShut(s)
        PROVE  Dependencies \subseteq opened
    <3>1. main \notin Startup
      BY DEF TypeOK
    <3>2. main \notin Past(ClosingStep(s))
      BY <2>2 DEF ClosedByNow
    <3>3. main \in {"serving", "close_http", "close_mcp"}
      BY <2>2, <3>1, <3>2 DEF TypeOK, Alive, Ends, Past, ClosingStep, Closing, Servers
    <3> QED BY <3>3 DEF OpenByNow, Dependencies
  <2> QED BY <2>1, <2>2
<1> QED BY <1>1, <1>2, <1>3

\* Main takes a step: what the step opened is open and what it closed, closed.
LEMMA LifeOpen == LifeInv /\ Open => LifeInv'
<1> SUFFICES ASSUME LifeInv, Open PROVE LifeInv'
    OBVIOUS
<1> USE DEF LifeInv
<1>1. /\ main \in Startup /\ main' = After[main]
      /\ opened' = opened \cup ({main} \cap Resources)
      /\ UNCHANGED <<cancelled, listener, returned, conns, expired>>
    BY DEF Open
<1>2. main' \in Startup \cup {"serving"}
    BY <1>1, Order
<1>3. TypeOK'
    BY <1>1, <1>2 DEF TypeOK
<1>4. OpenByNow'
  <2>1. CASE main \in {"redis", "rabbitmq", "channel"}
    BY <1>1, <1>2, <2>1, Order DEF OpenByNow, Resources, Startup
  <2>2. CASE main \notin {"redis", "rabbitmq", "channel"}
    BY <1>1, <1>2, <2>2, Order DEF OpenByNow, Resources, Startup
  <2> QED BY <2>1, <2>2
<1>5. ClosedByNow'
    BY <1>2 DEF ClosedByNow, Past, ClosingStep, Servers, Closing, Startup, Resources
<1>6. ChannelWithConnection'
    BY <1>2 DEF ChannelWithConnection, Closing, Startup, Resources
<1>7. RequestsKeepDependencies'
    BY <1>1 DEF RequestsKeepDependencies, TypeOK
<1> QED BY <1>3, <1>4, <1>5, <1>6, <1>7

\* The process ends on the spot, with whatever is open.
LEMMA LifeFatal ==
    ASSUME LifeInv, main' = "fatal",
           UNCHANGED <<cancelled, opened, listener, returned, conns, expired>>
    PROVE  LifeInv'
<1> USE DEF LifeInv
<1>1. TypeOK'
    BY DEF TypeOK, Ends, Startup, Resources
<1>2. OpenByNow' /\ ChannelWithConnection' /\ RequestsKeepDependencies'
    BY DEF OpenByNow, ChannelWithConnection, Closing, RequestsKeepDependencies
<1>3. ClosedByNow'
    BY DEF ClosedByNow, Past, ClosingStep, Servers, Closing
<1> QED BY <1>1, <1>2, <1>3

\* What goes on while main stays where it is: the servers, their clients, the
\* signal and the clock.
LEMMA LifeBeside ==
    ASSUME LifeInv,
           \/ Signal \/ McpStartFails \/ Expire
           \/ \E s \in Servers : Listen(s) \/ ListenFails(s) \/ StartCancelled(s)
           \/ \E c \in Conns : Request(c) \/ Answered(c)
           \/ \E s \in Servers : CloseListener(s)
    PROVE  LifeInv'
<1> USE DEF LifeInv
<1>1. CASE Signal \/ McpStartFails \/ Expire
  <2>1. TypeOK'
    BY <1>1 DEF Signal, McpStartFails, Expire, TypeOK, Started, Closing, Startup,
       Resources, Servers
  <2> QED BY <1>1, <2>1, LifeFrame DEF Signal, McpStartFails, Expire, IsShut
<1>2. ASSUME NEW s \in Servers, Listen(s) \/ ListenFails(s) \/ StartCancelled(s)
      PROVE  LifeInv'
  <2>1. TypeOK'
    BY <1>2 DEF Listen, ListenFails, StartCancelled, TypeOK, Started, Closing,
       Startup, Resources
  <2>2. \A t \in Servers : IsShut(t) => IsShut(t)'
    BY <1>2 DEF Listen, ListenFails, StartCancelled, TypeOK, IsShut
  <2> QED BY <1>2, <2>1, <2>2, LifeFrame DEF Listen, ListenFails, StartCancelled
<1>3. ASSUME NEW c \in Conns, Request(c) PROVE LifeInv'
  <2>1. \E s \in Servers : c \in ConnsOf(s) /\ ~IsShut(s)
    <3>1. CASE conns[c] = "none"
      BY <1>3, <3>1 DEF Request, IsShut
    <3>2. CASE conns[c] = "idle"
      BY <3>2, ServersConns DEF IsShut
    <3> QED BY <1>3, <3>1, <3>2 DEF Request
  <2>2. main \notin Startup
    BY <1>3 DEF Request, TypeOK
  <2>3. TypeOK'
    BY <1>3, <2>2 DEF Request, TypeOK
  <2>4. \A t \in Servers : IsShut(t) => IsShut(t)'
    BY <1>3, <2>1, ServersConns DEF Request, TypeOK, IsShut
  <2> QED BY <1>3, <2>1, <2>3, <2>4, LifeFrame DEF Request, TypeOK
<1>4. ASSUME NEW c \in Conns, Answered(c) PROVE LifeInv'
  <2>1. main \notin Startup
    BY <1>4 DEF Answered, TypeOK
  <2>2. TypeOK'
    BY <1>4, <2>1 DEF Answered, TypeOK
  <2>3. \A t \in Servers : IsShut(t) => IsShut(t)'
    BY <1>4, ServersConns DEF Answered, TypeOK, IsShut
  <2> QED BY <1>4, <2>2, <2>3, LifeFrame DEF Answered, TypeOK
<1>5. ASSUME NEW s \in Servers, CloseListener(s) PROVE LifeInv'
  <2>1. main \notin Startup
    BY <1>5 DEF CloseListener, ClosingStep, Startup, Resources
  <2>2. TypeOK'
    BY <1>5, <2>1 DEF CloseListener, TypeOK
  <2>3. \A t \in Servers : IsShut(t) => IsShut(t)'
    BY <1>5 DEF CloseListener, TypeOK, IsShut
  <2> QED BY <1>5, <2>2, <2>3, LifeFrame DEF CloseListener
<1> QED BY <1>1, <1>2, <1>3, <1>4, <1>5

\* A step of the shutdown closes what it is there to close, unless the deadline
\* has passed, and closes nothing that a server has still need of.
LEMMA LifeClosing ==
    ASSUME LifeInv, main \in {"close_rabbitmq", "close_redis", "close_otel",
                              "close_logger"},
           UNCHANGED <<cancelled, listener, returned, conns, expired>>,
           main' = After[main] \/ main' = main,
           opened' \subseteq opened,
           "channel" \in opened' => "rabbitmq" \in opened',
           ~expired /\ main' # main => \A r \in opened' : main # ClosesAt(r)
    PROVE  LifeInv'
<1> USE DEF LifeInv
<1>1. main' \in {"close_rabbitmq", "close_redis", "close_otel", "close_logger",
                 "exited"}
    BY Order
<1>2. TypeOK'
    BY <1>1 DEF TypeOK, Closing, Ends, Startup, Resources
<1>3. OpenByNow'
    BY <1>1 DEF OpenByNow
<1>4. ASSUME NEW s \in Servers, ~expired PROVE IsShut(s)
    BY <1>4 DEF ClosedByNow, Past, ClosingStep, Closing, Servers
<1>5. ClosedByNow'
  <2>1. CASE main' = main
    BY <1>4, <2>1 DEF ClosedByNow, IsShut, Past
  <2>2. CASE main' = After[main] /\ main' # main
    BY <1>4, <2>2, Order DEF ClosedByNow, IsShut, Past, ClosesAt
  <2> QED BY <2>1, <2>2
<1>6. RequestsKeepDependencies'
    BY <1>4, ServersConns DEF RequestsKeepDependencies, IsShut
<1> QED BY <1>2, <1>3, <1>5, <1>6 DEF ChannelWithConnection

\* Both servers have returned, and the shutdown begins.
LEMMA LifeWait == LifeInv /\ Wait => LifeInv'
<1> SUFFICES ASSUME LifeInv, Wait PROVE LifeInv'
    OBVIOUS
<1> USE DEF LifeInv
<1>1. main = "serving" /\ main' = "close_http"
    BY Order DEF Wait
<1>2. UNCHANGED <<cancelled, opened, listener, returned, conns, expired>>
    BY DEF Wait
<1>3. TypeOK'
    BY <1>1, <1>2 DEF TypeOK, Closing, Startup, Resources
<1>4. OpenByNow' /\ ChannelWithConnection'
    BY <1>1, <1>2 DEF OpenByNow, ChannelWithConnection
<1>5. ClosedByNow'
    BY <1>1 DEF ClosedByNow, Past, ClosingStep, Servers
<1>6. RequestsKeepDependencies'
    BY <1>2 DEF RequestsKeepDependencies
<1> QED BY <1>3, <1>4, <1>5, <1>6

\* A server's Shutdown closes its idle connections, and when it returns in time
\* none is left.
LEMMA LifeCloseIdle ==
    ASSUME LifeInv, NEW s \in Servers, CloseIdle(s)
    PROVE  LifeInv'
<1> USE DEF LifeInv
<1>1. /\ main = ClosingStep(s) /\ main \in {"close_http", "close_mcp"}
      /\ main' \in {main, After[main]}
      /\ listener[s] = "shut"
      /\ UNCHANGED <<cancelled, opened, listener, returned, expired>>
    BY DEF CloseIdle, ClosingStep
<1>2. main' \in {"close_http", "close_mcp", "close_rabbitmq"}
    BY <1>1, Order
<1>3. conns' = [c \in Conns |->
            IF c \in ConnsOf(s) /\ conns[c] = "idle" THEN "none" ELSE conns[c]]
    BY DEF CloseIdle
<1>4. TypeOK'
  <2>1. conns' \in [Conns -> {"none", "busy", "idle"}]
    BY <1>3 DEF TypeOK
  <2> QED BY <1>1, <1>2, <2>1 DEF TypeOK, Closing, Startup, Resources
<1>5. OpenByNow' /\ ChannelWithConnection'
    BY <1>1, <1>2 DEF OpenByNow, ChannelWithConnection
<1>6. \A t \in Servers : IsShut(t) => IsShut(t)'
    BY <1>1, <1>3, ServersConns DEF IsShut
<1>7. ASSUME main' # main, ~expired PROVE IsShut(s)'
  <2>1. Busy(s) = {}
    BY <1>7 DEF CloseIdle, MayProceed
  <2>2. \A c \in ConnsOf(s) : conns[c] \in {"none", "idle"}
    BY <2>1, ServersConns DEF Busy, TypeOK
  <2> QED BY <1>1, <1>3, <2>2, ServersConns DEF IsShut
<1>8. ClosedByNow'
  <2>1. ASSUME NEW t \in Servers, ~expired, main' \in Past(ClosingStep(t))
        PROVE  IsShut(t)'
    <3>1. CASE main \in Past(ClosingStep(t))
      BY <1>6, <2>1, <3>1 DEF ClosedByNow
    <3>2. CASE main \notin Past(ClosingStep(t))
      <4>1. main' # main
        BY <2>1, <3>2
      <4>2. t = s
        BY <1>1, <2>1, <3>2, <4>1, Order DEF Past, ClosingStep, Closing, Servers
      <4> QED BY <1>7, <2>1, <4>1, <4>2
    <3> QED BY <3>1, <3>2
  <2>2. \A step \in {"close_rabbitmq", "close_redis", "close_otel", "close_logger"} :
            main' \notin Past(step)
    BY <1>2 DEF Past
  <2>3. \A t \in Servers : Past(ClosingStep(t))' = Past(ClosingStep(t))
    BY DEF Past, ClosingStep
  <2> QED BY <1>1, <2>1, <2>2, <2>3 DEF ClosedByNow, Past
<1>9. RequestsKeepDependencies'
    BY <1>1, <1>3 DEF RequestsKeepDependencies
<1> QED BY <1>4, <1>5, <1>8, <1>9

\* Every step of the process keeps it all.
LEMMA LifeNext == LifeInv /\ [Next]_vars => LifeInv'
<1> SUFFICES ASSUME LifeInv, [Next]_vars PROVE LifeInv'
    OBVIOUS
<1>1. CASE Open
    BY <1>1, LifeOpen
<1>2. CASE StartFails \/ HttpStartFails
    BY <1>2, LifeFatal DEF StartFails, Fails, InitializeConfigFails,
       ValidateAuthTokensFails, SentryFails, InitializeLoggerFails, SetupOTelSDKFails,
       NewRabbitMQConnFails, NewRabbitMQChannelFails, HttpStartFails
<1>3. CASE Wait
    BY <1>3, LifeWait
<1>4. ASSUME NEW s \in Servers, CloseListener(s) \/ CloseIdle(s) PROVE LifeInv'
    BY <1>4, LifeBeside, LifeCloseIdle
<1>5. ASSUME NEW step, NEW r, Proceed(step, r),
             \/ step = "close_rabbitmq" /\ r = "rabbitmq"
             \/ step = "close_logger" /\ r = "logger"
      PROVE  LifeInv'
  <2>1. \A o \in opened : ~expired => main # ClosesAt(o)
    BY <1>5 DEF Proceed, ClosesAt, LifeInv, ChannelWithConnection, TypeOK, Resources,
       Closing
  <2>2. "channel" \in opened => "rabbitmq" \in opened
    BY <1>5 DEF Proceed, LifeInv, ChannelWithConnection, Closing
  <2> QED BY <1>5, <2>1, <2>2, LifeClosing DEF Proceed
<1>6. CASE CloseRedis \/ CloseOtel
  <2>1. \A o \in opened' : ~expired => main # ClosesAt(o)
    BY <1>6 DEF CloseRedis, CloseOtel, ClosesAt, LifeInv, TypeOK, Resources
  <2>2. "channel" \in opened' => "rabbitmq" \in opened'
    BY <1>6 DEF CloseRedis, CloseOtel, LifeInv, ChannelWithConnection, Closing
  <2> QED BY <1>6, <2>1, <2>2, LifeClosing DEF CloseRedis, CloseOtel
<1>7. ASSUME NEW r \in DOMAIN ClosedWith, InBackground(r) PROVE LifeInv'
  <2>1. /\ r \in {"rabbitmq", "logger"} /\ main' = main
        /\ main \in {"close_rabbitmq", "close_redis", "close_otel", "close_logger"}
    BY <1>7 DEF ClosedWith, InBackground, Closing
  <2>2. "channel" \in opened' => "rabbitmq" \in opened'
    BY <1>7, <2>1 DEF ClosedWith, InBackground, LifeInv, ChannelWithConnection, Closing
  <2> QED BY <1>7, <2>1, <2>2, LifeClosing DEF InBackground
<1>8. CASE \/ Signal \/ McpStartFails \/ Expire
           \/ \E s \in Servers : Listen(s) \/ ListenFails(s) \/ StartCancelled(s)
           \/ \E c \in Conns : Request(c) \/ Answered(c)
    BY <1>8, LifeBeside
<1>9. CASE UNCHANGED vars
    BY <1>9, LifeFrame DEF vars, LifeInv, TypeOK, IsShut
<1> QED BY <1>1, <1>2, <1>3, <1>4, <1>5, <1>6, <1>7, <1>8, <1>9 DEF Next, Main

\* It holds in every reachable state.
LEMMA LifeAlways == Spec => []LifeInv
<1> QED BY LifeInit, LifeNext, PTL DEF Spec

\* The variables keep their types, and no server lives while the process starts.
THEOREM LifecycleTypeCorrect == Spec => []TypeOK
<1>1. LifeInv => TypeOK
    BY DEF LifeInv
<1> QED BY <1>1, LifeAlways, PTL

\* However many connections there are: Redis, the broker's connection and its
\* channel are closed only when no request is served, or after the deadline.
THEOREM RequestsAlwaysKeepDependencies == Spec => []RequestsKeepDependencies
<1>1. LifeInv => RequestsKeepDependencies
    BY DEF LifeInv
<1> QED BY <1>1, LifeAlways, PTL

\* A process that ends before the deadline has closed all it opened and cut no
\* request off.
THEOREM ExitsAreClean == Spec => []CleanExit
<1>1. LifeInv => CleanExit
  <2> SUFFICES ASSUME LifeInv, main = "exited", ~expired
               PROVE  /\ opened = {}
                      /\ \A s \in Servers : listener[s] = "shut"
                      /\ \A c \in Conns : conns[c] = "none"
    BY DEF CleanExit
  <2>1. \A s \in Servers : IsShut(s)
    BY DEF LifeInv, ClosedByNow, Past, ClosingStep, Servers
  <2>2. opened = {}
    BY DEF LifeInv, ClosedByNow, ChannelWithConnection, TypeOK, Past, Resources
  <2> QED BY <2>1, <2>2, ServersConns DEF IsShut
<1> QED BY <1>1, LifeAlways, PTL
=============================================================================
