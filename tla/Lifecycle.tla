----------------------------- MODULE Lifecycle -----------------------------
(***************************************************************************)
(* The life of the process, from main.go: it opens what it depends on one  *)
(* after another, runs the HTTP server and the MCP server in an error      *)
(* group until a signal or the failure of one ends both, and then closes   *)
(* everything in order, under one deadline of five seconds for all of it.  *)
(* log.Fatal ends the process on the spot.                                 *)
(*                                                                         *)
(* Once the process has ended nothing changes: what is left open then was  *)
(* left open, and a connection that is busy then was cut off.              *)
(***************************************************************************)
CONSTANTS
    HttpConns,  \* connections clients make to the HTTP server
    McpConns    \* and to the MCP server

Conns == HttpConns \cup McpConns

ASSUME ConnsAssumption == HttpConns \cap McpConns = {}

VARIABLES
    main,       \* the step main is about to take
    cancelled,  \* the context of the servers is done
    opened,     \* what is open of Resources
    listener,   \* what became of ListenAndServe, per server
    returned,   \* has the server's Start returned?
    conns,      \* the connections, as http.Server counts them
    expired     \* the deadline of the shutdown has passed

vars == <<main, cancelled, opened, listener, returned, conns, expired>>

Servers == {"http", "mcp"}

ConnsOf(s) == IF s = "http" THEN HttpConns ELSE McpConns

Resources == {"logger", "otel", "redis", "rabbitmq", "channel"}

\* What a request needs of them
Dependencies == {"redis", "rabbitmq", "channel"}

Startup == {"config", "tokens", "sentry"} \cup Resources
Ends    == {"exited", "fatal"}
Closing == {"close_http", "close_mcp", "close_rabbitmq", "close_redis",
            "close_otel", "close_logger"}

\* Mutant: the broker's connection is closed before the MCP server is.
AfterRabbitFirst ==
    [config |-> "tokens", tokens |-> "sentry", sentry |-> "logger", logger |-> "otel",
     otel |-> "redis", redis |-> "rabbitmq", rabbitmq |-> "channel",
     channel |-> "serving", serving |-> "close_http",
     close_http |-> "close_rabbitmq", close_rabbitmq |-> "close_mcp",
     close_mcp |-> "close_redis", close_redis |-> "close_otel",
     close_otel |-> "close_logger", close_logger |-> "exited"]

\* Mutant: OpenTelemetry is not shut down.
AfterOtelForgotten ==
    [config |-> "tokens", tokens |-> "sentry", sentry |-> "logger", logger |-> "otel",
     otel |-> "redis", redis |-> "rabbitmq", rabbitmq |-> "channel",
     channel |-> "serving", serving |-> "close_http",
     close_http |-> "close_mcp", close_mcp |-> "close_rabbitmq",
     close_rabbitmq |-> "close_redis", close_redis |-> "close_logger",
     close_logger |-> "exited"]

\* The order of main's steps
After ==
    [config |-> "tokens", tokens |-> "sentry", sentry |-> "logger", logger |-> "otel",
     otel |-> "redis", redis |-> "rabbitmq", rabbitmq |-> "channel",
     channel |-> "serving", serving |-> "close_http",
     close_http |-> "close_mcp", close_mcp |-> "close_rabbitmq",
     close_rabbitmq |-> "close_redis", close_redis |-> "close_otel",
     close_otel |-> "close_logger", close_logger |-> "exited"]

\* The process is there; it may not have begun to serve.
Alive == main \notin Ends

\* Mutant: the servers are started before what they depend on.
StartedFirst == Alive

\* The goroutines of the error group have been started.
Started == main \in {"serving"} \cup Closing

\* No server exists while the process starts, and none listens once main has
\* shut it down.
TypeOK ==
    /\ main \in Startup \cup {"serving"} \cup Closing \cup Ends
    /\ cancelled \in BOOLEAN
    /\ opened \subseteq Resources
    /\ listener \in [Servers -> {"none", "listening", "failed", "shut"}]
    /\ returned \in [Servers -> BOOLEAN]
    /\ conns \in [Conns -> {"none", "busy", "idle"}]
    /\ expired \in BOOLEAN
    /\ main \in Startup =>
        /\ \A s \in Servers : listener[s] = "none" /\ ~returned[s]
        /\ \A c \in Conns : conns[c] = "none"

Init ==
    /\ main = "config"
    /\ cancelled = FALSE
    /\ opened = {}
    /\ listener = [s \in Servers |-> "none"]
    /\ returned = [s \in Servers |-> FALSE]
    /\ conns = [c \in Conns |-> "none"]
    /\ expired = FALSE
-----------------------------------------------------------------------------
(* Starting *)

\* One step of the start succeeds.
Open ==
    /\ main \in Startup
    /\ opened' = opened \cup ({main} \cap Resources)
    /\ main' = After[main]
    /\ UNCHANGED <<cancelled, listener, returned, conns, expired>>

\* Or it fails, and log.Fatal ends the process, whatever is open already.
Fails(step) ==
    /\ main = step
    /\ main' = "fatal"
    /\ UNCHANGED <<cancelled, opened, listener, returned, conns, expired>>

\* The configuration cannot be read; a token is missing; Sentry refuses its DSN.
InitializeConfigFails == Fails("config")
ValidateAuthTokensFails == Fails("tokens")
SentryFails == Fails("sentry")

\* The log level is none, or the log file cannot be opened.
InitializeLoggerFails == Fails("logger")

\* An exporter or a provider cannot be made.
SetupOTelSDKFails == Fails("otel")

\* The broker cannot be reached, or gives no channel.  (The Redis client cannot
\* fail: it connects when it is first used.)
NewRabbitMQConnFails == Fails("rabbitmq")
NewRabbitMQChannelFails == Fails("channel")

StartFails ==
    \/ InitializeConfigFails \/ ValidateAuthTokensFails \/ SentryFails
    \/ InitializeLoggerFails \/ SetupOTelSDKFails
    \/ NewRabbitMQConnFails \/ NewRabbitMQChannelFails

\* SIGTERM or an interrupt.  It does not stop the start, which looks at the
\* context only when the servers run; a second one changes nothing.
Signal ==
    /\ Alive
    /\ ~cancelled
    /\ cancelled' = TRUE
    /\ UNCHANGED <<main, opened, listener, returned, conns, expired>>
-----------------------------------------------------------------------------
(* The two servers: Start, and the goroutine of ListenAndServe beside it *)

Listen(s) ==
    /\ Started
    /\ listener[s] = "none"
    /\ listener' = [listener EXCEPT ![s] = "listening"]
    /\ UNCHANGED <<main, cancelled, opened, returned, conns, expired>>

\* The address is taken, or accepting fails for good.
ListenFails(s) ==
    /\ Started
    /\ listener[s] \in {"none", "listening"}
    /\ listener' = [listener EXCEPT ![s] = "failed"]
    /\ UNCHANGED <<main, cancelled, opened, returned, conns, expired>>

\* Start's select sees that the context is done.
StartCancelled(s) ==
    /\ Started
    /\ ~returned[s]
    /\ cancelled
    /\ returned' = [returned EXCEPT ![s] = TRUE]
    /\ UNCHANGED <<main, cancelled, opened, listener, conns, expired>>

\* Or the listener's error.  Of the MCP server it is returned, and the error
\* group cancels the context for the other server.
McpStartFails ==
    /\ Started
    /\ ~returned["mcp"]
    /\ listener["mcp"] = "failed"
    /\ returned' = [returned EXCEPT !["mcp"] = TRUE]
    /\ cancelled' = TRUE
    /\ UNCHANGED <<main, opened, listener, conns, expired>>

\* Of the HTTP server it goes to log.Fatal.
HttpStartFails ==
    /\ Started
    /\ ~returned["http"]
    /\ listener["http"] = "failed"
    /\ main' = "fatal"
    /\ UNCHANGED <<cancelled, opened, listener, returned, conns, expired>>

\* A client connects, or asks again on a connection that was idle.  Until its
\* request is answered (of an MCP stream: until the client leaves) it is busy.
Request(c) ==
    /\ Alive
    /\ \/ /\ conns[c] = "none"
          /\ \E s \in Servers : c \in ConnsOf(s) /\ listener[s] = "listening"
       \/ conns[c] = "idle"
    /\ conns' = [conns EXCEPT ![c] = "busy"]
    /\ UNCHANGED <<main, cancelled, opened, listener, returned, expired>>

\* The request is answered, or the connection ends: the client hangs up, or it
\* was idle for too long.
Answered(c) ==
    /\ Alive
    /\ conns[c] # "none"
    /\ \E next \in {"idle", "none"} : conns' = [conns EXCEPT ![c] = next]
    /\ UNCHANGED <<main, cancelled, opened, listener, returned, expired>>
-----------------------------------------------------------------------------
(* Closing *)

\* errgrp.Wait returns, and the deadline begins to run.
Wait ==
    /\ main = "serving"
    /\ \A s \in Servers : returned[s]
    /\ main' = After[main]
    /\ UNCHANGED <<cancelled, opened, listener, returned, conns, expired>>

Expire ==
    /\ main \in Closing
    /\ ~expired
    /\ expired' = TRUE
    /\ UNCHANGED <<main, cancelled, opened, listener, returned, conns>>

ClosingStep(s) == IF s = "http" THEN "close_http" ELSE "close_mcp"

Busy(s) == {c \in ConnsOf(s) : conns[c] = "busy"}

\* Mutant: a shutdown that has no deadline.
WhenDrained(s) == Busy(s) = {}

\* http.Server.Shutdown returns when no connection is busy, or the deadline
\* has passed.
MayProceed(s) == Busy(s) = {} \/ expired

\* It closes the listener first.
CloseListener(s) ==
    /\ main = ClosingStep(s)
    /\ listener[s] # "shut"
    /\ listener' = [listener EXCEPT ![s] = "shut"]
    /\ UNCHANGED <<main, cancelled, opened, returned, conns, expired>>

\* Then the idle connections, again and again.
CloseIdle(s) ==
    /\ main = ClosingStep(s)
    /\ listener[s] = "shut"
    /\ conns' = [c \in Conns |->
            IF c \in ConnsOf(s) /\ conns[c] = "idle" THEN "none" ELSE conns[c]]
    /\ main' = IF MayProceed(s) THEN After[main] ELSE main
    /\ UNCHANGED <<cancelled, opened, listener, returned, expired>>

\* What is closed in the background, and what with it
ClosedWith == [rabbitmq |-> {"rabbitmq", "channel"}, logger |-> {"logger"}]

\* The goroutine that closes the connection to the broker, or the log file:
\* main waits for it no longer than until the deadline.
InBackground(r) ==
    /\ Alive
    /\ r \in opened
    /\ r = "rabbitmq" => main \in Closing \ {"close_http", "close_mcp"}
    /\ r = "logger" => main = "close_logger"
    /\ opened' = opened \ ClosedWith[r]
    /\ UNCHANGED <<main, cancelled, listener, returned, conns, expired>>

Proceed(step, r) ==
    /\ main = step
    /\ r \notin opened \/ expired
    /\ main' = After[main]
    /\ UNCHANGED <<cancelled, opened, listener, returned, conns, expired>>

\* The Redis client closes at once.  The providers of OpenTelemetry flush what
\* they have; they may fail to when the deadline has passed.
CloseRedis ==
    /\ main = "close_redis"
    /\ opened' = opened \ {"redis"}
    /\ main' = After[main]
    /\ UNCHANGED <<cancelled, listener, returned, conns, expired>>

CloseOtel ==
    /\ main = "close_otel"
    /\ opened' \in {opened \ {"otel"}} \cup (IF expired THEN {opened} ELSE {})
    /\ main' = After[main]
    /\ UNCHANGED <<cancelled, listener, returned, conns, expired>>

Main ==
    \/ Open \/ StartFails \/ Wait
    \/ \E s \in Servers : CloseListener(s) \/ CloseIdle(s)
    \/ Proceed("close_rabbitmq", "rabbitmq")
    \/ CloseRedis \/ CloseOtel
    \/ Proceed("close_logger", "logger")

Next ==
    \/ Main
    \/ Signal
    \/ \E s \in Servers : Listen(s) \/ ListenFails(s) \/ StartCancelled(s)
    \/ McpStartFails \/ HttpStartFails
    \/ \E c \in Conns : Request(c) \/ Answered(c)
    \/ Expire
    \/ \E r \in DOMAIN ClosedWith : InBackground(r)

Spec == Init /\ [][Next]_vars

\* main and the goroutines of the servers are scheduled, the clock reaches the
\* deadline, and a start that fails at all fails within the timeouts of its
\* calls.  Nothing is assumed of signals, of clients, or of what is closed in
\* the background.
FairSpec ==
    /\ Spec
    /\ WF_vars(Main) /\ WF_vars(Expire)
    /\ WF_vars(McpStartFails) /\ WF_vars(HttpStartFails)
    /\ \A s \in Servers : WF_vars(StartCancelled(s))
-----------------------------------------------------------------------------
\* No request loses what it needs while it is served: Redis, the connection to
\* the broker and its channel are closed only after both servers have no
\* request left, unless the deadline has passed.
RequestsKeepDependencies ==
    \A c \in Conns : conns[c] = "busy" => expired \/ Dependencies \subseteq opened

\* A process that ends in time leaves nothing behind: all that was opened is
\* closed, and no request was cut off.
CleanExit ==
    main = "exited" /\ ~expired =>
        /\ opened = {}
        /\ \A s \in Servers : listener[s] = "shut"
        /\ \A c \in Conns : conns[c] = "none"

\* A signal, or the failure of either server, ends the whole process, whatever
\* clients do and whatever does not close; neither server is left to run alone.
AskedToEnd == cancelled \/ \E s \in Servers : listener[s] = "failed"

EndsOnceAsked == AskedToEnd ~> ~Alive
=============================================================================
