-------------------------- MODULE PluginHeartbeat --------------------------
(***************************************************************************)
(* The timed heartbeat between the podman-machine process and ONE driver   *)
(* plugin server.  The client goroutine started by NewRPCClientDriver      *)
(* (libmachine/drivers/rpc/client_driver.go) waits heartbeatInterval, then *)
(* calls Heartbeat; the server's main loop in RegisterDriver               *)
(* (libmachine/drivers/plugin/register_driver.go) exits when it has seen   *)
(* neither a heartbeat nor a Close for heartbeatTimeout.                   *)
(*                                                                         *)
(* Time is discrete.  Each timer is a counter advanced by Tick, and Tick   *)
(* may not pass a timer that has fired and was not served.  How long the   *)
(* operating system and the network may delay the client is not in the     *)
(* code: it is the pair of bounds SetupBound and RpcLatency.               *)
(***************************************************************************)
EXTENDS Naturals

CONSTANTS
    HeartbeatInterval,  \* heartbeatInterval of the client (5s)
    HeartbeatTimeout,   \* heartbeatTimeout of the server (10s)
    SetupBound,         \* longest time from the server entering its loop to
                        \* the client starting its heartbeat goroutine
    RpcLatency          \* longest time one heartbeat call may be on the wire

ASSUME TimesAreNatural ==
    /\ HeartbeatInterval \in Nat \ {0}
    /\ HeartbeatTimeout \in Nat \ {0}
    /\ SetupBound \in Nat
    /\ RpcLatency \in Nat

\* The margin the two timeouts leave: one interval, and either the setup or
\* the answer to the previous call before it, and the next call after it.
ASSUME TimeoutCoversDelays ==
    /\ SetupBound + HeartbeatInterval + RpcLatency < HeartbeatTimeout
    /\ RpcLatency + HeartbeatInterval + RpcLatency < HeartbeatTimeout

VARIABLES
    client,   \* where the client's side of the connection is
    clientT,  \* time since client entered "setup" or "waiting"
    net,      \* the heartbeat call on the wire: none, request or reply
    netT,     \* time since that call was made
    server,   \* the plugin process: serving, closed (exit 0), expired
              \* (exit 1) or crashed
    serverT,  \* age of the server's time.After(heartbeatTimeout)
    goneT     \* time for which a serving server has had no client process

HeartbeatVars == <<client, clientT, net, netT, server, serverT, goneT>>

HeartbeatTypeOK ==
    /\ client \in {"setup", "waiting", "calling", "closing", "stuck", "gone"}
    /\ net \in {"none", "request", "reply"}
    /\ server \in {"serving", "closed", "expired", "crashed"}
    /\ clientT \in Nat
    /\ netT \in Nat
    /\ serverT \in Nat
    /\ goneT \in Nat

\* The server has printed its address and entered the select for the first
\* time; the client has yet to dial, negotiate the version and start beating.
HeartbeatInit ==
    /\ client = "setup"
    /\ clientT = 0
    /\ net = "none"
    /\ netT = 0
    /\ server = "serving"
    /\ serverT = 0
    /\ goneT = 0
-----------------------------------------------------------------------------
\* Mutant: the server forgives one missed interval before it exits.
GraceDeadline == HeartbeatTimeout + HeartbeatInterval

\* The age at which the server's time.After fires.
ServerDeadline == HeartbeatTimeout

\* The heartbeat goroutine starts and enters its select.
StartHeartbeat ==
    /\ client = "setup"
    /\ client' = "waiting"
    /\ clientT' = 0
    /\ UNCHANGED <<net, netT, server, serverT, goneT>>

\* time.After(heartbeatInterval) fires: c.Client.Call(HeartbeatMethod).
SendHeartbeat ==
    /\ client = "waiting"
    /\ clientT >= HeartbeatInterval
    /\ client' = "calling"
    /\ net' = "request"
    /\ netT' = 0
    /\ UNCHANGED <<clientT, server, serverT, goneT>>

\* Mutant: one timer kept across heartbeats instead of a new time.After at
\* every turn of the loop.
ServeHeartbeatKeepsTimer ==
    /\ net = "request"
    /\ server = "serving"
    /\ net' = IF client = "gone" THEN "none" ELSE "reply"
    /\ UNCHANGED <<client, clientT, netT, server, serverT, goneT>>

\* The Heartbeat handler hands the beat to the main loop, whose next turn of
\* the for statement arms a new time.After.
ServeHeartbeat ==
    /\ net = "request"
    /\ server = "serving"
    /\ net' = IF client = "gone" THEN "none" ELSE "reply"
    /\ serverT' = 0
    /\ UNCHANGED <<client, clientT, netT, server, goneT>>

\* Mutant: the goroutine without its for statement, one beat and no more.
HeartbeatReturnsWithoutLoop ==
    /\ client = "calling"
    /\ net = "reply"
    /\ net' = "none"
    /\ netT' = 0
    /\ UNCHANGED <<client, clientT, server, serverT, goneT>>

\* The call returns nil and the goroutine goes back to its select.
HeartbeatReturns ==
    /\ client = "calling"
    /\ net = "reply"
    /\ client' = "waiting"
    /\ clientT' = 0
    /\ net' = "none"
    /\ netT' = 0
    /\ UNCHANGED <<server, serverT, goneT>>

\* The call fails because the server is gone: the goroutine calls c.close(),
\* which sends on the channel only this goroutine receives from.
HeartbeatFails ==
    /\ client = "calling"
    /\ net = "request"
    /\ server # "serving"
    /\ client' = "stuck"
    /\ net' = "none"
    /\ netT' = 0
    /\ UNCHANGED <<clientT, server, serverT, goneT>>

\* c.close(): the send on heartbeatDoneCh meets the goroutine in its select,
\* the goroutine returns, and the Close call is made.
CloseClient ==
    /\ client = "waiting"
    /\ client' = "closing"
    /\ clientT' = 0
    /\ UNCHANGED <<net, netT, server, serverT, goneT>>

\* The Close handler's send on CloseCh is received: os.Exit(0); on a dead
\* server the call fails and is only logged.  Either way the client is done.
FinishClose ==
    /\ client = "closing"
    /\ server' = IF server = "serving" THEN "closed" ELSE server
    /\ client' = "gone"
    /\ UNCHANGED <<clientT, net, netT, serverT, goneT>>

\* A panic outside Create (only Create traps panics) or a signal ends the
\* plugin process.
ServerCrashes ==
    /\ server = "serving"
    /\ server' = "crashed"
    /\ UNCHANGED <<client, clientT, net, netT, serverT, goneT>>

\* The client process ends without Close: osExit(1), a panic or a signal.
\* A request already on the wire still reaches the server.
ClientDies ==
    /\ client # "gone"
    /\ client' = "gone"
    /\ net' = IF net = "request" THEN "request" ELSE "none"
    /\ UNCHANGED <<clientT, netT, server, serverT, goneT>>

\* Mutant: the server's loop without the case of the timeout.
NeverExpire == FALSE /\ UNCHANGED HeartbeatVars

\* time.After(heartbeatTimeout) fires in the server's select: os.Exit(1).
Expire ==
    /\ server = "serving"
    /\ serverT >= ServerDeadline
    /\ server' = "expired"
    /\ UNCHANGED <<client, clientT, net, netT, serverT, goneT>>

\* One unit of time.  The delays that are not the code's are bounded here.
Tick ==
    /\ server = "serving" \/ client \in {"setup", "waiting"}
    /\ client = "setup" => clientT < SetupBound
    /\ client = "waiting" => clientT < HeartbeatInterval
    /\ client = "closing" => clientT < RpcLatency
    /\ net # "none" => netT < RpcLatency
    /\ server = "serving" => serverT < ServerDeadline
    /\ clientT' = IF client \in {"setup", "waiting", "closing"}
                  THEN clientT + 1 ELSE clientT
    /\ netT' = IF net = "none" THEN netT ELSE netT + 1
    /\ serverT' = IF server = "serving" THEN serverT + 1 ELSE serverT
    /\ goneT' = IF server = "serving" /\ client = "gone"
                THEN goneT + 1 ELSE goneT
    /\ UNCHANGED <<client, net, server>>

HeartbeatNext ==
    \/ StartHeartbeat
    \/ SendHeartbeat
    \/ ServeHeartbeat
    \/ HeartbeatReturns
    \/ HeartbeatFails
    \/ CloseClient
    \/ FinishClose
    \/ ServerCrashes
    \/ ClientDies
    \/ Expire
    \/ Tick

\* Time passes, and a timer that has fired is served: the server's runtime
\* runs its select loop whatever the client does.
HeartbeatFairness ==
    /\ WF_HeartbeatVars(Tick)
    /\ WF_HeartbeatVars(Expire)
    /\ WF_HeartbeatVars(ServeHeartbeat)

HeartbeatSpec == HeartbeatInit /\ [][HeartbeatNext]_HeartbeatVars /\ HeartbeatFairness
-----------------------------------------------------------------------------
\* The server's timeout never fires under a client process that is still
\* there (client_driver.go:173-187 against register_driver.go:51-62): two
\* timers in two processes, and the margin between them, have to agree.
NoFalseExpiry == server = "expired" => client = "gone"

\* A server whose client process ended without Close does not outlive it by
\* more than the timeout, plus the one heartbeat that may have been on the
\* wire: the plugin process is not leaked.
OrphanBounded ==
    server = "serving" => goneT <= HeartbeatTimeout + RpcLatency

\* Every server whose client process has ended stops, whichever way the
\* client ended (register_driver.go:58-60).
OrphanStops == client = "gone" ~> server # "serving"
-----------------------------------------------------------------------------
\* What the timers owe each other while the client is there and the server
\* serves: how old the server's timer can be at each point of the client.
Slack == IF SetupBound >= RpcLatency THEN SetupBound ELSE RpcLatency

TimersAgree ==
    server = "serving" =>
        /\ client = "setup" =>
              net = "none" /\ serverT <= clientT /\ clientT <= SetupBound
        /\ client = "waiting" =>
              /\ net = "none"
              /\ serverT <= Slack + clientT
              /\ clientT <= HeartbeatInterval
        /\ client = "calling" /\ net = "request" =>
              serverT <= Slack + HeartbeatInterval + netT
        /\ client = "calling" /\ net = "reply" => serverT <= netT
        /\ client = "calling" => net # "none"
        /\ client = "closing" =>
              /\ net = "none"
              /\ serverT <= Slack + HeartbeatInterval + clientT
              /\ clientT <= RpcLatency
        /\ net # "none" => netT <= RpcLatency
        /\ client # "stuck"
        /\ serverT <= HeartbeatTimeout

\* How long a served orphan has been one, against the server's timer.
OrphanAge ==
    server = "serving" =>
        /\ client # "gone" => goneT = 0
        /\ client = "gone" /\ net = "request" => goneT <= netT
        /\ client = "gone" => goneT <= serverT + RpcLatency

HeartbeatInv == HeartbeatTypeOK /\ TimersAgree /\ OrphanAge /\ NoFalseExpiry
=============================================================================
