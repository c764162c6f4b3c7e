------------------------------- MODULE Broker -------------------------------
(***************************************************************************)
(* The broker of the web server: the loop that hands broadcasts to the web *)
(* socket clients, the clients' goroutines, and the publications of        *)
(* package pubsub that the loop subscribes to.                             *)
(*                                                                         *)
(* The loop is the only reader of three buffered channels (register,       *)
(* unregister, broadcast) and writes to two of them itself. Of a message   *)
(* the model keeps that it is there: broadcast and publish[c] are numbers  *)
(* of messages. Which clients a message is for (the role's policies) is a  *)
(* choice made when the loop comes to the client.                          *)
(*                                                                         *)
(* Client.Stop runs once per client, in whichever goroutine comes first:   *)
(* the client's own three, or the loop. A second caller waits for the      *)
(* first to finish (sync.Once).                                            *)
(***************************************************************************)
EXTENDS Integers, Sequences

CONSTANTS
    WsClients,      \* web socket clients
    ChannelBuffer,  \* capacity of broadcast, register and unregister
    PublishBuffer,  \* capacity of a client's publish channel
    MaxMessages,    \* bound on the broadcasts and publications of a behaviour
    NoWsClient      \* the loop is not about any client

ASSUME BuffersAssumption ==
    /\ ChannelBuffer \in Nat \ {0}
    /\ PublishBuffer \in Nat \ {0}
    /\ MaxMessages \in Nat
ASSUME NoWsClientAssumption == NoWsClient \notin WsClients

Loop == <<"loop", NoWsClient>>
Reader(c) == <<"read", c>>
Writer(c) == <<"write", c>>
Ticker(c) == <<"screenshots", c>>

Goroutines(c) == {Reader(c), Writer(c), Ticker(c)}
BrokerProcs == {Loop} \cup UNION {Goroutines(c) : c \in WsClients}

VARIABLES
    clients,     \* clients that the loop delivers to
    register,    \* clients in the register channel
    unregister,  \* clients in the unregister channel
    broadcast,   \* number of messages in the broadcast channel
    publish,     \* number of messages in each client's channel
    at,          \* label of each goroutine
    visit,       \* clients the loop has still to offer the current message
    cli,         \* client the loop is stopping, or NoWsClient
    once,        \* Client.once: "no", "running" or "done"
    done,        \* clients whose done channel is closed
    sent         \* messages sent so far (bound)

loopVars == <<clients, visit, cli>>
brokerVars == <<clients, register, unregister, broadcast, publish, at, visit, cli, once, done, sent>>

StopPoints == {"stop", "unregister", "close", "closing"}

BrokerTypeOK ==
    /\ clients \subseteq WsClients
    /\ register \in Seq(WsClients) /\ Len(register) <= ChannelBuffer
    /\ unregister \in Seq(WsClients) /\ Len(unregister) <= ChannelBuffer
    /\ broadcast \in 0 .. ChannelBuffer
    /\ publish \in [WsClients -> 0 .. PublishBuffer]
    /\ at \in [BrokerProcs ->
                {"none", "select", "forward", "deliver", "respond", "lock", "write", "ping", "end"}
                    \cup StopPoints]
    /\ visit \subseteq WsClients
    /\ cli \in WsClients \cup {NoWsClient}
    /\ once \in [WsClients -> {"no", "running", "done"}]
    /\ done \subseteq WsClients
    /\ sent \in 0 .. MaxMessages

BrokerInit ==
    /\ clients = {}
    /\ register = <<>> /\ unregister = <<>> /\ broadcast = 0
    /\ publish = [c \in WsClients |-> 0]
    /\ at = [p \in BrokerProcs |-> IF p = Loop THEN "select" ELSE "none"]
    /\ visit = {} /\ cli = NoWsClient
    /\ once = [c \in WsClients |-> "no"]
    /\ done = {}
    /\ sent = 0

Moves(p, label) == at' = [at EXCEPT ![p] = label]

----------------------------------------------------------------------------
(* Client.Stop of client c, run by goroutine p.                            *)

\* Where p goes on after Stop. The loop forgets the client and goes on with
\* the clients it has not visited.
AfterStop(p) ==
    IF p = Loop
    THEN /\ clients' = clients \ {cli}
         /\ cli' = NoWsClient
         /\ Moves(Loop, IF visit = {} THEN "select" ELSE "deliver")
    ELSE /\ Moves(p, "end")
         /\ UNCHANGED <<clients, cli>>

\* c.once.Do(c.stop)
StopOnce(p, c) ==
    /\ at[p] = "stop"
    /\ \/ /\ once[c] = "no"
          /\ once' = [once EXCEPT ![c] = "running"]
          /\ Moves(p, "unregister")
          /\ UNCHANGED <<clients, cli>>
       \/ /\ once[c] = "done"
          /\ AfterStop(p)
          /\ UNCHANGED once
    /\ UNCHANGED <<visit, register, unregister, broadcast, publish, done, sent>>

\* unregister <- c, and done is closed.
StopUnregisters(p, c) ==
    /\ at[p] = "unregister"
    /\ Len(unregister) < ChannelBuffer
    /\ unregister' = Append(unregister, c)
    /\ done' = done \cup {c}
    /\ Moves(p, "close")
    /\ UNCHANGED <<loopVars, register, broadcast, publish, once, sent>>

\* connMu is held by the client's writer, or by a stop.
ConnLocked(c) ==
    \/ at[Writer(c)] = "write"
    \/ \E p \in Goroutines(c) : at[p] = "closing"
    \/ at[Loop] = "closing" /\ cli = c

\* connMu is taken, the close message written and the connection closed.
StopCloses(p, c) ==
    /\ \/ /\ at[p] = "close" /\ ~ConnLocked(c)
          /\ Moves(p, "closing")
          /\ UNCHANGED <<clients, cli, once>>
       \/ /\ at[p] = "closing"
          /\ once' = [once EXCEPT ![c] = "done"]
          /\ AfterStop(p)
    /\ UNCHANGED <<visit, register, unregister, broadcast, publish, done, sent>>

Stopping(p, c) == StopOnce(p, c) \/ StopUnregisters(p, c) \/ StopCloses(p, c)

----------------------------------------------------------------------------
(* The loop.                                                               *)

\* A publication of pubsub: its sends are not buffered, so it takes place
\* when the loop receives it. A delayed VM that cannot be found ends there;
\* anything else the loop turns into a broadcast of its own.
LoopPublication ==
    /\ at[Loop] = "select"
    /\ sent < MaxMessages
    /\ sent' = sent + 1
    /\ \E next \in {"select", "forward"} : Moves(Loop, next)
    /\ UNCHANGED <<loopVars, register, unregister, broadcast, publish, once, done>>

\* broadcast <- ..., to the channel only the loop receives from.
LoopForward ==
    /\ at[Loop] = "forward"
    /\ broadcast < ChannelBuffer
    /\ broadcast' = broadcast + 1
    /\ Moves(Loop, "select")
    /\ UNCHANGED <<loopVars, register, unregister, publish, once, done, sent>>

LoopRegister ==
    /\ at[Loop] = "select" /\ register # <<>>
    /\ clients' = clients \cup {Head(register)}
    /\ register' = Tail(register)
    /\ UNCHANGED <<visit, cli, unregister, broadcast, publish, at, once, done, sent>>

LoopUnregister ==
    /\ at[Loop] = "select" /\ unregister # <<>>
    /\ unregister' = Tail(unregister)
    /\ IF Head(unregister) \in clients
       THEN cli' = Head(unregister) /\ Moves(Loop, "stop")
       ELSE UNCHANGED <<cli, at>>
    /\ UNCHANGED <<clients, visit, register, broadcast, publish, once, done, sent>>

LoopBroadcast ==
    /\ at[Loop] = "select" /\ broadcast > 0
    /\ broadcast' = broadcast - 1
    /\ visit' = clients
    /\ Moves(Loop, IF clients = {} THEN "select" ELSE "deliver")
    /\ UNCHANGED <<clients, cli, register, unregister, publish, once, done, sent>>

\* Fault: a client that does not keep up is waited for.
DeliverBlocking(c) ==
    /\ at[Loop] = "deliver" /\ c \in visit
    /\ publish[c] < PublishBuffer
    /\ publish' = [publish EXCEPT ![c] = @ + 1]
    /\ visit' = visit \ {c}
    /\ Moves(Loop, IF visit = {c} THEN "select" ELSE "deliver")
    /\ UNCHANGED <<clients, cli, register, unregister, broadcast, once, done, sent>>

\* The message is offered to c if its role allows; a client whose channel is
\* full is stopped.
Deliver(c) ==
    /\ at[Loop] = "deliver" /\ c \in visit
    /\ visit' = visit \ {c}
    /\ \/ /\ Moves(Loop, IF visit = {c} THEN "select" ELSE "deliver")
          /\ publish' \in {publish} \cup
                {[publish EXCEPT ![c] = n] : n \in {publish[c] + 1} \cap (0 .. PublishBuffer)}
          /\ UNCHANGED cli
       \/ /\ publish[c] = PublishBuffer
          /\ cli' = c
          /\ Moves(Loop, "stop")
          /\ UNCHANGED publish
    /\ UNCHANGED <<clients, register, unregister, broadcast, once, done, sent>>

LoopStep ==
    \/ LoopForward \/ LoopRegister \/ LoopUnregister \/ LoopBroadcast
    \/ \E c \in WsClients : Deliver(c)
    \/ cli # NoWsClient /\ Stopping(Loop, cli)

----------------------------------------------------------------------------
(* Handlers and clients.                                                   *)

\* A handler's Broadcast.
Broadcast ==
    /\ sent < MaxMessages
    /\ broadcast < ChannelBuffer
    /\ broadcast' = broadcast + 1
    /\ sent' = sent + 1
    /\ UNCHANGED <<loopVars, register, unregister, publish, at, once, done>>

\* ServeWS: the client registers and its goroutines begin.
ServeWS(c) ==
    /\ at[Reader(c)] = "none"
    /\ Len(register) < ChannelBuffer
    /\ register' = Append(register, c)
    /\ at' = [p \in BrokerProcs |-> IF p \in Goroutines(c) THEN "select" ELSE at[p]]
    /\ UNCHANGED <<loopVars, unregister, broadcast, publish, once, done, sent>>

\* A read fails (the peer left, or the connection was closed here), or done
\* is seen closed; otherwise a request arrives that will be answered.
ClientReads(c) ==
    /\ at[Reader(c)] = "select"
    /\ \/ Moves(Reader(c), "stop")
       \/ c \notin done /\ Moves(Reader(c), "respond")
    /\ UNCHANGED <<loopVars, register, unregister, broadcast, publish, once, done, sent>>

\* The answer, or a screenshot, is put into the client's channel. The send
\* does not look at done.
Responds(c, p) ==
    /\ at[p] = "respond"
    /\ publish[c] < PublishBuffer
    /\ publish' = [publish EXCEPT ![c] = @ + 1]
    /\ Moves(p, "select")
    /\ UNCHANGED <<loopVars, register, unregister, broadcast, once, done, sent>>

\* The screenshots ticker.
ClientTicks(c) ==
    /\ at[Ticker(c)] = "select"
    /\ \/ c \in done /\ Moves(Ticker(c), "stop")
       \/ Moves(Ticker(c), "respond")
    /\ UNCHANGED <<loopVars, register, unregister, broadcast, publish, once, done, sent>>

\* The writer's select: done, a message, or the ping, which is written
\* without connMu and ends the writer when it fails.
WriterSelects(c) ==
    LET w == Writer(c)
    IN  /\ \/ at[w] = "select" /\ c \in done /\ Moves(w, "stop") /\ UNCHANGED publish
           \/ /\ at[w] = "select" /\ publish[c] > 0
              /\ publish' = [publish EXCEPT ![c] = @ - 1]
              /\ Moves(w, "lock")
           \/ at[w] = "select" /\ Moves(w, "ping") /\ UNCHANGED publish
           \/ at[w] = "ping" /\ (\E next \in {"select", "stop"} : Moves(w, next)) /\ UNCHANGED publish
        /\ UNCHANGED <<loopVars, register, unregister, broadcast, once, done, sent>>

\* Client.publisher: under connMu the message is written, and as many more
\* as were in the channel; a failed write leaves the rest there.
Publisher(c) ==
    LET w == Writer(c)
    IN  /\ \/ at[w] = "lock" /\ ~ConnLocked(c) /\ Moves(w, "write") /\ UNCHANGED publish
           \/ /\ at[w] = "write"
              /\ \E rest \in 0 .. publish[c] : publish' = [publish EXCEPT ![c] = rest]
              /\ Moves(w, "select")
        /\ UNCHANGED <<loopVars, register, unregister, broadcast, once, done, sent>>

\* A goroutine that is answering or stopping.
ClientStep(c, p) == Responds(c, p) \/ Stopping(p, c)

BrokerNext ==
    \/ LoopPublication \/ LoopStep \/ Broadcast
    \/ \E c \in WsClients :
        \/ ServeWS(c) \/ ClientReads(c) \/ ClientTicks(c) \/ WriterSelects(c) \/ Publisher(c)
        \/ \E p \in Goroutines(c) : ClientStep(c, p)

\* Every goroutine that can run does; writes have a deadline. Messages and
\* clients need not come.
BrokerFairness ==
    /\ WF_brokerVars(LoopStep)
    /\ \A c \in WsClients :
        /\ WF_brokerVars(Publisher(c))
        /\ \A p \in Goroutines(c) : WF_brokerVars(Stopping(p, c))
        /\ SF_brokerVars(\E p \in Goroutines(c) \cup {Loop} : StopCloses(p, c))

----------------------------------------------------------------------------
\* The loop has received a publication and finds the broadcast channel full.
Jammed == at[Loop] = "forward" /\ broadcast = ChannelBuffer

\* The loop comes back to its select whatever the clients do: waiting for
\* another goroutine's stop of a client, for connMu, or for room in the
\* unregister channel never lasts. The one thing it can wait for without end
\* is its own send to a full broadcast channel (Start of package broker).
LoopReturns == at[Loop] # "select" ~> (at[Loop] = "select" \/ Jammed)

=============================================================================
