----------------------------- MODULE QueueClient -----------------------------
(***************************************************************************)
(* One process's connection to RabbitMQ: the QueueClient with its          *)
(* reconnect loop, the consumers that run sessions on it, and Close.  The  *)
(* goroutines share the fields of the client under its mutex; each step    *)
(* below is what one goroutine does between two points where another one   *)
(* or the broker can intervene.                                            *)
(*                                                                         *)
(* Connections are numbered in the order they are dialled; link[n] is what *)
(* the AMQP library knows of the n-th: not dialled, open, dropped by the   *)
(* network or the broker, or closed by this process.                       *)
(***************************************************************************)
EXTENDS Naturals

CONSTANTS Consumers,  \* the consumers built on the client, one Notify each
          MaxLinks,   \* bound on the connections of one behaviour
          MaxFaults   \* bound on failed dials, lost channels and requests

ASSUME ClientAssumption == MaxLinks \in Nat \ {0} /\ MaxFaults \in Nat

VARIABLES
    link,      \* link[n]: the n-th connection
    conn,      \* q.conn
    closed,    \* q.closed
    done,      \* q.done is closed
    subs,      \* q.notifySubs: the consumers whose Notify channel is open
    notify,    \* notify[c]: a value waits in the channel Notify gave c
    loop,      \* the reconnect loop: pc and the connection it has dialled
    closer,    \* the first call of Close: pc and the connection it saw
    consumers, \* consumers[c]: pc, session connection and its channel
    cancelled, \* the context given to Run is cancelled
    faults     \* failures so far

client == <<conn, closed, done, subs>>
vars == <<link, client, notify, loop, closer, consumers, cancelled, faults>>

Links == 1..MaxLinks

TypeOK ==
    /\ link \in [Links -> {"none", "open", "dropped", "closed"}]
    /\ conn \in Links
    /\ closed \in BOOLEAN /\ done \in BOOLEAN /\ cancelled \in BOOLEAN
    /\ subs \subseteq Consumers
    /\ notify \in [Consumers -> BOOLEAN]
    /\ loop \in [pc : {"register", "watch", "delay", "dial", "swap", "notify", "exited"},
                 new : Links]
    /\ closer \in [pc : {"none", "signal", "shut", "finished"}, conn : Links]
    /\ consumers \in [Consumers ->
           [pc : {"connect", "checkConn", "establish", "consume", "handle",
                  "retry", "checkRetry", "wait", "returned"},
            conn : Links, channel : BOOLEAN]]
    /\ faults \in Nat

(* Open has dialled the first connection and started the loop; every       *)
(* consumer has called Notify.                                             *)
Init ==
    /\ link = [n \in Links |-> IF n = 1 THEN "open" ELSE "none"]
    /\ conn = 1
    /\ closed = FALSE /\ done = FALSE /\ cancelled = FALSE
    /\ subs = Consumers
    /\ notify = [c \in Consumers |-> FALSE]
    /\ loop = [pc |-> "register", new |-> 1]
    /\ closer = [pc |-> "none", conn |-> 1]
    /\ consumers = [c \in Consumers |-> [pc |-> "connect", conn |-> 1, channel |-> FALSE]]
    /\ faults = 0

Fault == faults < MaxFaults /\ faults' = faults + 1

IsOpen(n) == link[n] = "open"

-----------------------------------------------------------------------------
(***************************************************************************)
(* The reconnect loop.                                                     *)
(***************************************************************************)
LoopTo(pc) == loop' = [loop EXCEPT !.pc = pc]
OnlyLoop == UNCHANGED <<link, client, notify, closer, consumers, cancelled, faults>>

(* waitForDrop: NotifyClose of a connection that is already down returns a *)
(* closed channel, which the loop takes for a clean shutdown.              *)
Register ==
    /\ loop.pc = "register"
    /\ LoopTo(IF IsOpen(conn) THEN "watch" ELSE "exited")
    /\ OnlyLoop

(* waitForDrop: the connection was dropped after NotifyClose. *)
SeeDrop ==
    /\ loop.pc = "watch"
    /\ link[conn] = "dropped"
    /\ LoopTo("delay")
    /\ OnlyLoop

(* waitForDrop, redialWithBackoff: Close was called, or closed conn. *)
SeeClose ==
    /\ \/ loop.pc \in {"watch", "delay"} /\ done
       \/ loop.pc = "watch" /\ link[conn] = "closed"
    /\ LoopTo("exited")
    /\ OnlyLoop

(* redialWithBackoff: the timer fires. *)
Timer ==
    /\ loop.pc = "delay"
    /\ LoopTo("dial")
    /\ OnlyLoop

(* reconnectDial succeeds, unless its context was cancelled by Close:      *)
(* dialContext then closes the new connection and the loop stops.          *)
DialOK ==
    /\ loop.pc = "dial"
    /\ \E n \in Links :
         /\ link[n] = "none"
         /\ \A m \in Links : m < n => link[m] # "none"
         /\ \/ /\ link' = [link EXCEPT ![n] = "open"]
               /\ loop' = [pc |-> "swap", new |-> n]
            \/ /\ done
               /\ link' = [link EXCEPT ![n] = "closed"]
               /\ loop' = [pc |-> "exited", new |-> n]
    /\ UNCHANGED <<client, notify, closer, consumers, cancelled, faults>>

(* Variant: the error of the dial is ignored and no connection installed. *)
DialFails_ignored ==
    /\ loop.pc = "dial"
    /\ Fault
    /\ loop' = [pc |-> "swap", new |-> 0]
    /\ UNCHANGED <<link, client, notify, closer, consumers, cancelled>>

(* reconnectDial fails: the loop waits again, or stops. *)
DialFails ==
    /\ loop.pc = "dial"
    /\ IF done THEN LoopTo("exited") /\ UNCHANGED faults
               ELSE LoopTo("delay") /\ Fault
    /\ UNCHANGED <<link, client, notify, closer, consumers, cancelled>>

(* Variant: the new connection is installed whatever closed says. *)
Swap_unchecked ==
    /\ loop.pc = "swap"
    /\ conn' = loop.new
    /\ LoopTo("notify")
    /\ UNCHANGED <<link, closed, done, subs, notify, closer, consumers, cancelled, faults>>

(* reconnectLoop: under the lock, install the new connection or close it. *)
Swap ==
    /\ loop.pc = "swap"
    /\ IF closed
         THEN /\ link' = [link EXCEPT ![loop.new] = "closed"]
              /\ LoopTo("exited")
              /\ UNCHANGED conn
         ELSE /\ conn' = loop.new
              /\ LoopTo("notify")
              /\ UNCHANGED link
    /\ UNCHANGED <<closed, done, subs, notify, closer, consumers, cancelled, faults>>

(* Variant: only one subscriber is told. *)
notifyReconnect_one ==
    /\ loop.pc = "notify"
    /\ IF closed THEN UNCHANGED notify
       ELSE \E c \in subs : notify' = [notify EXCEPT ![c] = TRUE]
    /\ LoopTo("register")
    /\ UNCHANGED <<link, client, closer, consumers, cancelled, faults>>

(* notifyReconnect: a value for every subscriber whose buffer is empty. *)
notifyReconnect ==
    /\ loop.pc = "notify"
    /\ notify' = IF closed THEN notify
                 ELSE [c \in Consumers |-> c \in subs \/ notify[c]]
    /\ LoopTo("register")
    /\ UNCHANGED <<link, client, closer, consumers, cancelled, faults>>

LoopStep == \/ Register \/ SeeDrop \/ SeeClose \/ Timer \/ DialOK \/ Swap
            \/ notifyReconnect

-----------------------------------------------------------------------------
(***************************************************************************)
(* Close, the call that wins closeOnce.                                    *)
(***************************************************************************)

(* Variant: the subscriptions are left open. *)
CloseMark_keepSubs ==
    /\ closer.pc = "none"
    /\ closed' = TRUE
    /\ closer' = [pc |-> "signal", conn |-> conn]
    /\ UNCHANGED <<link, conn, done, subs, notify, loop, consumers, cancelled, faults>>

(* Under the lock: set closed, keep conn, close every subscription. *)
CloseMark ==
    /\ closer.pc = "none"
    /\ closed' = TRUE
    /\ subs' = {}
    /\ closer' = [pc |-> "signal", conn |-> conn]
    /\ UNCHANGED <<link, conn, done, notify, loop, consumers, cancelled, faults>>

(* close(q.done) *)
CloseSignal ==
    /\ closer.pc = "signal"
    /\ done' = TRUE
    /\ closer' = [closer EXCEPT !.pc = "shut"]
    /\ UNCHANGED <<link, conn, closed, subs, notify, loop, consumers, cancelled, faults>>

(* Close the connection seen under the lock, unless it is already closed. *)
CloseShut ==
    /\ closer.pc = "shut"
    /\ link' = IF IsOpen(closer.conn) THEN [link EXCEPT ![closer.conn] = "closed"] ELSE link
    /\ closer' = [closer EXCEPT !.pc = "finished"]
    /\ UNCHANGED <<client, notify, loop, consumers, cancelled, faults>>

-----------------------------------------------------------------------------
(***************************************************************************)
(* Consumer.Run.                                                           *)
(***************************************************************************)
OnlyConsumers == UNCHANGED <<link, client, notify, loop, closer, cancelled, faults>>

At(c, pc) == consumers[c].pc = pc
ConsumerTo(c, pc) == consumers' = [consumers EXCEPT ![c].pc = pc]
EndSession(c, pc) == consumers' = [consumers EXCEPT ![c].pc = pc, ![c].channel = FALSE]

(* The context is cancelled: every wait and every check of ctx returns. *)
Stop(c) ==
    /\ cancelled
    /\ consumers[c].pc \in {"connect", "consume", "retry", "wait"}
    /\ EndSession(c, "returned")
    /\ OnlyConsumers

(* waitForConnection and waitAndRetry read Conn() ... *)
ReadConn(c) ==
    /\ ~cancelled
    /\ consumers[c].pc \in {"connect", "retry"}
    /\ consumers' = [consumers EXCEPT
           ![c].pc = IF @ = "connect" THEN "checkConn" ELSE "checkRetry",
           ![c].conn = conn]
    /\ OnlyConsumers

(* Variant: waitAndRetry waits without looking at the connection. *)
CheckConn_waits(c) ==
    /\ consumers[c].pc \in {"checkConn", "checkRetry"}
    /\ EndSession(c, IF At(c, "checkRetry") \/ ~IsOpen(consumers[c].conn) THEN "wait"
                     ELSE "establish")
    /\ OnlyConsumers

(* ... and then ask it whether it is closed: an open one starts a session  *)
(* (after waitAndRetry, a new round of Run); otherwise wait for a notice.  *)
CheckConn(c) ==
    /\ consumers[c].pc \in {"checkConn", "checkRetry"}
    /\ EndSession(c, IF ~IsOpen(consumers[c].conn) THEN "wait"
                     ELSE IF At(c, "checkConn") THEN "establish" ELSE "connect")
    /\ OnlyConsumers

(* A notice is read: look at the connection again.  In a session it ends   *)
(* the session.                                                            *)
Notified(c) ==
    /\ consumers[c].pc \in {"wait", "consume"}
    /\ notify[c]
    /\ notify' = [notify EXCEPT ![c] = FALSE]
    /\ EndSession(c, "connect")
    /\ UNCHANGED <<link, client, loop, closer, cancelled, faults>>

(* The subscription is closed and holds no notice: "client closed". *)
ClientClosed(c) ==
    /\ consumers[c].pc \in {"wait", "consume"}
    /\ ~notify[c]
    /\ c \notin subs
    /\ EndSession(c, "returned")
    /\ OnlyConsumers

(* Channel, Declare, Qos and Consume all succeed. *)
Establish(c) ==
    /\ At(c, "establish")
    /\ IsOpen(consumers[c].conn)
    /\ consumers' = [consumers EXCEPT ![c].pc = "consume", ![c].channel = ~cancelled]
    /\ OnlyConsumers

(* One of them fails and connectionUnavailable holds. *)
EstablishUnavailable(c) ==
    /\ At(c, "establish")
    /\ \/ ~IsOpen(consumers[c].conn) /\ UNCHANGED faults
       \/ Fault
    /\ ConsumerTo(c, "retry")
    /\ UNCHANGED <<link, client, notify, loop, closer, cancelled>>

(* One of them is refused on an open connection: Run returns the error. *)
EstablishRefused(c) ==
    /\ At(c, "establish")
    /\ IsOpen(consumers[c].conn)
    /\ Fault
    /\ ConsumerTo(c, "returned")
    /\ UNCHANGED <<link, client, notify, loop, closer, cancelled>>

(* The deliveries are closed because the channel or its connection is. *)
DeliveriesClosed(c) ==
    /\ At(c, "consume")
    /\ ~consumers[c].channel \/ ~IsOpen(consumers[c].conn)
    /\ EndSession(c, IF cancelled THEN "returned" ELSE "retry")
    /\ OnlyConsumers

(* A delivery arrives; its handler runs in this goroutine ... *)
TakeDelivery(c) ==
    /\ At(c, "consume")
    /\ consumers[c].channel
    /\ IsOpen(consumers[c].conn)
    /\ ConsumerTo(c, "handle")
    /\ OnlyConsumers

(* ... and ends in an Ack or a Nack, whose failure is only logged. *)
HandlerEnds(c) ==
    /\ At(c, "handle")
    /\ ConsumerTo(c, "consume")
    /\ OnlyConsumers

ConsumerStep(c) ==
    \/ Stop(c) \/ ReadConn(c) \/ CheckConn(c) \/ Notified(c) \/ ClientClosed(c)
    \/ Establish(c) \/ DeliveriesClosed(c) \/ HandlerEnds(c)
    \/ EstablishUnavailable(c) /\ ~IsOpen(consumers[c].conn)

-----------------------------------------------------------------------------
(***************************************************************************)
(* What happens to the process from outside.  A drop leaves a connection   *)
(* to dial, so that the bound never stops the loop.                        *)
(***************************************************************************)
Drop(n) ==
    /\ IsOpen(n)
    /\ \E m \in Links : link[m] = "none"
    /\ link' = [link EXCEPT ![n] = "dropped"]
    /\ UNCHANGED <<client, notify, loop, closer, consumers, cancelled, faults>>

(* The broker closes one channel and leaves the connection open. *)
ChannelLost(c) ==
    /\ consumers[c].channel
    /\ Fault
    /\ consumers' = [consumers EXCEPT ![c].channel = FALSE]
    /\ UNCHANGED <<link, client, notify, loop, closer, cancelled>>

(* The context of Run is cancelled; a goroutine of each session closes its *)
(* channel.                                                                *)
Cancel ==
    /\ ~cancelled
    /\ cancelled' = TRUE
    /\ consumers' = [c \in Consumers |-> [consumers[c] EXCEPT !.channel = FALSE]]
    /\ UNCHANGED <<link, client, notify, loop, closer, faults>>

(* The process has stopped. *)
Terminated ==
    /\ closer.pc = "finished"
    /\ loop.pc = "exited"
    /\ \A c \in Consumers : At(c, "returned")
    /\ UNCHANGED vars

Next ==
    \/ LoopStep \/ DialFails
    \/ CloseMark \/ CloseSignal \/ CloseShut
    \/ \E c \in Consumers :
          \/ Stop(c) \/ ReadConn(c) \/ CheckConn(c) \/ Notified(c) \/ ClientClosed(c)
          \/ Establish(c) \/ EstablishUnavailable(c) \/ EstablishRefused(c)
          \/ DeliveriesClosed(c) \/ TakeDelivery(c) \/ HandlerEnds(c)
          \/ ChannelLost(c)
    \/ \E n \in Links : Drop(n)
    \/ Cancel
    \/ Terminated

Spec == Init /\ [][Next]_vars

(* The goroutines run: the scheduler is fair to each, timers fire, dials   *)
(* end, handlers return.  Nothing says that Close or Cancel is called.     *)
Fairness ==
    /\ WF_vars(LoopStep)
    /\ WF_vars(CloseSignal \/ CloseShut)
    /\ \A c \in Consumers : WF_vars(ConsumerStep(c))

FairSpec == Spec /\ Fairness

-----------------------------------------------------------------------------
(***************************************************************************)
(* Properties.                                                             *)
(***************************************************************************)

(* Every open connection is q.conn or the one the reconnect loop is about  *)
(* to install or close, and once Close has returned only the second is     *)
(* left: however Close and a reconnect interleave, no connection is left   *)
(* dangling (reconnectLoop, Close).                                        *)
NoDanglingConnection ==
    \A n \in Links : IsOpen(n) =>
        \/ n = conn /\ closer.pc # "finished"
        \/ n = loop.new /\ loop.pc = "swap"

(* A consumer that waits for a notice never misses one: if the current     *)
(* connection is open, its notice is in the buffer or about to be put      *)
(* there.  The buffer holds one value and notifyReconnect drops the rest,  *)
(* and Conn() is read before the wait begins (waitForConnection,           *)
(* waitAndRetry, notifyReconnect).                                         *)
NoLostWakeup ==
    \A c \in Consumers :
        At(c, "wait") /\ c \in subs /\ ~notify[c]
            => ~IsOpen(conn) \/ loop.pc = "notify"

(* Once Close has returned the reconnect loop ends and every Run returns,  *)
(* whatever they were doing (Close, redialWithBackoff, runSession).        *)
ShutdownCompletes ==
    closer.pc = "finished" ~>
        loop.pc = "exited" /\ \A c \in Consumers : At(c, "returned")

(* A consumer whose session broke consumes again, on an open connection,   *)
(* unless its Run returned, the client was closed or the reconnect loop    *)
(* is gone (runSession, waitAndRetry, waitForConnection).                  *)
ConsumerRecovers ==
    \A c \in Consumers :
        consumers[c].pc \in {"retry", "checkRetry", "wait"} ~>
            \/ At(c, "consume") /\ consumers[c].channel /\ IsOpen(consumers[c].conn)
            \/ At(c, "returned")
            \/ closed \/ loop.pc = "exited"
=============================================================================
