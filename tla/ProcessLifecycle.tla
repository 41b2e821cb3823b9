-------------------------- MODULE ProcessLifecycle --------------------------
(***************************************************************************)
(* How the two programs start, run and stop.  Each opens its resources in  *)
(* order and gives them back when a later one fails; then it runs an HTTP  *)
(* server (the deployer a queue consumer too) on goroutines that report on *)
(* buffered channels, until a signal, or the end of one of them, makes run *)
(* return; the deferred Close then releases what was opened.               *)
(***************************************************************************)
EXTENDS Naturals, Sequences

CONSTANTS
    Requests,   \* HTTP requests a server handles at the same time
    MaxFaults   \* bound on failures

ASSUME LifecycleAssumption == MaxFaults \in Nat

VARIABLES
    program,         \* which main runs
    pc,              \* where run is
    step,            \* the next step of New or NewDeployer
    open,            \* resources opened and not yet closed
    server,          \* the goroutine of ListenAndServe
    serverErrors,    \* its channel, of capacity 1
    consumer,        \* the goroutine of Deployer.Run
    consumerErrors,  \* its channel, of capacity 1
    requests,        \* requests being handled
    signalled,       \* SIGINT or SIGTERM has arrived
    cancelled,       \* the context of NotifyContext is done
    forced,          \* run returned without waiting for its goroutines
    exit,            \* the result of run
    faults           \* failures so far

work == <<server, serverErrors, consumer, consumerErrors, requests>>

vars == <<program, pc, step, open, work, signalled, cancelled, forced, exit, faults>>

Programs == {"api", "deployer"}

Resources == {"database", "cache", "queue", "chain"}

(* New and NewDeployer; building the storage clients and declaring the     *)
(* topology may fail and opens nothing that is closed later.               *)
StartupSteps(p) ==
    IF p = "api" THEN <<"database", "storage", "cache", "queue", "topology">>
                 ELSE <<"database", "queue", "topology", "chain">>

(* Close, and fail of either constructor. *)
(* Variant: the cache is left to the process's end. *)
CloseOrder_noCache(p) ==
    IF p = "api" THEN <<"queue", "database">> ELSE <<"chain", "queue", "database">>

CloseOrder(p) ==
    IF p = "api" THEN <<"queue", "cache", "database">>
                 ELSE <<"chain", "queue", "database">>

TypeOK ==
    /\ program \in Programs
    /\ pc \in {"starting", "select", "shutdown", "awaitConsumer", "awaitServer",
               "release", "ended"}
    /\ step \in 1 .. Len(StartupSteps(program)) + 1
    /\ open \in SUBSET Resources
    /\ server \in {"off", "listening", "ended"}
    /\ serverErrors \in {"empty", "closed", "error"}
    /\ consumer \in {"off", "waiting", "delivered", "handling", "ended"}
    /\ consumerErrors \in {"empty", "canceled", "error"}
    /\ requests \in SUBSET Requests
    /\ signalled \in BOOLEAN /\ cancelled \in BOOLEAN /\ forced \in BOOLEAN
    /\ exit \in {"none", "ok", "error"}
    /\ faults \in 0 .. MaxFaults

Init ==
    /\ program \in Programs
    /\ pc = "starting" /\ step = 1 /\ open = {}
    /\ server = "off" /\ serverErrors = "empty"
    /\ consumer = "off" /\ consumerErrors = "empty"
    /\ requests = {}
    /\ signalled = FALSE /\ cancelled = FALSE /\ forced = FALSE
    /\ exit = "none" /\ faults = 0

-----------------------------------------------------------------------------
Fault == faults < MaxFaults /\ faults' = faults + 1

(* run returns x: the deferred stopSignals cancels the context, the        *)
(* deferred Close comes next.                                              *)
Return(x) ==
    /\ pc' = "release"
    /\ exit' = x
    /\ cancelled' = TRUE

(***************************************************************************)
(* Start-up.                                                               *)
(***************************************************************************)
(* Variant: every constructed client is taken for an open resource. *)
Start_everyStep ==
    /\ pc = "starting" /\ step <= Len(StartupSteps(program))
    /\ open' = open \cup {StartupSteps(program)[step]}
    /\ step' = step + 1
    /\ UNCHANGED <<program, pc, work, signalled, cancelled, forced, exit, faults>>

Start ==
    /\ pc = "starting" /\ step <= Len(StartupSteps(program))
    /\ open' = open \cup (Resources \cap {StartupSteps(program)[step]})
    /\ step' = step + 1
    /\ UNCHANGED <<program, pc, work, signalled, cancelled, forced, exit, faults>>

(* fail: the step opens nothing, what is open is closed. *)
StartFails ==
    /\ Fault
    /\ pc = "starting" /\ step <= Len(StartupSteps(program))
    /\ Return("error")
    /\ UNCHANGED <<program, step, open, work, signalled, forced>>

(* The goroutines are started and run waits in its select. *)
Launch ==
    /\ pc = "starting" /\ step > Len(StartupSteps(program))
    /\ pc' = "select"
    /\ server' = "listening"
    /\ consumer' = IF program = "deployer" THEN "waiting" ELSE "off"
    /\ UNCHANGED <<program, step, open, serverErrors, consumerErrors, requests,
                   signalled, cancelled, forced, exit, faults>>

-----------------------------------------------------------------------------
(***************************************************************************)
(* The goroutines, until the process is gone.                              *)
(***************************************************************************)
Alive == pc # "ended"

others == <<program, pc, step, open, signalled, cancelled, forced, exit>>

AcceptRequest(h) ==
    /\ Alive /\ server = "listening"
    /\ h \notin requests
    /\ requests' = requests \cup {h}
    /\ UNCHANGED <<others, server, serverErrors, consumer, consumerErrors, faults>>

(* The handler returns, or panics and is recovered. *)
RequestEnds(h) ==
    /\ Alive /\ h \in requests
    /\ requests' = requests \ {h}
    /\ UNCHANGED <<others, server, serverErrors, consumer, consumerErrors, faults>>

(* The address is taken, or accepting fails. *)
ServerFails ==
    /\ Fault
    /\ Alive /\ server = "listening"
    /\ server' = "ended" /\ serverErrors' = "error"
    /\ UNCHANGED <<others, consumer, consumerErrors, requests>>

(* The broker sends a message; a cancelled context closes the channel. *)
Deliver ==
    /\ Alive /\ consumer = "waiting" /\ ~cancelled
    /\ consumer' = "delivered"
    /\ UNCHANGED <<others, server, serverErrors, consumerErrors, requests, faults>>

(* The select of runSession may take the delivery although ctx is done. *)
TakeDelivery ==
    /\ Alive /\ consumer = "delivered"
    /\ consumer' = "handling"
    /\ UNCHANGED <<others, server, serverErrors, consumerErrors, requests, faults>>

(* The handler is given ctx and has a confirm timeout of its own. *)
HandlerReturns ==
    /\ Alive /\ consumer = "handling"
    /\ consumer' = "waiting"
    /\ UNCHANGED <<others, server, serverErrors, consumerErrors, requests, faults>>

(* Run returns ctx.Err(). *)
ConsumerStops ==
    /\ Alive /\ consumer \in {"waiting", "delivered"} /\ cancelled
    /\ consumer' = "ended" /\ consumerErrors' = "canceled"
    /\ UNCHANGED <<others, server, serverErrors, requests, faults>>

(* Run returns any error but errConsumerRetry. *)
ConsumerFails ==
    /\ Fault
    /\ Alive /\ consumer = "waiting"
    /\ consumer' = "ended" /\ consumerErrors' = "error"
    /\ UNCHANGED <<others, server, serverErrors, requests>>

Signal ==
    /\ pc = "select" /\ ~signalled
    /\ signalled' = TRUE /\ cancelled' = TRUE
    /\ UNCHANGED <<program, pc, step, open, work, forced, exit, faults>>

-----------------------------------------------------------------------------
(***************************************************************************)
(* The select of run and what follows it.                                  *)
(***************************************************************************)
(* ListenAndServe has failed: before Shutdown it returns nothing else. *)
SelectServer ==
    /\ pc = "select" /\ serverErrors # "empty"
    /\ serverErrors' = "empty"
    /\ Return("error")
    /\ forced' = TRUE
    /\ UNCHANGED <<program, step, open, server, consumer, consumerErrors, requests,
                   signalled, faults>>

(* Variant: the result of the consumer is read at shutdown only. *)
SelectConsumer_atShutdown == FALSE /\ UNCHANGED vars

SelectConsumer ==
    /\ pc = "select" /\ consumerErrors # "empty"
    /\ consumerErrors' = "empty"
    /\ Return(IF consumerErrors = "canceled" THEN "ok" ELSE "error")
    /\ UNCHANGED <<program, step, open, server, serverErrors, consumer, requests,
                   signalled, forced, faults>>

(* server.Shutdown closes the listener, and ListenAndServe returns         *)
(* ErrServerClosed unless it has failed before.                            *)
SelectSignal ==
    /\ pc = "select" /\ signalled
    /\ pc' = "shutdown"
    /\ server' = "ended"
    /\ serverErrors' = IF server = "listening" THEN "closed" ELSE serverErrors
    /\ UNCHANGED <<program, step, open, consumer, consumerErrors, requests,
                   signalled, cancelled, forced, exit, faults>>

(* Variant: the deployer does not wait for the delivery in hand. *)
ShutdownDone_noConsumer ==
    /\ pc = "shutdown" /\ requests = {}
    /\ pc' = "awaitServer"
    /\ UNCHANGED <<program, step, open, work, signalled, cancelled, forced, exit, faults>>

ShutdownDone ==
    /\ pc = "shutdown" /\ requests = {}
    /\ pc' = IF program = "deployer" THEN "awaitConsumer" ELSE "awaitServer"
    /\ UNCHANGED <<program, step, open, work, signalled, cancelled, forced, exit, faults>>

(* Variant: Shutdown is given a context without a deadline. *)
ShutdownTimeout_never == FALSE /\ UNCHANGED vars

(* shutdownCtx expires first. *)
ShutdownTimeout ==
    /\ pc = "shutdown" /\ requests # {}
    /\ Return("error")
    /\ forced' = TRUE
    /\ UNCHANGED <<program, step, open, work, signalled, faults>>

AwaitConsumer ==
    /\ pc = "awaitConsumer" /\ consumerErrors # "empty"
    /\ consumerErrors' = "empty"
    /\ \/ consumerErrors = "error" /\ Return("error")
       \/ /\ consumerErrors = "canceled"
          /\ pc' = "awaitServer" /\ UNCHANGED <<exit, cancelled>>
    /\ UNCHANGED <<program, step, open, server, serverErrors, consumer, requests,
                   signalled, forced, faults>>

AwaitServer ==
    /\ pc = "awaitServer" /\ serverErrors # "empty"
    /\ serverErrors' = "empty"
    /\ Return(IF serverErrors = "closed" THEN "ok" ELSE "error")
    /\ UNCHANGED <<program, step, open, server, consumer, consumerErrors, requests,
                   signalled, forced, faults>>

(* One Close after the other, whatever the earlier ones returned; then     *)
(* main returns and takes every goroutine with it.                         *)
Release ==
    LET order == CloseOrder(program)
        left  == {i \in DOMAIN order : order[i] \in open} IN
    /\ pc = "release"
    /\ \/ \E i \in left : /\ \A j \in left : i <= j
                          /\ open' = open \ {order[i]}
                          /\ UNCHANGED pc
       \/ left = {} /\ pc' = "ended" /\ UNCHANGED open
    /\ UNCHANGED <<program, step, work, signalled, cancelled, forced, exit, faults>>

Ended == pc = "ended" /\ UNCHANGED vars

-----------------------------------------------------------------------------
Run ==
    \/ Start \/ Launch \/ SelectServer \/ SelectConsumer \/ SelectSignal
    \/ ShutdownDone \/ ShutdownTimeout \/ AwaitConsumer \/ AwaitServer \/ Release

Consume == TakeDelivery \/ HandlerReturns \/ ConsumerStops

Next ==
    \/ Run \/ Consume \/ Deliver \/ Signal
    \/ \E h \in Requests : AcceptRequest(h) \/ RequestEnds(h)
    \/ StartFails \/ ServerFails \/ ConsumerFails
    \/ Ended

Spec == Init /\ [][Next]_vars

(***************************************************************************)
(* The main goroutine and the consumer's are scheduled, and the timer of   *)
(* shutdownCtx fires.  Nothing obliges an HTTP handler to return.          *)
(***************************************************************************)
FairSpec == Spec /\ WF_vars(Run) /\ WF_vars(Consume)

-----------------------------------------------------------------------------
(***************************************************************************)
(* What a delivery, or an API request, is being handled with stays open    *)
(* until it has been handled, unless run had to return without waiting:    *)
(* the server failed or Shutdown reached its deadline.                     *)
(***************************************************************************)
OrderlyRelease ==
    /\ ~forced /\ pc # "ended"
    /\ consumer = "handling" \/ (program = "api" /\ requests # {})
    => \A i \in DOMAIN CloseOrder(program) : CloseOrder(program)[i] \in open

(***************************************************************************)
(* However run ends, at start-up or later, everything that had been opened *)
(* has been closed.                                                        *)
(***************************************************************************)
NothingLeftOpen == pc = "ended" => open = {}

(***************************************************************************)
(* A signal ends the process, even when an HTTP handler never returns.     *)
(***************************************************************************)
SignalEndsProcess == signalled ~> pc = "ended"

(***************************************************************************)
(* A process does not stay up, and look healthy, when the goroutine of its *)
(* server or of its consumer has returned.                                 *)
(***************************************************************************)
NoHalfDeadProcess == server = "ended" \/ consumer = "ended" ~> pc = "ended"
=============================================================================
