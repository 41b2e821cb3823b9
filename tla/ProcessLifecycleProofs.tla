----------------------- MODULE ProcessLifecycleProofs -----------------------
(* Both programs release what they opened, and not while it is in use. *)
EXTENDS ProcessLifecycle, TLAPS

(* What a program has opened once it is up. *)
Held == IF program = "api" THEN {"database", "cache", "queue"}
                           ELSE {"database", "queue", "chain"}

(* New opens its resources in order; nothing is opened that Close forgets. *)
Opened ==
    /\ open \subseteq Held
    /\ pc = "starting" =>
           \A i \in 1 .. step - 1 :
               StartupSteps(program)[i] \in Resources => StartupSteps(program)[i] \in open
    /\ pc \in {"select", "shutdown", "awaitConsumer", "awaitServer"} => open = Held
    /\ pc = "ended" => open = {}

(* Goroutines exist after Launch only, and report once they have ended. *)
Goroutines ==
    /\ pc = "starting" => server = "off" /\ consumer = "off"
    /\ server = "off" => requests = {}
    /\ program = "api" => consumer = "off"
    /\ consumerErrors # "empty" => consumer = "ended"

(* What run has waited for when it goes on. *)
Awaited ==
    /\ pc \in {"shutdown", "awaitConsumer", "awaitServer"} => server = "ended"
    /\ pc \in {"awaitConsumer", "awaitServer"} => requests = {}
    /\ pc = "awaitServer" => consumer \in {"off", "ended"}
    /\ pc = "release" /\ ~forced =>
           /\ consumer \in {"off", "ended"}
           /\ program = "api" => requests = {} /\ server # "listening"

IInv == TypeOK /\ Opened /\ Goroutines /\ Awaited

LEMMA CloseOrderCovers ==
    ASSUME program \in Programs
    PROVE  {CloseOrder(program)[i] : i \in DOMAIN CloseOrder(program)} = Held
  BY DEF CloseOrder, Held, Programs

LEMMA StartupCovers ==
    ASSUME program \in Programs
    PROVE  /\ Len(StartupSteps(program)) \in Nat
           /\ \A i \in 1 .. Len(StartupSteps(program)) :
                  StartupSteps(program)[i] \in Resources => StartupSteps(program)[i] \in Held
           /\ \A r \in Held : \E i \in 1 .. Len(StartupSteps(program)) :
                  StartupSteps(program)[i] = r
           /\ Held \subseteq Resources
  <1>1. CASE program = "api"
    BY <1>1 DEF StartupSteps, Held, Resources
  <1>2. CASE program = "deployer"
    BY <1>2 DEF StartupSteps, Held, Resources
  <1> QED BY <1>1, <1>2 DEF Programs

LEMMA LifecycleInit == Init => IInv
  <1> SUFFICES ASSUME Init PROVE IInv
    OBVIOUS
  <1>1. TypeOK
    <2>1. 1 \in 1 .. Len(StartupSteps(program)) + 1
      BY StartupCovers DEF Init
    <2>2. step \in 1 .. Len(StartupSteps(program)) + 1 /\ faults \in 0 .. MaxFaults
      BY <2>1, LifecycleAssumption DEF Init
    <2> QED BY <2>2, Zenon DEF Init, TypeOK
  <1>2. Opened
    BY DEF Init, Opened
  <1>3. Goroutines /\ Awaited
    BY DEF Init, Goroutines, Awaited
  <1> QED BY <1>1, <1>2, <1>3 DEF IInv

LEMMA StartStep == IInv /\ (Start \/ StartFails \/ Launch) => IInv'
  <1> SUFFICES ASSUME IInv, Start \/ StartFails \/ Launch PROVE IInv'
    OBVIOUS
  <1> USE DEF IInv
  <1>p. program \in Programs /\ program' = program /\ Held' = Held
        /\ StartupSteps(program)' = StartupSteps(program)
    BY DEF Start, StartFails, Launch, TypeOK, Held
  <1>1. CASE Start
    <2>1. TypeOK'
      BY <1>1, <1>p, StartupCovers DEF Start, TypeOK, work
    <2>2. Opened'
      BY <1>1, <1>p, StartupCovers DEF Start, TypeOK, Opened
    <2>3. Goroutines' /\ Awaited'
      BY <1>1, <1>p DEF Start, work, Goroutines, Awaited
    <2> QED BY <2>1, <2>2, <2>3
  <1>2. CASE StartFails
    <2>1. TypeOK'
      BY <1>2, <1>p, LifecycleAssumption DEF StartFails, Return, Fault, TypeOK, work
    <2>2. Opened'
      BY <1>2, <1>p DEF StartFails, Return, Opened
    <2>3. Goroutines' /\ Awaited'
      BY <1>2, <1>p DEF StartFails, Return, work, Goroutines, Awaited
    <2> QED BY <2>1, <2>2, <2>3
  <1>3. CASE Launch
    <2>1. TypeOK'
      BY <1>3, <1>p DEF Launch, TypeOK
    <2>2. Opened'
      <3>1. \A i \in 1 .. Len(StartupSteps(program)) :
                StartupSteps(program)[i] \in Resources => StartupSteps(program)[i] \in open
        BY <1>3, <1>p, StartupCovers DEF Launch, TypeOK, Opened
      <3>2. Held \subseteq open
        BY <3>1, <1>p, StartupCovers
      <3> QED BY <3>2, <1>3, <1>p DEF Launch, Opened
    <2>3. Goroutines' /\ Awaited'
      BY <1>3, <1>p DEF Launch, Goroutines, Awaited
    <2> QED BY <2>1, <2>2, <2>3
  <1> QED BY <1>1, <1>2, <1>3

LEMMA GoroutineStep ==
    ASSUME IInv,
           \/ \E h \in Requests : AcceptRequest(h) \/ RequestEnds(h)
           \/ ServerFails \/ Deliver \/ Consume \/ ConsumerFails \/ Signal
    PROVE  IInv'
  <1> USE DEF IInv
  <1>p. program \in Programs /\ program' = program /\ pc' = pc /\ open' = open /\ step' = step
        /\ Held' = Held /\ StartupSteps(program)' = StartupSteps(program) /\ forced' = forced
    BY DEF AcceptRequest, RequestEnds, ServerFails, Deliver, Consume, TakeDelivery,
       HandlerReturns, ConsumerStops, ConsumerFails, Signal, others, TypeOK, Held
  <1>o. Opened'
    BY <1>p DEF Opened
  <1>1. ASSUME NEW h \in Requests, AcceptRequest(h) \/ RequestEnds(h) PROVE IInv'
    <2>1. TypeOK'
      BY <1>1, <1>p DEF AcceptRequest, RequestEnds, others, TypeOK
    <2>2. Goroutines' /\ Awaited'
      BY <1>1, <1>p DEF AcceptRequest, RequestEnds, others, Goroutines, Awaited
    <2> QED BY <2>1, <2>2, <1>o
  <1>2. CASE ServerFails \/ Deliver \/ Consume \/ ConsumerFails
    <2>1. TypeOK'
      BY <1>2, <1>p, LifecycleAssumption DEF ServerFails, Deliver, Consume, TakeDelivery,
         HandlerReturns, ConsumerStops, ConsumerFails, Fault, others, TypeOK
    <2>2. Goroutines' /\ Awaited'
      BY <1>2, <1>p DEF ServerFails, Deliver, Consume, TakeDelivery, HandlerReturns,
         ConsumerStops, ConsumerFails, others, TypeOK, Goroutines, Awaited
    <2> QED BY <2>1, <2>2, <1>o
  <1>3. CASE Signal
    <2>1. TypeOK'
      BY <1>3, <1>p DEF Signal, work, TypeOK
    <2>2. Goroutines' /\ Awaited'
      BY <1>3, <1>p DEF Signal, work, Goroutines, Awaited
    <2> QED BY <2>1, <2>2, <1>o
  <1> QED BY <1>1, <1>2, <1>3

LEMMA RunStep ==
    ASSUME IInv,
           \/ SelectServer \/ SelectConsumer \/ SelectSignal \/ ShutdownDone
           \/ ShutdownTimeout \/ AwaitConsumer \/ AwaitServer
    PROVE  IInv'
  <1> USE DEF IInv
  <1>p. program \in Programs /\ program' = program /\ open' = open /\ step' = step
        /\ Held' = Held /\ StartupSteps(program)' = StartupSteps(program)
    BY DEF SelectServer, SelectConsumer, SelectSignal, ShutdownDone, ShutdownTimeout,
       AwaitConsumer, AwaitServer, TypeOK, Held
  <1>t. TypeOK'
    BY <1>p DEF SelectServer, SelectConsumer, SelectSignal, ShutdownDone, ShutdownTimeout,
       AwaitConsumer, AwaitServer, Return, work, TypeOK
  <1>o. Opened'
    BY <1>p DEF SelectServer, SelectConsumer, SelectSignal, ShutdownDone, ShutdownTimeout,
       AwaitConsumer, AwaitServer, Return, Opened
  <1>g. Goroutines'
    BY <1>p DEF SelectServer, SelectConsumer, SelectSignal, ShutdownDone, ShutdownTimeout,
       AwaitConsumer, AwaitServer, Return, work, Goroutines
  <1>a. Awaited'
    BY <1>p DEF SelectServer, SelectConsumer, SelectSignal, ShutdownDone, ShutdownTimeout,
       AwaitConsumer, AwaitServer, Return, work, TypeOK, Programs, Goroutines, Awaited
  <1> QED BY <1>t, <1>o, <1>g, <1>a

LEMMA ReleaseStep == IInv /\ Release => IInv'
  <1> SUFFICES ASSUME IInv, Release PROVE IInv'
    OBVIOUS
  <1> USE DEF IInv
  <1>p. program \in Programs /\ program' = program /\ Held' = Held
        /\ StartupSteps(program)' = StartupSteps(program) /\ open' \subseteq open
        /\ pc = "release" /\ pc' \in {"release", "ended"}
    BY DEF Release, TypeOK, Held
  <1>1. TypeOK'
    BY <1>p DEF Release, work, TypeOK
  <1>2. pc' = "ended" => open' = {}
    <2> SUFFICES ASSUME pc' = "ended" PROVE open' = {}
      OBVIOUS
    <2>1. open' = open /\ \A i \in DOMAIN CloseOrder(program) : CloseOrder(program)[i] \notin open
      BY <1>p DEF Release
    <2> QED BY <2>1, <1>p, CloseOrderCovers DEF Opened
  <1>3. Opened'
    BY <1>p, <1>2 DEF Opened
  <1>4. Goroutines' /\ Awaited'
    BY <1>p DEF Release, work, Goroutines, Awaited
  <1> QED BY <1>1, <1>3, <1>4

(***************************************************************************)
(* The invariant of main: what is open at each point of run, and which of  *)
(* its goroutines have ended.                                              *)
(***************************************************************************)
THEOREM LifecycleInvariant == Spec => []IInv
  <1>1. IInv /\ [Next]_vars => IInv'
    <2> SUFFICES ASSUME IInv, [Next]_vars PROVE IInv'
      OBVIOUS
    <2>1. CASE UNCHANGED vars
      BY <2>1 DEF vars, work, IInv, TypeOK, Opened, Held, Goroutines, Awaited
    <2>2. CASE Ended
      BY <2>1, <2>2 DEF Ended
    <2> QED BY <2>1, <2>2, StartStep, GoroutineStep, RunStep, ReleaseStep DEF Next, Run
  <1> QED BY <1>1, LifecycleInit, PTL DEF Spec

(***************************************************************************)
(* What main holds open, its goroutines, the requests and the delivery in  *)
(* flight are well typed at every point of run, whatever order the signal, *)
(* the failures and the second signal come in.                             *)
(***************************************************************************)
THEOREM LifecycleTypes == Spec => []TypeOK
  <1>1. IInv => TypeOK
    BY DEF IInv
  <1> QED BY <1>1, LifecycleInvariant, PTL

(***************************************************************************)
(* Close of either program never takes a resource from a delivery or an    *)
(* API request that is being handled, unless run was forced to return.     *)
(***************************************************************************)
THEOREM ReleaseIsOrderly == Spec => []OrderlyRelease
  <1>1. IInv => OrderlyRelease
    <2> SUFFICES ASSUME IInv, ~forced, pc # "ended",
                        consumer = "handling" \/ (program = "api" /\ requests # {})
                 PROVE  \A i \in DOMAIN CloseOrder(program) : CloseOrder(program)[i] \in open
      BY DEF OrderlyRelease
    <2>1. pc \notin {"starting", "release"}
      BY DEF IInv, Goroutines, Awaited
    <2>2. open = Held
      BY <2>1 DEF IInv, TypeOK, Opened
    <2> QED BY <2>2, CloseOrderCovers DEF IInv, TypeOK
  <1> QED BY <1>1, LifecycleInvariant, PTL

(***************************************************************************)
(* Whichever way run returned, a process that has ended has closed         *)
(* everything New or NewDeployer had opened.                               *)
(***************************************************************************)
THEOREM EverythingReleased == Spec => []NothingLeftOpen
  <1>1. IInv => NothingLeftOpen
    BY DEF IInv, Opened, NothingLeftOpen
  <1> QED BY <1>1, LifecycleInvariant, PTL
=============================================================================
