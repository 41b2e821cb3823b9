-------------------------- MODULE QueueClientProofs --------------------------
(***************************************************************************)
(* Proofs about QueueClient, for any set of consumers, any number of       *)
(* connections and any number of faults.                                   *)
(*                                                                         *)
(* NoDanglingConnection is not inductive: Swap replaces conn, so the proof *)
(* must know that the connection it replaces is not open, which follows    *)
(* from where the loop is (Redialling), and CloseShut must close the       *)
(* connection that is current, which follows from Closing: once closed is  *)
(* set nobody changes conn.  NoLostWakeup needs in addition what a         *)
(* consumer knows between reading Conn() and asking it whether it is       *)
(* closed (Wakeable).                                                      *)
(***************************************************************************)
EXTENDS QueueClient, TLAPS

(* Close's steps: its connection is the current one from CloseMark on. *)
Closing ==
    /\ closed <=> closer.pc # "none"
    /\ closed => closer.conn = conn /\ subs = {}

(* The loop redials only after the current connection is gone; the number  *)
(* of the current connection is never dialled again.                       *)
Redialling ==
    /\ link[conn] # "none"
    /\ loop.pc = "swap" => link[loop.new] # "none"
    /\ loop.pc \in {"delay", "dial", "swap"} => ~IsOpen(conn)

(* A consumer without a notice has read the current connection, or waits   *)
(* while it is down, or its notice is coming.                              *)
Wakeable ==
    \A c \in Consumers : c \in subs /\ ~notify[c] =>
        /\ consumers[c].pc \in {"checkConn", "checkRetry"} =>
               consumers[c].conn = conn \/ loop.pc = "notify"
        /\ At(c, "wait") => ~IsOpen(conn) \/ loop.pc = "notify"

IInv == TypeOK /\ Closing /\ Redialling /\ NoDanglingConnection /\ Wakeable

-----------------------------------------------------------------------------
(* The initial state, one open connection and nobody waiting, satisfies    *)
(* the invariant.                                                          *)
LEMMA InitInv == Init => IInv
<1> SUFFICES ASSUME Init PROVE IInv
  OBVIOUS
<1>1. 1 \in Links
  BY ClientAssumption DEF Links
<1>2. TypeOK
  BY <1>1 DEF Init, TypeOK
<1>3. Closing /\ Wakeable
  BY DEF Init, Closing, Wakeable, At
<1>4. Redialling /\ NoDanglingConnection
  BY <1>1 DEF Init, Redialling, NoDanglingConnection, IsOpen
<1> QED BY <1>2, <1>3, <1>4 DEF IInv

(* Every step of the reconnect loop preserves the invariant. *)
LEMMA LoopInv == ASSUME IInv, LoopStep \/ DialFails PROVE IInv'
<1> USE DEF IInv, IsOpen, At
<1>1. CASE Register \/ SeeDrop \/ SeeClose \/ Timer \/ DialFails
  <2>1. TypeOK'
    BY <1>1 DEF TypeOK, Register, SeeDrop, SeeClose, Timer, DialFails, LoopTo, OnlyLoop, client, Fault
  <2>2. Closing' /\ Redialling' /\ NoDanglingConnection' /\ Wakeable'
    BY <1>1 DEF TypeOK, Closing, Redialling, NoDanglingConnection, Wakeable,
       Register, SeeDrop, SeeClose, Timer, DialFails, LoopTo, OnlyLoop, client
  <2> QED BY <2>1, <2>2
<1>2. CASE DialOK
  <2>1. PICK n \in Links :
          /\ link[n] = "none"
          /\ \/ link' = [link EXCEPT ![n] = "open"] /\ loop' = [pc |-> "swap", new |-> n]
             \/ link' = [link EXCEPT ![n] = "closed"] /\ loop' = [pc |-> "exited", new |-> n]
    BY <1>2 DEF DialOK
  <2>2. TypeOK'
    BY <1>2, <2>1 DEF TypeOK, DialOK, client
  <2>3. n # conn
    BY <2>1 DEF Redialling
  <2>4. Closing' /\ Redialling' /\ NoDanglingConnection'
    BY <1>2, <2>1, <2>3 DEF TypeOK, Closing, Redialling, NoDanglingConnection, DialOK, client
  <2>5. Wakeable'
    BY <1>2, <2>1, <2>3 DEF TypeOK, Wakeable, DialOK, client
  <2> QED BY <2>2, <2>4, <2>5
<1>3. CASE Swap
  <2>1. TypeOK'
    BY <1>3 DEF TypeOK, Swap, LoopTo
  <2>2. Closing'
    BY <1>3 DEF TypeOK, Closing, Swap, LoopTo
  <2>3. Redialling' /\ NoDanglingConnection' /\ Wakeable'
    <3>1. CASE closed
      BY <1>3, <3>1 DEF TypeOK, Closing, Redialling, NoDanglingConnection, Wakeable, Swap, LoopTo
    <3>2. CASE ~closed
      <4>1. conn' = loop.new /\ link' = link /\ loop'.pc = "notify" /\ closer.pc = "none"
            /\ closer' = closer /\ UNCHANGED <<subs, notify, consumers>>
        BY <1>3, <3>2 DEF TypeOK, Closing, Swap, LoopTo
      <4>2. \A n \in Links : IsOpen(n) => n = loop.new
        BY <1>3 DEF Redialling, NoDanglingConnection, Swap
      <4>3. link[loop.new] # "none"
        BY <1>3 DEF Redialling, Swap
      <4> QED BY <4>1, <4>2, <4>3 DEF TypeOK, Redialling, NoDanglingConnection, Wakeable
    <3> QED BY <3>1, <3>2
  <2> QED BY <2>1, <2>2, <2>3
<1>4. CASE notifyReconnect
  BY <1>4 DEF TypeOK, Closing, Redialling, NoDanglingConnection, Wakeable,
     notifyReconnect, LoopTo, client
<1> QED BY <1>1, <1>2, <1>3, <1>4 DEF LoopStep

(* Every step of Close preserves the invariant. *)
LEMMA CloseInv == ASSUME IInv, CloseMark \/ CloseSignal \/ CloseShut PROVE IInv'
<1> USE DEF IInv, IsOpen, At
<1>1. CASE CloseMark
  BY <1>1 DEF TypeOK, Closing, Redialling, NoDanglingConnection, Wakeable, CloseMark
<1>2. CASE CloseSignal
  BY <1>2 DEF TypeOK, Closing, Redialling, NoDanglingConnection, Wakeable, CloseSignal
<1>3. CASE CloseShut
  <2>1. closer.conn = conn /\ subs = {}
    BY <1>3 DEF Closing, CloseShut
  <2> QED
    BY <1>3, <2>1 DEF TypeOK, Closing, Redialling, NoDanglingConnection, Wakeable, CloseShut, client
<1> QED BY <1>1, <1>2, <1>3

(* Every step of a consumer preserves the invariant. *)
LEMMA ConsumerInv ==
    ASSUME IInv, NEW c \in Consumers,
           \/ Stop(c) \/ ReadConn(c) \/ CheckConn(c) \/ Notified(c) \/ ClientClosed(c)
           \/ Establish(c) \/ EstablishUnavailable(c) \/ EstablishRefused(c)
           \/ DeliveriesClosed(c) \/ TakeDelivery(c) \/ HandlerEnds(c)
           \/ ChannelLost(c)
    PROVE  IInv'
<1> USE DEF IInv, IsOpen, At, ConsumerTo, EndSession, OnlyConsumers, client
<1>1. UNCHANGED <<link, conn, closed, done, subs, loop, closer, cancelled>>
  BY DEF Stop, ReadConn, CheckConn, Notified, ClientClosed, Establish,
     EstablishUnavailable, EstablishRefused, DeliveriesClosed, TakeDelivery,
     HandlerEnds, ChannelLost
<1>2. Closing' /\ Redialling' /\ NoDanglingConnection'
  BY <1>1 DEF Closing, Redialling, NoDanglingConnection
<1>3. TypeOK' /\ Wakeable'
  <2>1. CASE Stop(c) \/ ClientClosed(c)
    BY <1>1, <2>1 DEF TypeOK, Wakeable, Stop, ClientClosed
  <2>2. CASE ReadConn(c)
    <3>1. PICK pc \in {"checkConn", "checkRetry"} :
             consumers' = [consumers EXCEPT ![c] = [@ EXCEPT !.pc = pc, !.conn = conn]]
      BY <2>2 DEF TypeOK, ReadConn
    <3>2. UNCHANGED <<notify, faults>>
      BY <2>2 DEF ReadConn
    <3>3. TypeOK'
      BY <1>1, <3>1, <3>2 DEF TypeOK
    <3>4. Wakeable'
      BY <1>1, <3>1, <3>2 DEF TypeOK, Wakeable
    <3> QED BY <3>3, <3>4
  <2>3. CASE CheckConn(c)
    <3>1. PICK pc \in {"wait", "establish", "connect"} :
             /\ consumers' = [consumers EXCEPT ![c] = [@ EXCEPT !.pc = pc, !.channel = FALSE]]
             /\ pc = "wait" => ~IsOpen(consumers[c].conn)
      BY <2>3 DEF TypeOK, CheckConn
    <3>2. UNCHANGED <<notify, faults>> /\ consumers[c].pc \in {"checkConn", "checkRetry"}
      BY <2>3 DEF CheckConn
    <3>3. TypeOK'
      BY <1>1, <3>1, <3>2 DEF TypeOK
    <3>4. Wakeable'
      BY <1>1, <3>1, <3>2 DEF TypeOK, Wakeable
    <3> QED BY <3>3, <3>4
  <2>4. CASE Notified(c)
    BY <1>1, <2>4 DEF TypeOK, Wakeable, Notified
  <2>5. CASE Establish(c)
    <3>1. PICK ch \in BOOLEAN :
             consumers' = [consumers EXCEPT ![c] = [@ EXCEPT !.pc = "consume", !.channel = ch]]
      <4>1. (~cancelled) \in BOOLEAN
        OBVIOUS
      <4> QED BY <2>5, <4>1 DEF TypeOK, Establish
    <3>2. UNCHANGED <<notify, faults>>
      BY <2>5 DEF Establish
    <3>3. TypeOK'
      BY <1>1, <3>1, <3>2 DEF TypeOK
    <3>4. Wakeable'
      BY <1>1, <3>1, <3>2 DEF TypeOK, Wakeable
    <3> QED BY <3>3, <3>4
  <2>6. CASE DeliveriesClosed(c)
    <3>1. PICK pc \in {"returned", "retry"} :
             consumers' = [consumers EXCEPT ![c] = [@ EXCEPT !.pc = pc, !.channel = FALSE]]
      BY <2>6 DEF TypeOK, DeliveriesClosed
    <3>2. UNCHANGED <<notify, faults>>
      BY <2>6 DEF DeliveriesClosed
    <3>3. TypeOK'
      BY <1>1, <3>1, <3>2 DEF TypeOK
    <3>4. Wakeable'
      BY <1>1, <3>1, <3>2 DEF TypeOK, Wakeable
    <3> QED BY <3>3, <3>4
  <2>7. CASE TakeDelivery(c) \/ HandlerEnds(c)
    BY <1>1, <2>7 DEF TypeOK, Wakeable, TakeDelivery, HandlerEnds
  <2>8. CASE EstablishUnavailable(c) \/ EstablishRefused(c) \/ ChannelLost(c)
    <3>1. TypeOK'
      <4>1. faults' \in Nat
        BY <2>8 DEF TypeOK, EstablishUnavailable, EstablishRefused, ChannelLost, Fault
      <4>2. UNCHANGED notify
        BY <2>8 DEF EstablishUnavailable, EstablishRefused, ChannelLost
      <4>3. PICK r \in {[consumers[c] EXCEPT !.pc = "retry"], [consumers[c] EXCEPT !.pc = "returned"],
                        [consumers[c] EXCEPT !.channel = FALSE]} :
               consumers' = [consumers EXCEPT ![c] = r]
        BY <2>8 DEF TypeOK, EstablishUnavailable, EstablishRefused, ChannelLost
      <4> QED BY <1>1, <4>1, <4>2, <4>3 DEF TypeOK
    <3>2. Wakeable'
      BY <1>1, <2>8 DEF TypeOK, Wakeable, EstablishUnavailable, EstablishRefused, ChannelLost
    <3> QED BY <3>1, <3>2
  <2> QED BY <2>1, <2>2, <2>3, <2>4, <2>5, <2>6, <2>7, <2>8
<1> QED BY <1>2, <1>3

(* What happens from outside preserves the invariant. *)
LEMMA OutsideInv ==
    ASSUME IInv, (\E n \in Links : Drop(n)) \/ Cancel \/ Terminated
    PROVE  IInv'
<1> USE DEF IInv, IsOpen, At, client
<1>1. CASE \E n \in Links : Drop(n)
  BY <1>1 DEF TypeOK, Closing, Redialling, NoDanglingConnection, Wakeable, Drop
<1>2. CASE Cancel
  <2>1. TypeOK'
    BY <1>2 DEF TypeOK, Cancel
  <2>2. Closing' /\ Redialling' /\ NoDanglingConnection'
    BY <1>2 DEF Closing, Redialling, NoDanglingConnection, Cancel
  <2>3. Wakeable'
    BY <1>2 DEF TypeOK, Wakeable, Cancel
  <2> QED BY <2>1, <2>2, <2>3
<1>3. CASE Terminated
  BY <1>3 DEF Terminated, vars, TypeOK, Closing, Redialling, NoDanglingConnection, Wakeable
<1> QED BY <1>1, <1>2, <1>3

-----------------------------------------------------------------------------
(* The invariant holds in every reachable state of the queue client. *)
THEOREM ClientInvariance == Spec => []IInv
<1>1. IInv /\ [Next]_vars => IInv'
  <2> SUFFICES ASSUME IInv, [Next]_vars PROVE IInv'
    OBVIOUS
  <2>1. CASE UNCHANGED vars
    BY <2>1 DEF IInv, vars, client, TypeOK, Closing, Redialling, NoDanglingConnection,
       Wakeable, IsOpen, At
  <2>2. CASE Next
    BY <2>2, LoopInv, CloseInv, ConsumerInv, OutsideInv DEF Next
  <2> QED BY <2>1, <2>2
<1> QED BY InitInv, <1>1, PTL DEF Spec

(* The variables of the client, its loop, Close and its consumers keep     *)
(* their types; in particular q.conn is always a connection.               *)
THEOREM ClientTypeCorrect == Spec => []TypeOK
  BY ClientInvariance, PTL DEF IInv

(* No interleaving of Close with a reconnect leaves a connection open that *)
(* nobody will close.                                                      *)
THEOREM NothingDangles == Spec => []NoDanglingConnection
  BY ClientInvariance, PTL DEF IInv

(* No consumer waits for a notice it has missed, however many consumers    *)
(* share the client and however often it reconnects.                       *)
THEOREM WakeupsArrive == Spec => []NoLostWakeup
<1>1. IInv => NoLostWakeup
  BY DEF IInv, Wakeable, NoLostWakeup
<1> QED BY ClientInvariance, <1>1, PTL
=============================================================================
