---------------------- MODULE TransportLifecycle_proofs ----------------------
(* Theorems about TransportLifecycle, for any number of calls of Stop, made *)
(* at any time, by other threads or by the signal handler.                  *)
EXTENDS TransportLifecycle, TLAPS

(***************************************************************************)
(* The inductive invariant.  Once a disconnection or an error is recorded  *)
(* anywhere (in the event being handled, the transport's state, its error, *)
(* the local variable of Run) the library's connection is closed, which it *)
(* stays, and the listener either knows or is about to be told.            *)
(***************************************************************************)
Closed == strophe = "closed"

EventIsTrue ==
    /\ runPc = "disconnectHandler" => Closed
    /\ runPc = "notify" => \/ change = [state |-> "connected", error |-> "none"]
                           \/ Closed /\ change.state \in {"disconnected", "error"}

RecordIsTrue ==
    /\ m_connection_state \in {"disconnected", "error"} => Closed /\ notified # "connected"
    /\ m_connection_error # "none" => Closed /\ notified # "connected"
    /\ m_connection_state = "uninitialized" => notified = "uninitialized"

RunIsTrue ==
    /\ m_initialized <=> strophe # "idle"
    /\ runPc \in {"poll", "pump", "disconnectHandler", "notify", "readError"} =>
         m_initialized
    /\ strophe = "idle" => notified = "uninitialized"
    /\ runPc \in {"start", "runOnce"} => runError = "none"
    /\ runPc \in {"readState", "returned"} /\ runError # "none" =>
         strophe \notin Live /\ notified # "connected"
    /\ runPc = "returned" => strophe \notin Live /\ notified # "connected"

LoginIsNotBlamed ==
    runPc = "notify" /\ change.error = "auth_failure" => notified # "connected"

IInv == TypeOK /\ EventIsTrue /\ RecordIsTrue /\ RunIsTrue /\ LoginIsNotBlamed

(* The initial state satisfies it and every step keeps it, action by       *)
(* action.                                                                 *)
LEMMA IInvInductive == Spec => []IInv
<1>1. Init => IInv
  <2> SUFFICES ASSUME Init PROVE IInv
    OBVIOUS
  <2>1. TypeOK
    <3>1. keepalive_counter \in 0 .. NextKeepalive
      BY ConstantsAssumption DEF Init
    <3>2. QED BY <3>1 DEF Init, TypeOK, Library, RunPC, StopPC, ConnectionState, ConnectionError
  <2>2. EventIsTrue /\ RecordIsTrue /\ RunIsTrue /\ LoginIsNotBlamed
    BY DEF Init, EventIsTrue, RecordIsTrue, RunIsTrue, LoginIsNotBlamed, Closed, Live
  <2>3. QED BY <2>1, <2>2 DEF IInv
<1>2. IInv /\ [Next]_vars => IInv'
  <2> SUFFICES ASSUME IInv, [Next]_vars PROVE IInv'
    OBVIOUS
  <2> USE ConstantsAssumption
  <2> USE DEF IInv, TypeOK, EventIsTrue, RecordIsTrue, RunIsTrue, LoginIsNotBlamed,
              Closed, Live, Library, RunPC, StopPC, ConnectionState, ConnectionError,
              runVars, library, state, RunUnlocks
  <2>1. ASSUME RunLock PROVE IInv'
    BY <2>1 DEF RunLock
  <2>2. ASSUME Start PROVE IInv'
    BY <2>2 DEF Start
  <2>3. ASSUME RunOnce PROVE IInv'
    <3>1. /\ runPc = "runOnce" /\ runError = "none"
          /\ UNCHANGED <<state, m_mtx, change, keepalive_counter, stopPc, closing, notified>>
      BY <2>3 DEF RunOnce
    <3>2. CASE m_initialized /\ runPc' = "poll" /\ UNCHANGED <<runError, m_initialized, strophe>>
      BY <3>1, <3>2
    <3>3. CASE /\ ~m_initialized /\ strophe' = "connecting" /\ m_initialized' = TRUE
               /\ runPc' = "poll" /\ UNCHANGED runError
      BY <3>1, <3>3
    <3>4. CASE /\ ~m_initialized /\ runError' = "unknown" /\ runPc' = "readState"
               /\ UNCHANGED <<m_initialized, strophe>>
      BY <3>1, <3>4
    <3>5. QED BY <2>3, <3>2, <3>3, <3>4 DEF RunOnce
  <2>4. ASSUME Poll PROVE IInv'
    <3>1. keepalive_counter' \in 0 .. NextKeepalive
      BY <2>4 DEF Poll
    <3>2. UNCHANGED <<state, runError, change, m_initialized, stopPc, library, notified>>
      BY <2>4 DEF Poll
    <3>3. m_mtx' = Nobody /\ runPc' \in {"readError", "pump"} /\ runPc = "poll"
      BY <2>4 DEF Poll
    <3>4. QED BY <3>1, <3>2, <3>3
  <2>5. ASSUME PumpNothing PROVE IInv'
    BY <2>5 DEF PumpNothing, Pumped
  <2>6. ASSUME PumpOpen PROVE IInv'
    BY <2>6 DEF PumpOpen, Pumped
  <2>7. ASSUME PumpLogin PROVE IInv'
    BY <2>7 DEF PumpLogin, Pumped
  <2>8. ASSUME PumpDisconnect PROVE IInv'
    BY <2>8 DEF PumpDisconnect, Pumped
  <2>9. ASSUME PumpFail PROVE IInv'
    BY <2>9 DEF PumpFail, Pumped
  <2>10. ASSUME DisconnectHandler PROVE IInv'
    BY <2>10 DEF DisconnectHandler
  <2>11. ASSUME Notify PROVE IInv'
    BY <2>11 DEF Notify
  <2>12. ASSUME ReadError PROVE IInv'
    BY <2>12 DEF ReadError
  <2>13. ASSUME ReadState PROVE IInv'
    BY <2>13 DEF ReadState
  <2>14. ASSUME NEW s \in Stops, CallStop(s) PROVE IInv'
    BY <2>14 DEF CallStop
  <2>15. ASSUME NEW s \in Stops, SetDisconnecting(s) PROVE IInv'
    BY <2>15 DEF SetDisconnecting
  <2>16. ASSUME NEW s \in Stops, StopImpl(s) PROVE IInv'
    BY <2>16 DEF StopImpl
  <2>17. CASE UNCHANGED vars
    BY <2>17 DEF vars
  <2>18. QED
    BY <2>1, <2>2, <2>3, <2>4, <2>5, <2>6, <2>7, <2>8, <2>9, <2>10, <2>11, <2>12, <2>13,
       <2>14, <2>15, <2>16, <2>17 DEF Next, RunStep, StopStep
<1>3. QED BY <1>1, <1>2, PTL DEF Spec

(* Every variable keeps its type; the keepalive counter never passes its   *)
(* limit.                                                                  *)
THEOREM TypeCorrect == Spec => []TypeOK
<1>1. IInv => TypeOK
  BY DEF IInv
<1>2. QED BY <1>1, IInvInductive, PTL

(* Run, and so the connector's Start, returns only when the library's      *)
(* connection is dead, so that no handler runs on a deleted connector.     *)
THEOREM ReturnIsSafe == Spec => []RunEndsDead
<1>1. IInv => RunEndsDead
  BY DEF IInv, RunIsTrue, RunEndsDead, Returned
<1>2. QED BY <1>1, IInvInductive, PTL

(* The listener has been told of the end of a connection before Run        *)
(* returns.                                                                *)
THEOREM LossReported == Spec => []LossIsReported
<1>1. IInv => LossIsReported
  BY DEF IInv, RunIsTrue, LossIsReported, Returned
<1>2. QED BY <1>1, IInvInductive, PTL

(* From the moment the listener is told of a login to the end of the       *)
(* connection, a disconnection is never recorded as a failed login.        *)
THEOREM LoginRemembered == Spec => LoginIsRemembered
<1>1. IInv /\ [Next]_vars => [notified = "connected" => m_connection_error' # "auth_failure"]_vars
  <2> SUFFICES ASSUME IInv, Next, notified = "connected"
               PROVE  m_connection_error' # "auth_failure"
    OBVIOUS
  <2> USE DEF IInv, RecordIsTrue, LoginIsNotBlamed
  <2>1. m_connection_error = "none"
    OBVIOUS
  <2>2. CASE Notify
    BY <2>2 DEF Notify
  <2>3. CASE ~Notify
    <3>1. m_connection_error' = m_connection_error
      BY <2>3 DEF Next, RunStep, StopStep, RunLock, Start, RunOnce, Poll, PumpNothing,
         PumpOpen, PumpLogin, PumpDisconnect, PumpFail, Pumped, DisconnectHandler,
         ReadError, ReadState, CallStop, SetDisconnecting, StopImpl, state
    <3>2. QED BY <2>1, <3>1
  <2>4. QED BY <2>2, <2>3
<1>2. QED BY <1>1, IInvInductive, PTL DEF Spec, LoginIsRemembered
=============================================================================
