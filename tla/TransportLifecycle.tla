-------------------------- MODULE TransportLifecycle --------------------------
(***************************************************************************)
(* The connection to the XMPP server.  One thread, the main thread, runs   *)
(* Transport::Run: it polls libstrophe, whose event handlers are called    *)
(* from the poll, and looks at the connection state to see when to stop.   *)
(* Stop is called on another thread (the configuration service asked for a *)
(* restart) or in the SIGINT handler, which interrupts the main thread.    *)
(* A handler that reads the state twice in a row is one step here, the one *)
(* of its last read: between the reads only Stop can have changed it.      *)
(***************************************************************************)
EXTENDS Naturals

CONSTANTS
    ThreadStops,     \* calls of Stop made on other threads
    SignalStops,     \* calls of Stop made by the signal handler
    Run,             \* the main thread, as the holder of a mutex
    Nobody,          \* the value of a mutex nobody holds
    LinkFails,       \* TRUE: the connection may fail or be closed by the server
    StopAnyTime,     \* FALSE: Stop is called only while logged in
    NextKeepalive    \* polls between two keepalive packets (60000 in the code)

Stops == ThreadStops \cup SignalStops

ASSUME ConstantsAssumption ==
    /\ ThreadStops \cap SignalStops = {}
    /\ Run \notin Stops /\ Nobody \notin Stops \cup {Run}
    /\ LinkFails \in BOOLEAN /\ StopAnyTime \in BOOLEAN
    /\ NextKeepalive \in Nat \ {0}

ConnectionState == {"uninitialized", "connected", "disconnected", "disconnecting", "error"}
ConnectionError == {"none", "unknown", "auth_failure"}

(* libstrophe's connection: TCP connecting, stream negotiation, logged in. *)
Library == {"idle", "connecting", "open", "online", "closed"}
Live    == {"connecting", "open", "online"}

RunPC  == {"start", "runOnce", "poll", "pump", "disconnectHandler", "notify",
           "readError", "readState", "returned"}
StopPC == {"idle", "called", "set", "done"}

VARIABLES
    m_connection_state, m_connection_error, m_mtx, m_initialized,
    runPc,             \* where the main thread is
    runError,          \* Run's local variable error
    change,            \* the arguments of GlobalConnectionStateChanged
    keepalive_counter,
    stopPc,            \* where each call of Stop is
    strophe,           \* external: the state of libstrophe's connection
    closing,           \* external: xmpp_disconnect has ended the stream
    notified           \* the last state the listener was told of

runVars == <<runPc, runError, change, keepalive_counter, m_initialized>>
library == <<strophe, closing>>
state   == <<m_connection_state, m_connection_error>>
vars    == <<state, m_mtx, runVars, stopPc, library, notified>>

Init ==
    /\ m_connection_state = "uninitialized"
    /\ m_connection_error = "none"
    /\ m_mtx = Nobody
    /\ m_initialized = FALSE
    /\ runPc = "start"
    /\ runError = "none"
    /\ change = [state |-> "uninitialized", error |-> "none"]
    /\ keepalive_counter = 0
    /\ stopPc = [s \in Stops |-> "idle"]
    /\ strophe = "idle"
    /\ closing = FALSE
    /\ notified = "uninitialized"

-----------------------------------------------------------------------------
(* The signal handler runs on the main thread, which stands still.         *)
Interrupted == \E s \in SignalStops : stopPc[s] \in {"called", "set"}

(* LOCK and UNLOCK around each access of the main thread to the state.     *)
RunLock ==
    /\ ~Interrupted
    /\ runPc \in {"poll", "disconnectHandler", "notify", "readError", "readState"}
    /\ m_mtx = Nobody
    /\ m_mtx' = Run
    /\ UNCHANGED <<state, runVars, stopPc, library, notified>>

RunUnlocks == ~Interrupted /\ m_mtx = Run /\ m_mtx' = Nobody

(* XMPPConnector::Start enters the loop of Transport::Run.                 *)
Start ==
    /\ ~Interrupted
    /\ runPc = "start"
    /\ runPc' = "runOnce"
    /\ UNCHANGED <<state, m_mtx, runError, change, keepalive_counter, m_initialized,
                   stopPc, library, notified>>

(* The first RunOnce connects; if it cannot, it returns at once.           *)
RunOnce ==
    /\ ~Interrupted
    /\ runPc = "runOnce"
    /\ \/ /\ m_initialized
          /\ runPc' = "poll"
          /\ UNCHANGED <<runError, m_initialized, strophe>>
       \/ /\ ~m_initialized
          /\ strophe' = "connecting"
          /\ m_initialized' = TRUE
          /\ runPc' = "poll"
          /\ UNCHANGED runError
       \/ /\ ~m_initialized /\ LinkFails
          /\ runError' = "unknown"
          /\ runPc' = "readState"
          /\ UNCHANGED <<m_initialized, strophe>>
    /\ UNCHANGED <<state, m_mtx, change, keepalive_counter, stopPc, closing, notified>>

(* Mutant: the counter is not reset when a keepalive has been sent.        *)
PollNoReset ==
    /\ runPc = "poll"
    /\ RunUnlocks
    /\ runPc' = IF m_connection_state = "disconnected" THEN "readError" ELSE "pump"
    /\ keepalive_counter' =
         IF m_connection_state # "connected" THEN keepalive_counter
         ELSE keepalive_counter + 1
    /\ UNCHANGED <<state, runError, change, m_initialized, stopPc, library, notified>>

(* A keepalive is due every NextKeepalive polls of a connected transport;  *)
(* a disconnected one is not polled.                                       *)
Poll ==
    /\ runPc = "poll"
    /\ RunUnlocks
    /\ runPc' = IF m_connection_state = "disconnected" THEN "readError" ELSE "pump"
    /\ keepalive_counter' =
         IF m_connection_state # "connected" THEN keepalive_counter
         ELSE IF keepalive_counter >= NextKeepalive THEN 1 ELSE keepalive_counter + 1
    /\ UNCHANGED <<state, runError, change, m_initialized, stopPc, library, notified>>

-----------------------------------------------------------------------------
(* xmpp_run_once: what libstrophe may do in one poll (external).           *)

Pumped(label) ==
    /\ ~Interrupted
    /\ runPc = "pump"
    /\ runPc' = label
    /\ UNCHANGED <<state, m_mtx, runError, keepalive_counter, m_initialized,
                   stopPc, closing, notified>>

PumpNothing == Pumped("readError") /\ UNCHANGED <<strophe, change>>

PumpOpen ==
    /\ strophe = "connecting"
    /\ strophe' = "open"
    /\ Pumped("readError")
    /\ UNCHANGED change

PumpLogin ==
    /\ strophe = "open"
    /\ strophe' = "online"
    /\ Pumped("notify")
    /\ change' = [state |-> "connected", error |-> "none"]

PumpDisconnect ==
    /\ strophe \in Live
    /\ LinkFails \/ closing
    /\ strophe' = "closed"
    /\ Pumped("disconnectHandler")
    /\ UNCHANGED change

PumpFail ==
    /\ strophe \in {"connecting", "open"} /\ LinkFails
    /\ strophe' = "closed"
    /\ Pumped("notify")
    /\ change' = [state |-> "error", error |-> "unknown"]

-----------------------------------------------------------------------------
(* Mutant: every disconnection nobody asked for is a failed login.         *)
DisconnectHandlerBlamesLogin ==
    /\ runPc = "disconnectHandler"
    /\ RunUnlocks
    /\ change' = [state |-> "disconnected",
                  error |-> IF m_connection_state = "disconnecting"
                            THEN "none" ELSE "auth_failure"]
    /\ runPc' = "notify"
    /\ UNCHANGED <<state, runError, keepalive_counter, m_initialized, stopPc, library, notified>>

(* XmppConnectionHandler takes a disconnection before any login for a      *)
(* failed authentication.                                                  *)
DisconnectHandler ==
    /\ runPc = "disconnectHandler"
    /\ RunUnlocks
    /\ change' = [state |-> "disconnected",
                  error |-> IF m_connection_state = "uninitialized"
                            THEN "auth_failure" ELSE "none"]
    /\ runPc' = "notify"
    /\ UNCHANGED <<state, runError, keepalive_counter, m_initialized, stopPc, library, notified>>

(* Mutant: only errors and logins are reported.                            *)
NotifyErrorsOnly ==
    /\ runPc = "notify"
    /\ RunUnlocks
    /\ m_connection_state' = change.state
    /\ m_connection_error' = change.error
    /\ notified' = IF change.state = "connected" \/ change.error # "none"
                   THEN change.state ELSE notified
    /\ runPc' = "readError"
    /\ UNCHANGED <<runError, change, keepalive_counter, m_initialized, stopPc, library>>

(* GlobalConnectionStateChanged sets state and error and tells the         *)
(* listener, which reports to the gateway.                                 *)
Notify ==
    /\ runPc = "notify"
    /\ RunUnlocks
    /\ m_connection_state' = change.state
    /\ m_connection_error' = change.error
    /\ notified' = change.state
    /\ runPc' = "readError"
    /\ UNCHANGED <<runError, change, keepalive_counter, m_initialized, stopPc, library>>

ReadError ==
    /\ runPc = "readError"
    /\ RunUnlocks
    /\ runError' = m_connection_error
    /\ runPc' = "readState"
    /\ UNCHANGED <<state, change, keepalive_counter, m_initialized, stopPc, library, notified>>

(* Mutant: the loop looks at the state alone.                              *)
ReadStateOnly ==
    /\ runPc = "readState"
    /\ RunUnlocks
    /\ runPc' = IF m_connection_state # "disconnected" THEN "runOnce" ELSE "returned"
    /\ UNCHANGED <<state, runError, change, keepalive_counter, m_initialized,
                   stopPc, library, notified>>

(* The condition of the loop in Transport::Run.                            *)
ReadState ==
    /\ runPc = "readState"
    /\ RunUnlocks
    /\ runPc' = IF m_connection_state # "disconnected" /\ runError = "none"
                THEN "runOnce" ELSE "returned"
    /\ UNCHANGED <<state, runError, change, keepalive_counter, m_initialized,
                   stopPc, library, notified>>

-----------------------------------------------------------------------------
(* Transport::Stop.                                                        *)

CallStop(s) ==
    /\ stopPc[s] = "idle"
    /\ StopAnyTime \/ m_connection_state = "connected"
    /\ s \in SignalStops => ~Interrupted
    /\ stopPc' = [stopPc EXCEPT ![s] = "called"]
    /\ UNCHANGED <<state, m_mtx, runVars, library, notified>>

(* Mutant: Stop marks the connection as disconnected already.              *)
SetDisconnectedAtOnce(s) ==
    /\ stopPc[s] = "called"
    /\ m_mtx = Nobody
    /\ m_connection_state' = "disconnected"
    /\ stopPc' = [stopPc EXCEPT ![s] = "set"]
    /\ UNCHANGED <<m_connection_error, m_mtx, runVars, library, notified>>

(* SetConnectionState(disconnecting), whatever the state was.              *)
SetDisconnecting(s) ==
    /\ stopPc[s] = "called"
    /\ m_mtx = Nobody
    /\ m_connection_state' = "disconnecting"
    /\ stopPc' = [stopPc EXCEPT ![s] = "set"]
    /\ UNCHANGED <<m_connection_error, m_mtx, runVars, library, notified>>

(* xmpp_disconnect does nothing unless the library is connecting or        *)
(* connected.                                                              *)
StopImpl(s) ==
    /\ stopPc[s] = "set"
    /\ closing' = (closing \/ strophe \in Live)
    /\ stopPc' = [stopPc EXCEPT ![s] = "done"]
    /\ UNCHANGED <<state, m_mtx, runVars, strophe, notified>>

-----------------------------------------------------------------------------
RunStep ==
    \/ RunLock \/ Start \/ RunOnce \/ Poll
    \/ PumpNothing \/ PumpOpen \/ PumpLogin \/ PumpDisconnect \/ PumpFail
    \/ DisconnectHandler \/ Notify \/ ReadError \/ ReadState

StopStep(s) == SetDisconnecting(s) \/ StopImpl(s)

Next == RunStep \/ \E s \in Stops : CallStop(s) \/ StopStep(s)

Spec == Init /\ [][Next]_vars

(* Threads run; a lock that is free again and again is obtained; and once  *)
(* the stream has been ended libstrophe's two-second timer closes the      *)
(* connection.                                                             *)
Fairness ==
    /\ WF_vars(RunStep) /\ SF_vars(RunLock)
    /\ \A s \in Stops : WF_vars(StopStep(s)) /\ SF_vars(SetDisconnecting(s))
    /\ SF_vars(closing /\ PumpDisconnect)

FairSpec == Spec /\ Fairness

-----------------------------------------------------------------------------
(* The values each variable may take.                                      *)
TypeOK ==
    /\ m_connection_state \in ConnectionState
    /\ m_connection_error \in ConnectionError
    /\ m_mtx \in {Nobody, Run}
    /\ m_initialized \in BOOLEAN
    /\ runPc \in RunPC
    /\ runError \in ConnectionError
    /\ change \in [state : ConnectionState, error : ConnectionError]
    /\ keepalive_counter \in 0 .. NextKeepalive
    /\ stopPc \in [Stops -> StopPC]
    /\ strophe \in Library
    /\ closing \in BOOLEAN
    /\ notified \in ConnectionState

Returned == runPc = "returned"

(* Run never returns, and the connector is never deleted, with a live      *)
(* connection whose handlers could still be called.                        *)
RunEndsDead == Returned => strophe \notin Live

(* When Run returns, the gateway has not been left believing that the      *)
(* connection is up.                                                       *)
LossIsReported == Returned => notified # "connected"

(* Once the connection is up no later event is taken for a login failure.  *)
LoginIsRemembered ==
    [][notified = "connected" => m_connection_error' # "auth_failure"]_vars

Quiet(S) == \A s \in S : stopPc[s] = "idle"

(* Run returns.  The one call of Stop on another thread that has ended the *)
(* stream makes it, whatever the link does at the same time, unless a      *)
(* second Stop is called, by another thread or by the signal handler: its  *)
(* state overwrites the disconnection before the loop has read it.  And a  *)
(* connection that ends by itself makes it, at any stage, unless a Stop    *)
(* interferes in the same way.                                             *)
RunReturns ==
    /\ \A s \in ThreadStops :
         stopPc[s] = "done" /\ closing ~> Returned \/ ~Quiet(Stops \ {s})
    /\ strophe = "closed" ~> Returned \/ ~Quiet(Stops)
=============================================================================
