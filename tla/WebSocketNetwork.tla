-------------------------- MODULE WebSocketNetwork --------------------------
(***************************************************************************)
(* The optional network frontend (js/network/index.ts, WebSocketNetwork)   *)
(* attached to a machine (NetworkPath).  Browser sockets are external: one *)
(* is connecting, open, closing after close() or closed, and its events    *)
(* come in the order the WebSocket standard gives them.  The handlers of a *)
(* socket that the client has let go of still run.  Every callback is one  *)
(* task of the JavaScript thread.                                          *)
(*                                                                         *)
(* The facade throws when its machine has been destroyed, which ends the   *)
(* handler that called it; the reconnection delay is left out.             *)
(***************************************************************************)
EXTENDS NetworkPath

CONSTANTS
  Sockets,   \* the socket objects; a closed one is used again
  None       \* no socket

ASSUME SocketAssumption == None \notin Sockets

VARIABLES
  attached,  \* the client has a runtime
  socket,    \* the client's current socket
  ready,     \* ready[s]: readyState
  stopped,   \* the client is not to reconnect
  timer      \* reconnectTimer is set

clientVars == <<attached, socket, ready, stopped, timer>>
vars == <<pathVars, clientVars>>

Task == phase = "idle"
Alive == vm # "empty"

\* Fault: the test is the wrong way round.
ScheduleReconnect_Inverted == timer' = stopped
ScheduleReconnect == timer' = (timer \/ ~stopped)

\* openSocket by a client that is not stopped, its timer being in state set;
\* the factory may throw, which schedules another attempt.
Opened(s, set) ==
  /\ ready[s] = "closed"
  /\ socket' = s
  /\ ready' = [ready EXCEPT ![s] = "connecting"]
  /\ timer' = set
NotOpened ==
  /\ timer' = TRUE
  /\ UNCHANGED <<socket, ready>>
OpenSocket(set) == (\E s \in Sockets : Opened(s, set)) \/ NotOpened

-----------------------------------------------------------------------------
(* The page.                                                               *)

Attach ==
  /\ Task
  /\ ~attached
  /\ attached' = TRUE
  /\ NetworkCarrier(FALSE) \/ (~Alive /\ UNCHANGED pathVars)
  /\ UNCHANGED <<socket, ready, stopped, timer>>

Connect ==
  /\ Task
  /\ attached
  /\ stopped /\ socket = None
  /\ stopped' = FALSE
  /\ OpenSocket(timer)
  /\ UNCHANGED <<pathVars, attached>>

\* close: the client's fields first, then the report, then the socket.
Closing(s) ==
  IF s # None /\ ready[s] \in {"connecting", "open"}
    THEN [ready EXCEPT ![s] = "closing"]
    ELSE ready

Close ==
  /\ Task
  /\ stopped' = TRUE
  /\ timer' = FALSE
  /\ socket' = None
  /\ \/ attached /\ NetworkCarrier(FALSE) /\ ready' = Closing(socket)
     \/ attached /\ ~Alive /\ UNCHANGED <<pathVars, ready>>
     \/ ~attached /\ UNCHANGED pathVars /\ ready' = Closing(socket)
  /\ UNCHANGED attached

-----------------------------------------------------------------------------
(* The events of socket s.                                                 *)

\* Fault: handlers do not ask whether the socket is still the current one.
Hears_Any(s) == TRUE
Hears(s) == socket = s /\ ~stopped

OnOpen(s) ==
  /\ Task
  /\ ready[s] = "connecting"
  /\ ready' = [ready EXCEPT ![s] = "open"]
  /\ \/ Hears(s) /\ (NetworkCarrier(TRUE) \/ (~Alive /\ UNCHANGED pathVars))
     \/ ~Hears(s) /\ UNCHANGED pathVars
  /\ UNCHANGED <<attached, socket, stopped, timer>>

\* A frame of a usable size is passed on; the facade drops it unless the
\* machine runs, and throws if there is none.
OnFrame(s) ==
  /\ Task
  /\ ready[s] = "open" /\ Hears(s)
  /\ \E size \in 1 .. MaxFrameSize : NetworkInput(size)
  /\ UNCHANGED clientVars

\* protocolError.
OnBadMessage(s) ==
  /\ Task
  /\ ready[s] = "open" /\ Hears(s)
  /\ \/ /\ NetworkCarrier(FALSE)
        /\ ready' = [ready EXCEPT ![s] = "closing"]
     \/ ~Alive /\ UNCHANGED <<pathVars, ready>>
  /\ UNCHANGED <<attached, socket, stopped, timer>>

\* The connection fails: the error event, to be followed by the close event.
OnError(s) ==
  /\ Task
  /\ ready[s] \in {"connecting", "open", "closing"}
  /\ ready' = [ready EXCEPT ![s] = "failed"]
  /\ \/ Hears(s) /\ (NetworkCarrier(FALSE) \/ (~Alive /\ UNCHANGED pathVars))
     \/ ~Hears(s) /\ UNCHANGED pathVars
  /\ UNCHANGED <<attached, socket, stopped, timer>>

OnClose(s) ==
  /\ Task
  /\ ready[s] \in {"open", "closing", "failed"}
  /\ ready' = [ready EXCEPT ![s] = "closed"]
  /\ \/ /\ socket = s
        /\ socket' = None
        /\ \/ NetworkCarrier(FALSE) /\ ScheduleReconnect
           \/ ~Alive /\ UNCHANGED <<pathVars, timer>>
     \/ socket # s /\ UNCHANGED <<pathVars, socket, timer>>
  /\ UNCHANGED <<attached, stopped>>

ReconnectTimer ==
  /\ Task
  /\ timer
  /\ IF stopped
       THEN timer' = FALSE /\ UNCHANGED <<socket, ready>>
       ELSE OpenSocket(FALSE)
  /\ UNCHANGED <<pathVars, attached, stopped>>

-----------------------------------------------------------------------------

Init ==
  /\ PathInit
  /\ attached = FALSE
  /\ socket = None
  /\ ready = [s \in Sockets |-> "closed"]
  /\ stopped = TRUE
  /\ timer = FALSE

SocketEvent(s) ==
  OnOpen(s) \/ OnFrame(s) \/ OnBadMessage(s) \/ OnError(s) \/ OnClose(s)

Next ==
  \/ MachineStep /\ UNCHANGED clientVars
  \/ Attach
  \/ Connect
  \/ Close
  \/ \E s \in Sockets : SocketEvent(s)
  \/ ReconnectTimer

Spec == Init /\ [][Next]_vars

-----------------------------------------------------------------------------
(* Properties.                                                             *)

\* The client's fields hold what their types say.
ClientTypeOK ==
  /\ PathTypeOK
  /\ socket \in Sockets \cup {None}
  /\ ready \in [Sockets -> {"connecting", "open", "closing", "failed", "closed"}]
  /\ {attached, stopped, timer} \subseteq BOOLEAN

\* "The client reports carrier up only while the WebSocket is open"
\* (js/network/README.md): the last report is up exactly as long as the
\* client's current socket is open, across reconnections, protocol errors,
\* and events of sockets it has let go of.
UpWhileOpen ==
  Alive => (reported <=> socket # None /\ ready[socket] = "open")

\* From the socket to the guest's driver, every stage has the state of the
\* link that the stage before it last told (the client's report, the device,
\* the driver).
LinkTruthful == UpWhileOpen /\ CarrierFollows

\* A client that has not been closed always has a socket or an attempt
\* scheduled, and never both; a socket it has let go of is closed or closing:
\* it cannot give up, nor keep two connections.
KeepsTrying ==
  /\ ~(timer /\ socket # None)
  /\ Alive /\ ~stopped => timer \/ socket # None
  /\ stopped => ~timer /\ socket = None
  /\ Alive => \A s \in Sockets \ {socket} : ready[s] \notin {"connecting", "open"}

\* "Stop reconnects, close the socket, and report carrier down" (API.md, of
\* close()): after it no socket is left open.
CloseClosesSocket ==
  stopped => \A s \in Sockets : ready[s] \notin {"connecting", "open"}

=============================================================================
