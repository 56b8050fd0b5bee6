------------------------------ MODULE PipeHost -------------------------------
(***************************************************************************)
(* The host side of the pipe: the commands of pipeDevice_doCommand          *)
(* (host-qemu/hw/android/pipe.c), dispatched to the service of the pipe, and *)
(* the steps of QEMU's main loop.  A service is either the connector every  *)
(* pipe starts with, which collects the service name the guest writes, or   *)
(* the net pipe that this name selects.                                     *)
(*                                                                          *)
(* Each command takes the status it leaves in the status register.          *)
(***************************************************************************)
EXTENDS NetPipe

hostVars == <<deviceVars, looperVars, netVars, sockVars>>

HostTypeOK == DeviceTypeOK /\ LooperTypeOK /\ NetTypeOK
HostInit == DeviceInit /\ LooperInit /\ NetInit

Statuses == {"OK", "EOF", "AGAIN", "IO", "INVAL"}

\* What doCommand answers without looking at the command: an unknown channel, or
\* a pipe the host has closed.
Rejected(c, st) ==
  \/ c \notin pipes /\ st = "INVAL"
  \/ c \in pipes /\ closed[c] /\ st = "IO"

Accepted(c) == c \in pipes /\ ~closed[c]

----------------------------------------------------------------------------
\* pipeConnector_sendBuffers.  The bytes are stored while the buffer has room
\* (a full buffer makes the status 0).  With the name complete, either it is
\* refused, or its service takes over the pipe.
ConnectorSend(c, st) ==
  \/ /\ st \in {"OK", "EOF", "INVAL"}
     /\ UNCHANGED hostVars
  \/ /\ st \in {"OK", "EOF"}
     /\ \E result \in ConnectResults \ {"error", "nosocket"} : NetInitOk(c, result)
     /\ funcs' = [funcs EXCEPT ![c] = "net"]
     /\ UNCHANGED <<pipes, wanted, closed, signaled, irq, gicPending, devWakes, bh>>
  \/ st = "INVAL" /\ NetInitNoSocket /\ UNCHANGED deviceVars

\* PIPE_CMD_WRITE_BUFFER.
CmdWrite(c, st) ==
  /\ BqlFree
  /\ \/ Rejected(c, st) /\ UNCHANGED hostVars
     \/ Accepted(c) /\ funcs[c] = "connector" /\ ConnectorSend(c, st)
     \/ /\ Accepted(c) /\ funcs[c] = "net" /\ NetSend(c, st)
        /\ UNCHANGED <<deviceVars, looperVars, netVars>>

\* PIPE_CMD_READ_BUFFER.  The connector has nothing to read.
CmdRead(c, st) ==
  /\ BqlFree
  /\ \/ Rejected(c, st) /\ UNCHANGED hostVars
     \/ Accepted(c) /\ funcs[c] = "connector" /\ st = "IO" /\ UNCHANGED hostVars
     \/ /\ Accepted(c) /\ funcs[c] = "net" /\ NetRecv(c, st)
        /\ UNCHANGED <<deviceVars, looperVars, netVars>>

\* PIPE_CMD_WAKE_ON_READ and PIPE_CMD_WAKE_ON_WRITE: the service is told only of
\* a direction that is not already wanted, and then of everything wanted.
CmdWakeOn(c, d) ==
  /\ BqlFree
  /\ \/ ~Accepted(c) /\ UNCHANGED hostVars
     \/ Accepted(c) /\ d \in wanted[c] /\ UNCHANGED hostVars
     \/ /\ Accepted(c) /\ d \notin wanted[c]
        /\ wanted' = [wanted EXCEPT ![c] = @ \cup {d}]
        /\ \/ funcs[c] = "connector" /\ UNCHANGED <<netVars, looperVars>>
           \/ funcs[c] = "net" /\ NetWakeOn(c, wanted[c] \cup {d}) /\ UNCHANGED bh
        /\ UNCHANGED <<pipes, funcs, closed, signaled, irq, gicPending, devWakes, sockVars>>

\* PIPE_CMD_CLOSE: unlink the pipe; pipe_free calls the service's close.
CmdClose(c) ==
  /\ BqlFree
  /\ c \in pipes
  /\ UnlinkPipe(c)
  /\ \/ funcs[c] = "connector" /\ UNCHANGED <<netVars, sockVars, looperVars>>
     \/ funcs[c] = "net" /\ NetClose(c) /\ UNCHANGED bh

----------------------------------------------------------------------------
(* The main loop and the environment.                                       *)

\* qemu_iohandler_poll: the socket is ready, QEMU calls the handler set on it.  The
\* poll and the call are one step: a socket drained in between makes a call to no use.
FdHandler(c, d) ==
  /\ IF d = "READ" THEN Readable(c) ELSE Writable(c)
  /\ HandleFd(c, d)
  /\ UNCHANGED <<deviceVars, netVars, sockVars>>

BhStep ==
  /\ BhEnter \/ BhExit
  /\ UNCHANGED <<deviceVars, netVars, sockVars>>

IoFunc(c) == IoFuncConnected(c) \/ IoFuncRefused(c) \/ IoFuncEvents(c) \/ IoFuncNullPipe(c)

Peer(c) ==
  /\ ConnectEnds(c) \/ PeerSends(c) \/ PeerReceives(c) \/ PeerCloses(c)
  /\ UNCHANGED <<deviceVars, looperVars, netVars>>
=============================================================================
