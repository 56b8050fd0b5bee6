------------------------------- MODULE NetPipe -------------------------------
(***************************************************************************)
(* The network pipe service, host-qemu/android/hw-pipe-net.c, with the      *)
(* asynchronous connector of host-qemu/android/async-utils.c it starts.     *)
(* It stands between the device (whose operations it calls to wake or close *)
(* a pipe) and the looper (whose io it arms).                               *)
(*                                                                          *)
(* The socket is the environment: its connection state, whether bytes wait  *)
(* to be received, and whether its send buffer is full.                     *)
(***************************************************************************)
EXTENDS PipeDevice, QLooper

CONSTANTS
  ConnectResults,        \* what socket_create and connect() may answer; an "error" makes
                         \* the init fail, like any other reason to refuse the service
  AsyncOutcomes,         \* how a connection in progress may end
  Hangups                \* the channels whose peer may close the connection

ASSUME ConnectAssumption ==
  /\ ConnectResults \subseteq {"complete", "inprogress", "error", "nosocket"}
  /\ AsyncOutcomes \subseteq {"up", "refused"}
  /\ Hangups \subseteq Chan

VARIABLES
  npState,               \* [Chan -> NetStates]: NetPipe.state, "NONE" if there is no NetPipe
  hwpipe,                \* [Chan -> BOOLEAN]: NetPipe.hwpipe # NULL
  wakeWanted,            \* [Chan -> SUBSET WakeFlags]: NetPipe.wakeWanted
  sock,                  \* [Chan -> SockStates]: the connection
  rx,                    \* [Chan -> BOOLEAN]: bytes wait in the receive buffer
  txFull                 \* [Chan -> BOOLEAN]: the send buffer is full

netVars == <<npState, hwpipe, wakeWanted>>
sockVars == <<sock, rx, txFull>>

NetStates == {"NONE", "CONNECTING", "CONNECTED", "CLOSING_SOCKET"}
SockStates == {"none", "connecting", "up", "refused", "hup"}

NetTypeOK ==
  /\ npState \in [Chan -> NetStates]
  /\ hwpipe \in [Chan -> BOOLEAN]
  /\ wakeWanted \in [Chan -> SUBSET WakeFlags]
  /\ sock \in [Chan -> SockStates]
  /\ rx \in [Chan -> BOOLEAN]
  /\ txFull \in [Chan -> BOOLEAN]

NetInit ==
  /\ npState = [c \in Chan |-> "NONE"]
  /\ hwpipe = [c \in Chan |-> FALSE]
  /\ wakeWanted = [c \in Chan |-> {}]
  /\ sock = [c \in Chan |-> "none"]
  /\ rx = [c \in Chan |-> FALSE]
  /\ txFull = [c \in Chan |-> FALSE]

----------------------------------------------------------------------------
(* The socket, driven by the peer and the network.                          *)

Readable(c) == sock[c] \in {"refused", "hup"} \/ (sock[c] = "up" /\ rx[c])
Writable(c) == sock[c] \in {"refused", "hup"} \/ (sock[c] = "up" /\ ~txFull[c])

\* A connection attempt in progress ends.
ConnectEnds(c) ==
  /\ sock[c] = "connecting"
  /\ \E s \in AsyncOutcomes : sock' = [sock EXCEPT ![c] = s]
  /\ UNCHANGED <<rx, txFull>>

\* The peer sends.
PeerSends(c) ==
  /\ sock[c] = "up"
  /\ ~rx[c]
  /\ rx' = [rx EXCEPT ![c] = TRUE]
  /\ UNCHANGED <<sock, txFull>>

\* The peer receives, which frees room in the send buffer.
PeerReceives(c) ==
  /\ sock[c] = "up"
  /\ txFull[c]
  /\ txFull' = [txFull EXCEPT ![c] = FALSE]
  /\ UNCHANGED <<sock, rx>>

\* The peer closes the connection.
PeerCloses(c) ==
  /\ c \in Hangups
  /\ sock[c] = "up"
  /\ sock' = [sock EXCEPT ![c] = "hup"]
  /\ UNCHANGED <<rx, txFull>>

----------------------------------------------------------------------------
(* Functions of the service.                                                *)

\* Mutant: netPipe_resetState that never waits for read events.
ResetStateNoRead(io, state, ww) ==
  DontWant(IF "WRITE" \in ww THEN Want(io, "WRITE") ELSE DontWant(io, "WRITE"), "READ")

\* netPipe_resetState: write events are wanted in every state the guest wants
\* them, read events only when connected.
ResetState(io, state, ww) ==
  LET io1 == IF "WRITE" \in ww THEN Want(io, "WRITE") ELSE DontWant(io, "WRITE")
  IN  IF state = "CONNECTED" /\ "READ" \in ww THEN Want(io1, "READ") ELSE DontWant(io1, "READ")

\* Mutant: a connect that completes at once leaves the state at STATE_INIT.
NetInitOkStays(c, result) ==
  /\ npState' = [npState EXCEPT ![c] = IF result = "complete" THEN "INIT" ELSE "CONNECTING"]
  /\ hwpipe' = [hwpipe EXCEPT ![c] = TRUE]
  /\ wakeWanted' = [wakeWanted EXCEPT ![c] = {}]
  /\ sock' = [sock EXCEPT ![c] = IF result = "complete" THEN "up" ELSE "connecting"]
  /\ rx' = [rx EXCEPT ![c] = FALSE]
  /\ txFull' = [txFull EXCEPT ![c] = FALSE]
  /\ SetIo(c, [wanted |-> IF result = "complete" THEN {} ELSE {"WRITE"}, ready |-> {}])

\* netPipe_initFromAddress after socket_create: asyncConnector_init tries to
\* connect once, and waits for the socket to become writable if that is not
\* immediate.  An error frees the NetPipe again.
NetInitOk(c, result) ==
  /\ npState' = [npState EXCEPT ![c] = IF result = "complete" THEN "CONNECTED" ELSE "CONNECTING"]
  /\ hwpipe' = [hwpipe EXCEPT ![c] = TRUE]
  /\ wakeWanted' = [wakeWanted EXCEPT ![c] = {}]
  /\ sock' = [sock EXCEPT ![c] = IF result = "complete" THEN "up" ELSE "connecting"]
  /\ rx' = [rx EXCEPT ![c] = FALSE]
  /\ txFull' = [txFull EXCEPT ![c] = FALSE]
  /\ SetIo(c, [wanted |-> IF result = "complete" THEN {} ELSE {"WRITE"}, ready |-> {}])

\* socket_create fails: netPipe_free calls loopIo_done on an io that was never
\* initialised and has no class, and QEMU is gone.
NetInitNoSocket ==
  /\ "nosocket" \in ConnectResults
  /\ bh' = "crashed"
  /\ UNCHANGED <<ioWanted, ioReady, ioPending, netVars, sockVars>>

\* netPipe_closeFromGuest: netPipe_free.
NetClose(c) ==
  /\ npState' = [npState EXCEPT ![c] = "NONE"]
  /\ hwpipe' = [hwpipe EXCEPT ![c] = FALSE]
  /\ wakeWanted' = [wakeWanted EXCEPT ![c] = {}]
  /\ sock' = [sock EXCEPT ![c] = "none"]
  /\ rx' = [rx EXCEPT ![c] = FALSE]
  /\ txFull' = [txFull EXCEPT ![c] = FALSE]
  /\ FreeIo(c)

\* Mutant: netPipe_wakeOn without netPipe_resetState.
NetWakeOnNoReset(c, flags) ==
  /\ wakeWanted' = [wakeWanted EXCEPT ![c] = @ \cup flags]
  /\ UNCHANGED <<npState, hwpipe, ioWanted, ioReady, ioPending>>

\* netPipe_wakeOn.
NetWakeOn(c, flags) ==
  /\ wakeWanted' = [wakeWanted EXCEPT ![c] = @ \cup flags]
  /\ SetIo(c, ResetState(Io(c), npState[c], wakeWanted[c] \cup flags))
  /\ UNCHANGED <<npState, hwpipe>>

\* netPipeReadySend: "READY" when the socket may be tried.
ReadySend(c) ==
  CASE npState[c] = "CONNECTED"  -> "READY"
    [] npState[c] = "CONNECTING" -> "AGAIN"
    [] OTHER                     -> IF hwpipe[c] THEN "IO" ELSE "INVAL"

\* netPipe_sendBuffers.  A send that takes bytes may fill the socket's buffer;
\* one after the peer closed may still be accepted by the local end.
NetSend(c, st) ==
  /\ IF ReadySend(c) # "READY"
     THEN st = ReadySend(c) /\ UNCHANGED txFull
     ELSE \/ sock[c] = "up" /\ ~txFull[c] /\ st = "OK"
             /\ \E full \in BOOLEAN : txFull' = [txFull EXCEPT ![c] = full]
          \/ sock[c] = "up" /\ txFull[c] /\ st = "AGAIN" /\ UNCHANGED txFull
          \/ sock[c] = "hup" /\ st \in {"OK", "IO"} /\ UNCHANGED txFull
  /\ UNCHANGED <<sock, rx>>

\* netPipe_recvBuffers, in any state of the connection.  A receive takes some
\* or all of the bytes that wait; the end of the stream is an error.
NetRecv(c, st) ==
  /\ \/ rx[c] /\ st = "OK" /\ \E more \in BOOLEAN : rx' = [rx EXCEPT ![c] = more]
     \/ ~rx[c] /\ sock[c] \in {"connecting", "up"} /\ st = "AGAIN" /\ UNCHANGED rx
     \/ ~rx[c] /\ sock[c] \in {"refused", "hup"} /\ st = "IO" /\ UNCHANGED rx
  /\ UNCHANGED <<sock, txFull>>

----------------------------------------------------------------------------
(* netPipe_io_func, the callback of the looper, by its cases.  The bottom   *)
(* half has cleared the ready flags of the io and passes them as events.    *)

\* State CONNECTING: asyncConnector_run stops waiting and reads the socket error.
ConnectorIo(c) == DontWant(Popped(c), "WRITE")

\* No error: the connection is established, the io is armed for what the guest
\* already waits for.
IoFuncConnected(c) ==
  /\ BhPop(c)
  /\ npState[c] = "CONNECTING"
  /\ sock[c] # "refused"
  /\ npState' = [npState EXCEPT ![c] = "CONNECTED"]
  /\ SetIo(c, ResetState(ConnectorIo(c), "CONNECTED", wakeWanted[c]))
  /\ UNCHANGED <<bh, deviceVars, hwpipe, wakeWanted, sockVars>>

\* An error: netPipe_closeFromSocket closes the pipe, forgets it and resets the io.
IoFuncRefused(c) ==
  /\ BhPop(c)
  /\ npState[c] = "CONNECTING"
  /\ sock[c] \in {"refused", "hup"}
  /\ IF hwpipe[c] THEN QemuPipeClose(c) ELSE UNCHANGED deviceVars
  /\ hwpipe' = [hwpipe EXCEPT ![c] = FALSE]
  /\ npState' = [npState EXCEPT ![c] = "CLOSING_SOCKET"]
  /\ SetIo(c, ResetState(ConnectorIo(c), "CLOSING_SOCKET", wakeWanted[c]))
  /\ UNCHANGED <<bh, wakeWanted, sockVars>>

\* Any other state: wake the guest for the events it wants, once.
EventWakes(c) == ioReady[c] \cap wakeWanted[c]

IoFuncEvents(c) ==
  /\ BhPop(c)
  /\ npState[c] # "CONNECTING"
  /\ hwpipe[c] \/ EventWakes(c) = {}
  /\ IF EventWakes(c) = {} THEN UNCHANGED deviceVars ELSE QemuPipeWake(c, EventWakes(c))
  /\ wakeWanted' = [wakeWanted EXCEPT ![c] = @ \ EventWakes(c)]
  /\ SetIo(c, ResetState(Popped(c), npState[c], wakeWanted[c] \ EventWakes(c)))
  /\ UNCHANGED <<bh, npState, hwpipe, sockVars>>

\* The same with hwpipe NULL: qemu_pipe_wake dereferences it, and QEMU is gone.
IoFuncNullPipe(c) ==
  /\ BhPop(c)
  /\ npState[c] # "CONNECTING"
  /\ ~hwpipe[c] /\ EventWakes(c) # {}
  /\ bh' = "crashed"
  /\ UNCHANGED <<ioWanted, ioReady, ioPending, deviceVars, netVars, sockVars>>
=============================================================================
