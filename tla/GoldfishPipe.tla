---------------------------- MODULE GoldfishPipe -----------------------------
(***************************************************************************)
(* The whole pipe: guest threads, guest interrupt handler, device, service, *)
(* looper and the peer of the socket.                                       *)
(***************************************************************************)
EXTENDS QemuPipeDriver

vars == <<hostVars, driverVars>>

TypeOK == HostTypeOK /\ DriverTypeOK

Init == HostInit /\ DriverInit

Guest ==
  \/ \E c \in Chan : Open(c) \/ Release(c)
  \/ \E t \in Thread, c \in Chan, d \in Dirs : Call(t, c, d)
  \/ \E t \in Thread : ReadWrite(t)
  \/ Isr

\* Steps of QEMU's main loop and of the environment.
HostBh == BhStep /\ UNCHANGED driverVars
HostFd(c, d) == FdHandler(c, d) /\ UNCHANGED driverVars
HostIoFunc(c) == IoFunc(c) /\ UNCHANGED driverVars
HostPeer(c) == Peer(c) /\ UNCHANGED driverVars

Host ==
  \/ HostBh
  \/ \E c \in Chan : HostIoFunc(c) \/ HostPeer(c) \/ \E d \in Dirs : HostFd(c, d)

Next == Guest \/ Host

Spec == Init /\ [][Next]_vars

----------------------------------------------------------------------------
(* Fairness: QEMU's main loop polls every descriptor and runs a scheduled   *)
(* bottom half; the guest takes its interrupt and runs its threads.  The    *)
(* locks these wait for (the global mutex, the device's ticket spinlock,    *)
(* the pipe's FIFO mutex) are fair, hence the strong fairness.  Nothing is   *)
(* assumed of the peer, of signals, or of threads that are in user space.   *)

Fairness ==
  /\ WF_vars(HostBh \/ \E c \in Chan : HostIoFunc(c))
  /\ \A c \in Chan, d \in Dirs : SF_vars(HostFd(c, d))
  /\ SF_vars(Isr)
  /\ \A t \in Readers \cup Writers : SF_vars(Runs(t))

FairSpec == Spec /\ Fairness

----------------------------------------------------------------------------
(* Safety.                                                                  *)

\* The wake-up of direction d of pipe c is registered with the device, or in the
\* hands of the interrupt handler.
Covered(c, d) ==
  \/ {d, "CLOSED"} \cap wanted[c] # {}
  \/ isrChan = c /\ {d, "CLOSED"} \cap devWakes # {}

\* A thread has set the wake bit d of pipe c and is about to tell the device.
Registering(c, d) ==
  \E t \in Thread : file[t] = c /\ dir[t] = d /\ pc[t] = "wakeon"

\* Guest and device: a wake bit stays set only while something will clear it, the
\* thread that set it is about to register it, or the close was already seen.
WakeBitCovered ==
  \A c \in radix, d \in Dirs :
    d \in flags[c] => Covered(c, d) \/ Registering(c, d) \/ "CLOSED" \in flags[c]

\* Device and service: a wake direction that the guest has registered on a working
\* net pipe is known to the service, or its wake-up is already on the signalled list.
RegistrationKept ==
  \A c \in pipes : funcs[c] = "net" /\ ~closed[c] =>
    wanted[c] \cap Dirs \subseteq wakeWanted[c] \/ c \in signaled

\* The interrupt handler runs, or the controller will have the guest call it.
InterruptDue == gicPending \/ devLock

\* A thread between its WAKE_ON command and the end of its wait, wake bit set.
Blocked(t) ==
  pc[t] \in {"unlockwait", "test", "sleep"} /\ WakeBit(t) \in flags[file[t]]

\* No lost wake-up, through all four components: a guest thread that is blocked, on
\* a pipe whose close it has not been told of, is still going to be woken.  Its wake
\* bit is about to be registered by another thread, or is in the hands of the
\* interrupt handler, or its pipe is signalled and the handler runs or is going to (a
\* line that is merely high does not call it), or the service wants to wake it and
\* the descriptor is watched for its direction (while the socket is still connecting,
\* a read is only remembered by the service).
NoLostWakeup ==
  \A t \in Thread : Blocked(t) =>
    LET c == file[t]
        d == WakeBit(t)
    IN  \/ "CLOSED" \in flags[c]
        \/ Registering(c, d)
        \/ isrChan = c /\ {d, "CLOSED"} \cap devWakes # {}
        \/ c \in signaled /\ InterruptDue /\ {d, "CLOSED"} \cap wanted[c] # {}
        \/ /\ d \in wakeWanted[c]
           /\ d \in ioWanted[c] \/ (npState[c] = "CONNECTING" /\ d = "READ")

\* qemu_pipe_close is not lost: the guest has been told of the close, is being
\* told, or the pipe is signalled with the flag that tells it.
CloseReported ==
  \A c \in pipes : closed[c] =>
    \/ "CLOSED" \in flags[c]
    \/ isrChan = c /\ "CLOSED" \in devWakes
    \/ c \in signaled /\ "CLOSED" \in wanted[c]

\* The interrupt handler never meets a channel the guest has released, and an open
\* never meets one the device still has: the two "already closed" / "could not
\* open" paths of the driver cannot be taken.
NoStaleChannel ==
  /\ isrChan # NoChan => isrChan \in radix
  /\ signaled \subseteq radix
  /\ pipes = radix

\* The inductive invariant behind NoLostWakeup, CloseReported and NoStaleChannel.
\* Guest and host agree on the open pipes, and nothing refers to another one.
Wiring ==
  /\ NoStaleChannel
  /\ isrChan # NoChan => devLock
  /\ \A t \in Thread : pc[t] # "idle" => file[t] \in radix
  /\ \A t \in Thread : pc[t] \in {"setbit", "wakeon"} => funcs[file[t]] = "net"
  /\ \A c \in Chan :
       /\ funcs[c] = "net" <=> npState[c] # "NONE"
       /\ c \notin pipes => funcs[c] = "connector"

\* Device: a signalled pipe keeps the line high, and with KVM's controller the
\* interrupt due; a connector pipe is never waited
\* for or closed; the close flag is only ever pending on a closed, signalled pipe.
DeviceInv ==
  /\ signaled # {} => irq
  /\ InKernelGic /\ signaled # {} => InterruptDue
  /\ \A c \in Chan :
       /\ funcs[c] = "connector" => wanted[c] = {} /\ ~closed[c]
       /\ "CLOSED" \in wanted[c] => closed[c] /\ c \in signaled

\* Service: the state of the connection agrees with the pipe, and a connected
\* socket is watched for exactly what the service wants to wake the guest for.
ServiceInv ==
  \A c \in Chan :
    /\ hwpipe[c] <=> npState[c] \in {"CONNECTING", "CONNECTED"}
    /\ hwpipe[c] => ~closed[c]
    /\ npState[c] = "CLOSING_SOCKET" => closed[c]
    /\ wakeWanted[c] \subseteq Dirs
    /\ npState[c] = "CONNECTED" => ioWanted[c] = wakeWanted[c]
    /\ npState[c] = "CONNECTING" /\ "WRITE" \in wakeWanted[c] => "WRITE" \in ioWanted[c]

\* IndInv is kept by every step of the pipe, from any state that satisfies it.
IndInv ==
  /\ TypeOK
  /\ Wiring
  /\ DeviceInv
  /\ ServiceInv
  /\ RegistrationKept
  /\ WakeBitCovered
  /\ CloseReported

\* Looper: an io with an undelivered event is on the pending list, still wants one
\* of its events, belongs to a live net pipe, and a bottom half is due for it; no
\* fd handler outlives its net pipe.
PendingServed ==
  /\ ioPending = {c \in Chan : ioReady[c] # {}}
  /\ \A c \in ioPending : ioReady[c] \cap ioWanted[c] # {} /\ npState[c] # "NONE"
  /\ ioPending # {} => bh # "idle"
  /\ \A c \in Chan : npState[c] = "NONE" => ioWanted[c] = {}

----------------------------------------------------------------------------
(* Liveness.                                                                *)

\* A thread blocked in a read of a connected pipe leaves its wait when the socket has
\* something for it, or QEMU is gone (NeverNullPipe).
ReaderServed ==
  \A t \in Readers, c \in Chan :
    (pc[t] = "sleep" /\ dir[t] = "READ" /\ file[t] = c /\ npState[c] = "CONNECTED" /\ Readable(c))
      ~> (pc[t] # "sleep" \/ ~Readable(c) \/ bh = "crashed")

\* A thread blocked in a write to a connected pipe leaves its wait when the socket has
\* room for it, or QEMU is gone.
WriterServed ==
  \A t \in Writers, c \in Chan :
    (pc[t] = "sleep" /\ dir[t] = "WRITE" /\ file[t] = c /\ npState[c] = "CONNECTED" /\ Writable(c))
      ~> (pc[t] # "sleep" \/ ~Writable(c) \/ bh = "crashed")

----------------------------------------------------------------------------
(* Statements of the repository's comments that the code does not keep.     *)

\* "This will also wake-up any blocked guest threads waiting for i/o"
\* (host-qemu/include/hw/android/pipe.h, qemu_pipe_close): a thread asleep on a
\* pipe that the host has closed has a wake-up coming.
CloseWakesSleepers ==
  \A t \in Thread : pc[t] = "sleep" /\ Blocked(t) /\ closed[file[t]] => Covered(file[t], WakeBit(t))

\* "Raise IRQ to indicate there are items on our list !" (host-qemu/hw/android/pipe.c,
\* qemu_pipe_wake): while pipes are signalled, the guest's handler runs or is going to,
\* whichever interrupt controller the board has.
ItemsRaiseIrq == signaled # {} => InterruptDue

\* "When the condition occurs, then the pipe implementation shall call
\* goldfish_pipe_wake()" (pipe.h, wakeOn): a thread blocked in a read leaves its wait
\* when the socket has something for it, whenever the wait began.
ReaderWoken ==
  \A t \in Readers, c \in Chan :
    (pc[t] = "sleep" /\ dir[t] = "READ" /\ file[t] = c /\ Readable(c))
      ~> (pc[t] # "sleep" \/ ~Readable(c))

\* "'hwpipe' must be passed to other goldfish_pipe_xxx functions" (pipe.h, init), and
\* sendBuffers returns "a negative error value" when it fails: the service neither calls
\* qemu_pipe_wake without its pipe nor loopIo_done on an io without class.
NeverNullPipe == bh # "crashed"
=============================================================================
