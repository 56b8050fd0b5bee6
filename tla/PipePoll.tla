------------------------------ MODULE PipePoll -------------------------------
(***************************************************************************)
(* poll() on a pipe: qemu_pipe_poll of the guest driver, PIPE_CMD_POLL of   *)
(* the device and the poll functions of the services, beside the readers    *)
(* and writers of GoldfishPipe.                                             *)
(*                                                                          *)
(* The kernel calls qemu_pipe_poll, sleeps while the answer is empty, and   *)
(* calls it again after a wake-up of the queue it was registered with.  A   *)
(* wake-up that comes before the sleep is remembered.                       *)
(***************************************************************************)
EXTENDS GoldfishPipe

CONSTANTS
  Pollers,               \* the threads that poll; they neither read nor write
  PollIn, PollOut        \* those that ask for POLLIN, and those that ask for POLLOUT

ASSUME PollersAssumption ==
  /\ Pollers \subseteq Thread /\ Pollers \cap (Readers \cup Writers) = {}
  /\ PollIn \subseteq Pollers /\ PollOut \subseteq Pollers

VARIABLES
  ppc,                   \* [Pollers -> PollPlaces]: place in the poll
  pfile,                 \* [Pollers -> Chan]: the pipe polled
  queue,                 \* SUBSET Pollers: waiters of pipe->wake_queue of their pipe
  triggered,             \* SUBSET Pollers: those woken since they last slept
  answer                 \* [Pollers -> SUBSET PollFlags]: the status of CMD_POLL

pollVars == <<ppc, pfile, queue, triggered, answer>>

PollPlaces == {"user", "lock", "register", "command", "unlock", "sleep"}
PollFlags == {"IN", "OUT", "HUP"}

PollTypeOK ==
  /\ TypeOK
  /\ ppc \in [Pollers -> PollPlaces]
  /\ pfile \in [Pollers -> Chan]
  /\ queue \in SUBSET Pollers
  /\ triggered \in SUBSET Pollers
  /\ answer \in [Pollers -> SUBSET PollFlags]

PollInit ==
  /\ Init
  /\ ppc = [p \in Pollers |-> "user"]
  /\ pfile \in {[p \in Pollers |-> c] : c \in Chan}
  /\ queue = {} /\ triggered = {}
  /\ answer = [p \in Pollers |-> {}]

----------------------------------------------------------------------------
\* Mutant: the io's flags returned as they are.
CmdPollRaw(c) ==
  CASE c \notin pipes          -> PollFlags
    [] c \in pipes /\ closed[c] -> {"HUP"}
    [] Accepted(c) /\ funcs[c] = "connector" -> {"OUT"}
    [] OTHER -> ioReady[c]

\* PIPE_CMD_POLL.  An error is a negative status, whose low bits the driver reads
\* as flags: PIPE_ERROR_INVAL (-1) has all three, PIPE_ERROR_IO (-4) only HUP.  The
\* connector is always writable, the net pipe answers with the io's ready flags.
CmdPoll(c) ==
  CASE c \notin pipes          -> PollFlags
    [] c \in pipes /\ closed[c] -> {"HUP"}
    [] Accepted(c) /\ funcs[c] = "connector" -> {"OUT"}
    [] OTHER -> {IF d = "READ" THEN "IN" ELSE "OUT" : d \in ioReady[c]}

Enter(p, place) == ppc' = [ppc EXCEPT ![p] = place]

\* poll() on an open file.
PollCall(p, c) ==
  /\ ppc[p] = "user" /\ c \in radix
  /\ pfile' = [pfile EXCEPT ![p] = c]
  /\ Enter(p, "lock")
  /\ UNCHANGED <<hostVars, driverVars, queue, triggered, answer>>

\* mutex_lock(&pipe->lock).
PollLock(p) ==
  /\ ppc[p] = "lock" /\ mutex[pfile[p]] = NoThread
  /\ mutex' = [mutex EXCEPT ![pfile[p]] = p]
  /\ Enter(p, "register")
  /\ UNCHANGED <<hostVars, radix, flags, devLock, isrChan, pc, file, dir, moved>>
  /\ UNCHANGED <<pfile, queue, triggered, answer>>

\* Mutant: poll_wait left out.
PollRegisterNot(p) ==
  /\ ppc[p] = "register"
  /\ Enter(p, "command")
  /\ UNCHANGED <<hostVars, driverVars, pfile, queue, triggered, answer>>

\* poll_wait(&pipe->wake_queue).
PollRegister(p) ==
  /\ ppc[p] = "register"
  /\ queue' = queue \cup {p}
  /\ Enter(p, "command")
  /\ UNCHANGED <<hostVars, driverVars, pfile, triggered, answer>>

\* CMD_POLL under the device lock.
PollCommand(p) ==
  /\ ppc[p] = "command"
  /\ ~devLock /\ BqlFree
  /\ answer' = [answer EXCEPT ![p] = CmdPoll(pfile[p])]
  /\ Enter(p, "unlock")
  /\ UNCHANGED <<hostVars, driverVars, pfile, queue, triggered>>

\* The flags of a mask that end the poll: those the caller asked for, and POLLHUP.
Requested(p) ==
  {"HUP"} \cup {f \in {"IN"} : p \in PollIn} \cup {f \in {"OUT"} : p \in PollOut}

\* mutex_unlock and the mask, to which a close the guest knows of adds POLLERR, which
\* like POLLHUP needs no request.  With nothing requested in the mask the caller goes
\* to sleep; otherwise poll() ends.
PollUnlock(p) ==
  /\ ppc[p] = "unlock"
  /\ mutex' = [mutex EXCEPT ![pfile[p]] = NoThread]
  /\ IF answer[p] \cap Requested(p) = {} /\ "CLOSED" \notin flags[pfile[p]]
     THEN Enter(p, "sleep") /\ UNCHANGED <<queue, triggered>>
     ELSE Enter(p, "user") /\ queue' = queue \ {p} /\ triggered' = triggered \ {p}
  /\ answer' = [answer EXCEPT ![p] = {}]
  /\ UNCHANGED <<hostVars, radix, flags, devLock, isrChan, pc, file, dir, moved, pfile>>

\* The sleeper was woken, and asks again.
PollAgain(p) ==
  /\ ppc[p] = "sleep" /\ p \in triggered
  /\ triggered' = triggered \ {p}
  /\ Enter(p, "lock")
  /\ UNCHANGED <<hostVars, driverVars, pfile, queue, answer>>

PollStep(p) ==
  PollLock(p) \/ PollRegister(p) \/ PollCommand(p) \/ PollUnlock(p) \/ PollAgain(p)

----------------------------------------------------------------------------
(* The steps of GoldfishPipe: the interrupt handler also wakes the queue of *)
(* the pipe it handles; a file is not released while a thread polls it.     *)

PollIsrHandle ==
  /\ IsrHandle
  /\ triggered' = triggered \cup
       {p \in queue : isrChan \in radix /\ pfile[p] = isrChan}
  /\ UNCHANGED <<ppc, pfile, queue, answer>>

PollIsr ==
  \/ PollIsrHandle
  \/ (IsrEnter \/ IsrExit \/ \E c \in Chan : IsrChannel(c)) /\ UNCHANGED pollVars

PollRelease(c) ==
  /\ \A p \in Pollers : ppc[p] # "user" => pfile[p] # c
  /\ Release(c)
  /\ UNCHANGED pollVars

\* A read, a write or an open.
PollOther ==
  /\ \/ \E c \in Chan : Open(c)
     \/ \E t \in Thread, c \in Chan, d \in Dirs : Call(t, c, d)
     \/ \E t \in Thread : ReadWrite(t)
  /\ UNCHANGED pollVars

PollNext ==
  \/ \E p \in Pollers, c \in Chan : PollCall(p, c)
  \/ \E p \in Pollers : PollStep(p)
  \/ PollOther \/ PollIsr
  \/ \E c \in Chan : PollRelease(c)
  \/ Host /\ UNCHANGED pollVars

allVars == <<vars, pollVars>>

PollSpec == PollInit /\ [][PollNext]_allVars

\* The fairness of GoldfishPipe, for these steps.
PollFairSpec ==
  /\ PollSpec
  /\ WF_allVars((HostBh \/ \E c \in Chan : HostIoFunc(c)) /\ UNCHANGED pollVars)
  /\ \A c \in Chan, d \in Dirs : SF_allVars(HostFd(c, d) /\ UNCHANGED pollVars)
  /\ SF_allVars(PollIsr)
  /\ \A t \in Readers \cup Writers : SF_allVars(Runs(t) /\ UNCHANGED pollVars)
  /\ \A p \in Pollers : SF_allVars(PollStep(p))

----------------------------------------------------------------------------
\* pipe->lock serialises reads, writes and polls: a thread inside the locked part of
\* qemu_pipe_read_write or of qemu_pipe_poll holds the mutex, and only such a thread.
MutexDiscipline ==
  \A t \in Thread, c \in Chan :
    mutex[c] = t <=>
      \/ file[t] = c /\ pc[t] \in {"transfer", "setbit", "wakeon", "unlockwait", "unlock"}
      \/ t \in Pollers /\ pfile[t] = c /\ ppc[t] \in {"register", "command", "unlock"}

\* A poll cannot miss the close of its pipe: the host closes the pipe before the
\* command, which then answers HUP, or after the poller has joined the queue, and
\* then a wake-up is on its way to it.
PollMissesNoClose ==
  \A p \in Pollers :
    LET c == pfile[p] IN
    ppc[p] = "sleep" /\ closed[c] =>
      \/ p \in triggered
      \/ isrChan = c /\ "CLOSED" \in devWakes
      \/ c \in signaled /\ InterruptDue

\* A poller asleep on a pipe that the host closes returns to user space, unless QEMU
\* is gone (a writer left waiting on the refused connection: NeverNullPipe).
PollerSeesClose ==
  \A p \in Pollers :
    ppc[p] = "sleep" /\ closed[pfile[p]] ~> ppc[p] = "user" \/ bh = "crashed"
=============================================================================
