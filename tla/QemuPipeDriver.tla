--------------------------- MODULE QemuPipeDriver ----------------------------
(***************************************************************************)
(* The guest kernel driver, vm-kernel-qemupipe/qemu_pipe.c, on top of the   *)
(* host side: threads of the guest in qemu_pipe_read_write, the interrupt   *)
(* handler, open and release.                                               *)
(*                                                                          *)
(* Locking.  The device lock dev->lock (a spinlock taken with interrupts    *)
(* off) protects short sequences of MMIO accesses; such a sequence issues   *)
(* one command, so it is one step here.  The interrupt handler holds the    *)
(* lock over its whole loop, in which the host may step; devLock says that  *)
(* it does.  pipe->lock is the mutex that serialises transfers on a file.   *)
(*                                                                          *)
(* A transfer goes page by page.  Of the byte count only "something was     *)
(* moved" matters to the control; return values are left out.               *)
(***************************************************************************)
EXTENDS PipeHost

CONSTANTS
  Thread,                \* guest threads that read and write pipes
  NoThread,              \* "mutex not held"
  Readers, Writers,      \* the threads that call read, and those that call write
  NonBlocking,           \* threads using O_NONBLOCK files
  Signalled,             \* threads that may receive signals
  Faulting               \* threads whose buffer may have a page that cannot be pinned

ASSUME ThreadAssumption ==
  /\ NoThread \notin Thread
  /\ Readers \subseteq Thread /\ Writers \subseteq Thread
  /\ NonBlocking \subseteq Thread /\ Signalled \subseteq Thread /\ Faulting \subseteq Thread

VARIABLES
  radix,                 \* SUBSET Chan: keys of the radix tree dev->pipes, the open files
  flags,                 \* [Chan -> SUBSET PipeBits]: qemu_pipe.flags
  mutex,                 \* [Chan -> Thread \cup {NoThread}]: qemu_pipe.lock
  devLock,               \* BOOLEAN: the interrupt handler holds dev->lock
  isrChan,               \* the channel it has read and not yet handled, or NoChan
  pc, file, dir, moved   \* per thread: place in qemu_pipe_read_write, the pipe,
                         \* is_write, count > 0

driverVars == <<radix, flags, mutex, devLock, isrChan, pc, file, dir, moved>>

\* BIT_CLOSED_ON_HOST, BIT_WAKE_ON_READ, BIT_WAKE_ON_WRITE.
PipeBits == WakeFlags

Places == {"idle", "lock", "transfer", "setbit", "wakeon", "unlockwait",
           "test", "sleep", "relock", "unlock"}

DriverTypeOK ==
  /\ radix \in SUBSET Chan
  /\ flags \in [Chan -> SUBSET PipeBits]
  /\ mutex \in [Chan -> Thread \cup {NoThread}]
  /\ devLock \in BOOLEAN
  /\ isrChan \in Chan \cup {NoChan}
  /\ pc \in [Thread -> Places]
  /\ file \in [Thread -> Chan]
  /\ dir \in [Thread -> Dirs]
  /\ moved \in [Thread -> BOOLEAN]

DriverInit ==
  /\ radix = {}
  /\ flags = [c \in Chan |-> {}]
  /\ mutex = [c \in Chan |-> NoThread]
  /\ devLock = FALSE
  /\ isrChan = NoChan
  /\ pc = [t \in Thread |-> "idle"]
  /\ file \in {[t \in Thread |-> c] : c \in Chan}
  /\ dir = [t \in Thread |-> "READ"]
  /\ moved = [t \in Thread |-> FALSE]

----------------------------------------------------------------------------
(* open and release.                                                        *)

\* qemu_pipe_open: a fresh object, whose address names the channel, enters the
\* radix tree and the host learns of it.
Open(c) ==
  /\ c \notin radix
  /\ ~devLock /\ BqlFree
  /\ radix' = radix \cup {c}
  /\ flags' = [flags EXCEPT ![c] = {}]
  /\ mutex' = [mutex EXCEPT ![c] = NoThread]
  /\ CmdOpen(c)
  /\ UNCHANGED <<devLock, isrChan, pc, file, dir, moved>>
  /\ UNCHANGED <<looperVars, netVars, sockVars>>

\* qemu_pipe_release, called by the kernel when no thread uses the file; the
\* object is freed.
Release(c) ==
  /\ c \in radix
  /\ \A t \in Thread : pc[t] # "idle" => file[t] # c
  /\ ~devLock
  /\ CmdClose(c)
  /\ radix' = radix \ {c}
  /\ flags' = [flags EXCEPT ![c] = {}]
  /\ mutex' = [mutex EXCEPT ![c] = NoThread]
  /\ UNCHANGED <<devLock, isrChan, pc, file, dir, moved>>

----------------------------------------------------------------------------
(* qemu_pipe_read_write.                                                    *)

Goto(t, place) ==
  /\ pc' = [pc EXCEPT ![t] = place]
  /\ UNCHANGED <<file, dir>>

\* Return to user space; the locals are gone.
Return(t) ==
  /\ pc' = [pc EXCEPT ![t] = "idle"]
  /\ dir' = [dir EXCEPT ![t] = "READ"]
  /\ moved' = [moved EXCEPT ![t] = FALSE]
  /\ UNCHANGED file

WakeBit(t) == dir[t]

\* A call on an open file that the host has not closed, with a valid range.
Call(t, c, d) ==
  /\ pc[t] = "idle"
  /\ IF d = "READ" THEN t \in Readers ELSE t \in Writers
  /\ c \in radix
  /\ "CLOSED" \notin flags[c]
  /\ pc' = [pc EXCEPT ![t] = "lock"]
  /\ file' = [file EXCEPT ![t] = c]
  /\ dir' = [dir EXCEPT ![t] = d]
  /\ UNCHANGED <<radix, flags, mutex, devLock, isrChan, moved>>
  /\ UNCHANGED hostVars

\* Mutant: the pipe's mutex is not waited for.
LockUnchecked(t) ==
  /\ pc[t] \in {"lock", "relock"}
  /\ mutex' = [mutex EXCEPT ![file[t]] = t]
  /\ Goto(t, "transfer")
  /\ UNCHANGED <<radix, flags, devLock, isrChan, moved>>
  /\ UNCHANGED hostVars

\* mutex_lock_interruptible succeeds, the first time or after a wait.
Lock(t) ==
  /\ pc[t] \in {"lock", "relock"}
  /\ mutex[file[t]] = NoThread
  /\ mutex' = [mutex EXCEPT ![file[t]] = t]
  /\ Goto(t, "transfer")
  /\ UNCHANGED <<radix, flags, devLock, isrChan, moved>>
  /\ UNCHANGED hostVars

\* The first mutex_lock_interruptible is interrupted.
LockInterrupted(t) ==
  /\ t \in Signalled
  /\ pc[t] = "lock"
  /\ Return(t)
  /\ UNCHANGED <<radix, flags, mutex, devLock, isrChan>>
  /\ UNCHANGED hostVars

\* The one after a wait is interrupted: break out of the loop, to the
\* mutex_unlock behind it.
RelockInterrupted(t) ==
  /\ t \in Signalled
  /\ pc[t] = "relock"
  /\ Goto(t, "unlock")
  /\ UNCHANGED <<radix, flags, mutex, devLock, isrChan, moved>>
  /\ UNCHANGED hostVars

\* get_user_pages fails: return from inside the loop, with the mutex held.
PinFails(t) ==
  /\ t \in Faulting
  /\ pc[t] = "transfer"
  /\ Return(t)
  /\ UNCHANGED <<radix, flags, mutex, devLock, isrChan>>
  /\ UNCHANGED hostVars

\* What the loop does with the status of a transfer: go on with the next page
\* or end, stop, or wait.
NextPlaces(t, st) ==
  CASE st = "OK" -> {"transfer", "unlock"}
    [] st = "AGAIN" /\ ~moved[t] /\ t \notin NonBlocking -> {"setbit"}
    [] OTHER -> {"unlock"}

\* One page: the command, under the device lock, and its status.
Transfer(t) ==
  /\ pc[t] = "transfer"
  /\ ~devLock
  /\ \E st \in Statuses :
       /\ IF dir[t] = "READ" THEN CmdRead(file[t], st) ELSE CmdWrite(file[t], st)
       /\ \E place \in NextPlaces(t, st) : Goto(t, place)
       /\ moved' = [moved EXCEPT ![t] = @ \/ st = "OK"]
  /\ UNCHANGED <<radix, flags, mutex, devLock, isrChan>>

\* Mark the pipe as waiting: set_bit(wakeBit), outside the device lock.
SetWakeBit(t) ==
  /\ pc[t] = "setbit"
  /\ flags' = [flags EXCEPT ![file[t]] = @ \cup {WakeBit(t)}]
  /\ Goto(t, "wakeon")
  /\ UNCHANGED <<radix, mutex, devLock, isrChan, moved>>
  /\ UNCHANGED hostVars

\* Tell the emulator; the status is not read.
WakeOn(t) ==
  /\ pc[t] = "wakeon"
  /\ ~devLock
  /\ CmdWakeOn(file[t], WakeBit(t))
  /\ Goto(t, "unlockwait")
  /\ UNCHANGED <<radix, flags, mutex, devLock, isrChan, moved>>

\* mutex_unlock before the wait.
UnlockToWait(t) ==
  /\ pc[t] = "unlockwait"
  /\ mutex' = [mutex EXCEPT ![file[t]] = NoThread]
  /\ Goto(t, "test")
  /\ UNCHANGED <<radix, flags, devLock, isrChan, moved>>
  /\ UNCHANGED hostVars

\* mutex_unlock at the end of the call.
Unlock(t) ==
  /\ pc[t] = "unlock"
  /\ mutex' = [mutex EXCEPT ![file[t]] = NoThread]
  /\ Return(t)
  /\ UNCHANGED <<radix, flags, devLock, isrChan>>
  /\ UNCHANGED hostVars

\* The condition of the wait loop.
TestWakeBit(t) ==
  /\ pc[t] = "test"
  /\ Goto(t, IF WakeBit(t) \in flags[file[t]] THEN "sleep" ELSE "relock")
  /\ UNCHANGED <<radix, flags, mutex, devLock, isrChan, moved>>
  /\ UNCHANGED hostVars

\* wait_event_interruptible returns because the bit is clear; a pipe closed by
\* the host ends the call.
Wake(t) ==
  /\ pc[t] = "sleep"
  /\ WakeBit(t) \notin flags[file[t]]
  /\ IF "CLOSED" \in flags[file[t]] THEN Return(t) ELSE Goto(t, "test") /\ UNCHANGED moved
  /\ UNCHANGED <<radix, flags, mutex, devLock, isrChan>>
  /\ UNCHANGED hostVars

\* wait_event_interruptible returns because of a signal.
WaitInterrupted(t) ==
  /\ t \in Signalled
  /\ pc[t] = "sleep"
  /\ Return(t)
  /\ UNCHANGED <<radix, flags, mutex, devLock, isrChan>>
  /\ UNCHANGED hostVars

\* A call runs on, as opposed to failing.
Runs(t) ==
  \/ Lock(t) \/ Transfer(t) \/ SetWakeBit(t) \/ WakeOn(t) \/ UnlockToWait(t)
  \/ TestWakeBit(t) \/ Wake(t) \/ Unlock(t)

ReadWrite(t) ==
  \/ Runs(t)
  \/ LockInterrupted(t) \/ PinFails(t) \/ WaitInterrupted(t) \/ RelockInterrupted(t)

----------------------------------------------------------------------------
(* qemu_pipe_interrupt.                                                     *)

\* The guest takes the pending interrupt, which the controller then forgets, and the
\* handler gets the device lock.  What is raised between the two is on the list the
\* handler goes through, so they are one step.
IsrEnter ==
  /\ gicPending /\ ~devLock
  /\ gicPending' = FALSE
  /\ devLock' = TRUE
  /\ UNCHANGED <<radix, flags, mutex, isrChan, pc, file, dir, moved>>
  /\ UNCHANGED <<pipes, funcs, wanted, closed, signaled, irq, devWakes>>
  /\ UNCHANGED <<looperVars, netVars, sockVars>>

\* Read the next channel.
IsrChannel(c) ==
  /\ devLock /\ isrChan = NoChan
  /\ BqlFree
  /\ ReadChannel(c)
  /\ isrChan' = c
  /\ UNCHANGED <<radix, flags, mutex, devLock, pc, file, dir, moved>>
  /\ UNCHANGED <<looperVars, netVars, sockVars>>

\* Mutant: the device lock is not released at the end of the list.
IsrExitHeld ==
  /\ devLock /\ isrChan = NoChan
  /\ BqlFree
  /\ signaled = {}
  /\ UNCHANGED driverVars
  /\ UNCHANGED hostVars

\* The end of the list.  Reading CHANNEL from an empty list does not touch the line.
IsrExit ==
  /\ devLock /\ isrChan = NoChan
  /\ BqlFree
  /\ signaled = {}
  /\ devLock' = FALSE
  /\ UNCHANGED <<radix, flags, mutex, isrChan, pc, file, dir, moved>>
  /\ UNCHANGED hostVars

\* Mutant: the interrupt handler forgets the writers.
ClearsReadOnly(w) == IF "CLOSED" \in w THEN Dirs ELSE w \cap {"READ"}

\* The bits that the wake flags w clear.
Clears(w) == IF "CLOSED" \in w THEN Dirs ELSE w \cap Dirs

\* Read the wake flags, and set and clear the bits of the pipe; a channel that
\* is not in the radix tree ends the handler.
IsrHandle ==
  /\ isrChan # NoChan
  /\ flags' = IF isrChan \in radix
              THEN [flags EXCEPT ![isrChan] = (@ \cup (devWakes \cap {"CLOSED"})) \ Clears(devWakes)]
              ELSE flags
  /\ devLock' = (isrChan \in radix)
  /\ isrChan' = NoChan
  /\ UNCHANGED <<radix, mutex, pc, file, dir, moved>>
  /\ UNCHANGED hostVars

Isr == IsrEnter \/ IsrExit \/ IsrHandle \/ \E c \in Chan : IsrChannel(c)
=============================================================================
