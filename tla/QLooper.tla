------------------------------- MODULE QLooper -------------------------------
(***************************************************************************)
(* The I/O half of QEMU's core looper, host-qemu/android/looper-qemu.c.     *)
(*                                                                          *)
(* A net pipe owns exactly one LoopIo, so an io is named by the channel of  *)
(* its pipe.  The fd handlers only mark an io ready and put it on the       *)
(* pending list; a bottom half later calls the user callback once with all  *)
(* the ready flags.  The order of the pending list is abstracted to a set:  *)
(* the callback of one io touches no other io.                              *)
(*                                                                          *)
(* Every fd handler, bottom half and MMIO access runs under QEMU's global   *)
(* mutex.  The bottom half is a loop over callbacks, so it is modelled with *)
(* a "running" phase during which no other holder of that mutex may step.   *)
(***************************************************************************)
EXTENDS Channels

VARIABLES
  ioWanted,              \* [Chan -> SUBSET Dirs]: QLoopIo.wanted, i.e. the fd handlers set
  ioReady,               \* [Chan -> SUBSET Dirs]: QLoopIo.ready
  ioPending,             \* SUBSET Chan: QLooper.io_pending
  bh                     \* state of the bottom half QLooper.io_bh

looperVars == <<ioWanted, ioReady, ioPending, bh>>

LooperTypeOK ==
  /\ ioWanted \in [Chan -> SUBSET Dirs]
  /\ ioReady \in [Chan -> SUBSET Dirs]
  /\ ioPending \in SUBSET Chan
  /\ bh \in {"idle", "scheduled", "running", "crashed"}

LooperInit ==
  /\ ioWanted = [c \in Chan |-> {}]
  /\ ioReady = [c \in Chan |-> {}]
  /\ ioPending = {}
  /\ bh = "idle"

\* The global mutex is not held by a running bottom half, or by one that crashed.
BqlFree == bh \notin {"running", "crashed"}

----------------------------------------------------------------------------
(* A LoopIo as a value, for handlers that modify it more than once.         *)

Io(c) == [wanted |-> ioWanted[c], ready |-> ioReady[c]]

\* Mutant: qloopio_modify that leaves an unwanted io on the pending list.
ModifyKeepsPending(io, w) == [wanted |-> w, ready |-> io.ready]

\* qloopio_modify: a pending io whose ready flags are no longer wanted is dropped.
Modify(io, w) ==
  [wanted |-> w,
   ready  |-> IF w # io.wanted /\ io.ready \cap w = {} THEN {} ELSE io.ready]

Want(io, d) == Modify(io, io.wanted \cup {d})
DontWant(io, d) == Modify(io, io.wanted \ {d})

\* qlooper_delPendingIo.
DelPending(c) == ioPending' = ioPending \ {c}

\* Store io back; qloopio_removePending takes it off the list with its ready flags.
SetIo(c, io) ==
  /\ ioWanted' = [ioWanted EXCEPT ![c] = io.wanted]
  /\ ioReady' = [ioReady EXCEPT ![c] = io.ready]
  /\ IF ioReady[c] # {} /\ io.ready = {} THEN DelPending(c) ELSE UNCHANGED ioPending

\* qloopio_free: removePending, forget the fd.
FreeIo(c) == SetIo(c, [wanted |-> {}, ready |-> {}])

----------------------------------------------------------------------------
(* Steps of QEMU's main loop.                                               *)

\* qlooper_addPendingIo: the bottom half is scheduled for the first io only.
AddPending(c) ==
  /\ ioPending' = ioPending \cup {c}
  /\ bh' = IF ioPending = {} THEN "scheduled" ELSE bh

\* qloopio_handleRead / qloopio_handleWrite: qloopio_setReady.
HandleFd(c, d) ==
  /\ BqlFree
  /\ d \in ioWanted[c]
  /\ IF ioReady[c] = {} THEN AddPending(c) ELSE UNCHANGED <<ioPending, bh>>
  /\ ioReady' = [ioReady EXCEPT ![c] = @ \cup {d}]
  /\ UNCHANGED ioWanted

\* QEMU enters qlooper_handle_io_bh.
BhEnter ==
  /\ bh = "scheduled"
  /\ bh' = "running"
  /\ UNCHANGED <<ioWanted, ioReady, ioPending>>

\* The loop condition of qlooper_handle_io_bh fails: the list is empty.
BhExit ==
  /\ bh = "running"
  /\ ioPending = {}
  /\ bh' = "idle"
  /\ UNCHANGED <<ioWanted, ioReady, ioPending>>

\* One iteration extracts an io and clears its ready flags; the callback then
\* sees the io with this value.
BhPop(c) ==
  /\ bh = "running"
  /\ c \in ioPending

Popped(c) == [wanted |-> ioWanted[c], ready |-> {}]
=============================================================================
