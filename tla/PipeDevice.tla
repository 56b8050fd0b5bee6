----------------------------- MODULE PipeDevice ------------------------------
(***************************************************************************)
(* The state of the goldfish pipe device, host-qemu/hw/android/pipe.c, and  *)
(* the operations on it that involve no pipe service.                       *)
(*                                                                          *)
(* The list of signalled pipes is abstracted to a set.  The channel, size,  *)
(* address and status registers are only used between lock and unlock of    *)
(* the guest's device lock, and are parameters of the commands instead.     *)
(*                                                                          *)
(* The device drives one line of the interrupt controller, which the board  *)
(* declares as edge triggered (hw/arm/virt.c).  What the guest is given is  *)
(* the controller's pending bit and not the level of the line.              *)
(***************************************************************************)
EXTENDS Channels

CONSTANT InKernelGic     \* the interrupt controller is KVM's (arm_gic_kvm.c), not the
                         \* emulated one (arm_gic.c)

ASSUME GicAssumption == InKernelGic \in BOOLEAN

VARIABLES
  pipes,                 \* SUBSET Chan: PipeDevice.pipes
  funcs,                 \* [Chan -> Services]: Pipe.funcs
  wanted,                \* [Chan -> SUBSET WakeFlags]: Pipe.wanted
  closed,                \* [Chan -> BOOLEAN]: Pipe.closed
  signaled,              \* SUBSET Chan: PipeDevice.signaled_pipes
  irq,                   \* BOOLEAN: level of the interrupt line
  gicPending,            \* BOOLEAN: the interrupt is pending in the controller
  devWakes               \* SUBSET WakeFlags: PipeDevice.wakes, latched by a CHANNEL read

deviceVars == <<pipes, funcs, wanted, closed, signaled, irq, gicPending, devWakes>>

Services == {"connector", "net"}

DeviceTypeOK ==
  /\ pipes \in SUBSET Chan
  /\ funcs \in [Chan -> Services]
  /\ wanted \in [Chan -> SUBSET WakeFlags]
  /\ closed \in [Chan -> BOOLEAN]
  /\ signaled \in SUBSET Chan
  /\ irq \in BOOLEAN
  /\ gicPending \in BOOLEAN
  /\ devWakes \in SUBSET WakeFlags

DeviceInit ==
  /\ pipes = {}
  /\ funcs = [c \in Chan |-> "connector"]
  /\ wanted = [c \in Chan |-> {}]
  /\ closed = [c \in Chan |-> FALSE]
  /\ signaled = {}
  /\ irq = FALSE
  /\ gicPending = FALSE
  /\ devWakes = {}

----------------------------------------------------------------------------
\* qemu_set_irq(dev->irq, 1).  The emulated controller returns when the level does
\* not change, and so latches a rising edge only; kvm_arm_gic_set_irq hands every
\* call to the kernel, which pends an edge triggered interrupt each time.
RaiseIrq ==
  /\ irq' = TRUE
  /\ gicPending' = (gicPending \/ InKernelGic \/ ~irq)

\* qemu_set_irq(dev->irq, 0): what is pending stays pending.
LowerIrq ==
  /\ irq' = FALSE
  /\ UNCHANGED gicPending

\* qemu_pipe_wake: put the pipe on the signalled list, raise the interrupt.
QemuPipeWake(c, flags) ==
  /\ signaled' = signaled \cup {c}
  /\ wanted' = [wanted EXCEPT ![c] = @ \cup flags]
  /\ RaiseIrq
  /\ UNCHANGED <<pipes, funcs, closed, devWakes>>

\* Mutant: qemu_pipe_close that marks the pipe and does not wake it.
QemuPipeCloseQuiet(c) ==
  /\ closed' = [closed EXCEPT ![c] = TRUE]
  /\ UNCHANGED <<pipes, funcs, wanted, signaled, irq, gicPending, devWakes>>

\* Mutant: qemu_pipe_close that signals the pipe and does not raise the interrupt.
QemuPipeCloseUnraised(c) ==
  IF closed[c]
  THEN UNCHANGED deviceVars
  ELSE /\ closed' = [closed EXCEPT ![c] = TRUE]
       /\ signaled' = signaled \cup {c}
       /\ wanted' = [wanted EXCEPT ![c] = @ \cup {"CLOSED"}]
       /\ UNCHANGED <<pipes, funcs, irq, gicPending, devWakes>>

\* qemu_pipe_close: a pipe is closed, and its guest told so, once.
QemuPipeClose(c) ==
  IF closed[c]
  THEN UNCHANGED deviceVars
  ELSE /\ closed' = [closed EXCEPT ![c] = TRUE]
       /\ signaled' = signaled \cup {c}
       /\ wanted' = [wanted EXCEPT ![c] = @ \cup {"CLOSED"}]
       /\ RaiseIrq
       /\ UNCHANGED <<pipes, funcs, devWakes>>

\* pipe_dev_read(PIPE_REG_CHANNEL) with a signalled pipe: unlink it, latch its
\* flags in dev->wakes, lower the interrupt when the list becomes empty.
ReadChannel(c) ==
  /\ c \in signaled
  /\ devWakes' = wanted[c]
  /\ wanted' = [wanted EXCEPT ![c] = {}]
  /\ signaled' = signaled \ {c}
  /\ IF signaled = {c} THEN LowerIrq ELSE UNCHANGED <<irq, gicPending>>
  /\ UNCHANGED <<pipes, funcs, closed>>

\* PIPE_CMD_OPEN of an unknown channel: pipe_new, with the connector as service.
CmdOpen(c) ==
  /\ c \notin pipes
  /\ pipes' = pipes \cup {c}
  /\ funcs' = [funcs EXCEPT ![c] = "connector"]
  /\ wanted' = [wanted EXCEPT ![c] = {}]
  /\ closed' = [closed EXCEPT ![c] = FALSE]
  /\ UNCHANGED <<signaled, irq, gicPending, devWakes>>

\* Mutant: PIPE_CMD_CLOSE without pipe_list_remove_waked.
UnlinkPipeSignaled(c) ==
  /\ pipes' = pipes \ {c}
  /\ funcs' = [funcs EXCEPT ![c] = "connector"]
  /\ wanted' = [wanted EXCEPT ![c] = {}]
  /\ closed' = [closed EXCEPT ![c] = FALSE]
  /\ UNCHANGED <<signaled, irq, gicPending, devWakes>>

\* The device's part of PIPE_CMD_CLOSE: unlink the pipe from both lists and free
\* it.  The interrupt line is left as it is, high if the pipe was signalled.
UnlinkPipe(c) ==
  /\ pipes' = pipes \ {c}
  /\ signaled' = signaled \ {c}
  /\ funcs' = [funcs EXCEPT ![c] = "connector"]
  /\ wanted' = [wanted EXCEPT ![c] = {}]
  /\ closed' = [closed EXCEPT ![c] = FALSE]
  /\ UNCHANGED <<irq, gicPending, devWakes>>
=============================================================================
