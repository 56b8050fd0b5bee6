------------------------------ MODULE Channels -------------------------------
(***************************************************************************)
(* The names that the guest driver, the pipe device and the services share. *)
(***************************************************************************)

CONSTANTS
  Chan,                  \* the channels: the guest uses the address of its pipe object
  NoChan                 \* channel 0, read when no pipe is signalled

ASSUME NoChanAssumption == NoChan \notin Chan

\* The two directions of a pipe: PIPE_WAKE_READ / PIPE_WAKE_WRITE, LOOP_IO_READ /
\* LOOP_IO_WRITE, BIT_WAKE_ON_READ / BIT_WAKE_ON_WRITE.
Dirs == {"READ", "WRITE"}

\* The flags of a wake-up: PIPE_WAKE_CLOSED, PIPE_WAKE_READ, PIPE_WAKE_WRITE.
WakeFlags == {"CLOSED", "READ", "WRITE"}
=============================================================================
