# qemu-of-arm-android, in TLA+

An Android emulator ported to a phone: the guest's OpenGL commands travel from a
guest process through a kernel driver, a virtual device and a socket to a render
process on the host. This directory models that path, from the guest's system call
to the objects of the renderer, and checks and proves what keeps it working:
blocked guests are woken, closes are reported, a name reaches its service, a render
thread keeps what it uses, and handles and bindings keep their meaning.

## Inventory

| Part | Source | Shared state | Concurrency | Module |
|---|---|---|---|---|
| guest driver | `vm-kernel-qemupipe/qemu_pipe.c` | radix tree of pipes, flag bits, pipe mutex, device spinlock, wait queue | guest threads, an interrupt handler | `QemuPipeDriver`, `PipePoll` |
| pipe device | `host-qemu/hw/android/pipe.c` | pipes, signalled pipes, wanted flags, interrupt line, connector's buffer | MMIO and callbacks, under QEMU's global mutex | `PipeDevice`, `PipeHost`, `PipeConnector` |
| net pipe service | `host-qemu/android/hw-pipe-net.c` | connection state, wake flags, back pointer | callbacks of device and looper | `NetPipe` |
| asynchronous connector | `host-qemu/android/async-utils.c` | connect state | driven by the io callback | `NetPipe` |
| QEMU looper | `host-qemu/android/looper-qemu.c` | interest and ready flags, pending list, bottom half | fd handlers and a bottom half | `QLooper` |
| render server, threads | `host-opengl-render/RenderServer.cpp`, `RenderThread.cpp`, `osThreadUnix.cpp`, `render_api.cpp` | set of threads, finished and running flags, streams | one thread per client, the server, the caller that stops it | `RenderServer`, `OsThread` |
| frame buffer | `FrameBuffer.cpp`, `ColorBuffer.cpp`, `WindowSurface.cpp`, `RenderContext.cpp`, `RenderControl.cpp` | handle maps, reference counts, bindings, last posted buffer | all render threads, one lock | `FrameBuffer` |
| base library | `lazy_instance.cpp`, `thread_store.cpp`, `ThreadInfo.cpp` | one-time initialisation state, a pthread key | any thread, no lock | `LazyInstance`, `ThreadLocal` |

`pipe1.c` and `qemu_pipe1.c` are earlier copies that the makefiles do not build.

## Modules

`Channels` holds the shared names of the pipe's modules. Each component has a module
with its state and operations; the operations that cross components are composed
above them.

| Module | State and actions |
|---|---|
| `QLooper` | `ioWanted`, `ioReady`, `ioPending`, `bh`; `HandleFd` is `qloopio_setReady`, `BhEnter`/`BhPop`/`BhExit` the bottom half, `Modify` is `qloopio_modify` |
| `PipeDevice` | `pipes`, `funcs`, `wanted`, `closed`, `signaled`, `irq`, `devWakes`, and the controller's `gicPending`; `QemuPipeWake`, `QemuPipeClose`, `ReadChannel`, `CmdOpen`, `UnlinkPipe`, `RaiseIrq`, `LowerIrq` |
| `NetPipe` | `npState`, `hwpipe`, `wakeWanted`, and the socket (external): `sock`, `rx`, `txFull`; one operator per callback, the io callback by its four cases, the init with every outcome of socket and connect |
| `PipeHost` | `pipeDevice_doCommand` and the main loop: one action per command |
| `QemuPipeDriver` | `radix`, `flags`, `mutex`, `devLock`, `isrChan`, and per thread `pc`, `file`, `dir`, `moved`; one action per step of `qemu_pipe_read_write` between points where others may run |
| `GoldfishPipe` | composes the five above: `Next`, fairness, properties |
| `PipePoll` | adds `qemu_pipe_poll` and PIPE_CMD_POLL: pollers register, ask, sleep (`ppc`, `queue`, `triggered`, `answer`), and the interrupt handler wakes them too |
| `PipeConnector` | the bytes behind the outcomes that `PipeHost` offers for a write to the connector: `Collect`, `Refuse`, `HandOver` |
| `OsThread` | a C++ `Thread` object and its POSIX thread, whose lives are separate |
| `RenderServer` | `RenderServer::Main` (accept, flags, start, reap, wait, finalize), `RenderThread::Main`, clients, `stopOpenGLRenderer` |
| `FrameBuffer` | maps of contexts, windows and color buffers, windows' fields, each thread's `RenderThreadInfo`, its decoders and what EGL has current; one action per entry point, each under `m_lock`; a repost is two (`RepostRead`, `RepostPost`), since it reads what to post before it takes the lock |
| `ThreadLocal` | abstract: a variable of each render thread |
| `LazyInstance` | `needConstruction` step by step, the construction of the `ThreadStore`, its `set` and `get`; refines `ThreadLocal` |
| `MC...` | instances and symmetry for TLC |

### Abstractions

* A channel is the address of the guest's pipe object, so it may be reused after
  the pipe is released. The guest is a 32-bit one, as `qemu_guest_is_64bit` has it:
  an address fits the channel register, and the parameter block and the registers
  carry the same command.
* MMIO accesses, fd handlers and callbacks run under QEMU's global mutex and are
  atomic. The bottom half calls several callbacks, one step each, while no other
  holder of that mutex runs (`BqlFree`).
* The device registers are used between lock and unlock of the guest's device
  lock. Such a section issues one command and is one step. The interrupt handler
  holds the lock over a loop; the host may step within it.
* The board declares the device's interrupt as edge triggered (`virt.c:549`), so the
  guest is given what is pending in the interrupt controller (`gicPending`) and not the
  level of the line (`irq`). `InKernelGic` says whose controller it is. KVM's is told
  every `qemu_set_irq` and pends the interrupt each time the line is raised
  (`arm_gic_kvm.c`; what the kernel does with it is external). QEMU's own returns when
  the level does not change (`arm_gic.c:183`), so that only a rising edge counts.
* Polling a descriptor and calling its handler are one step of the main loop.
* `poll()` ends on the events its caller asked for (`PollIn`, `PollOut`), on an error and
  on a hangup.
* The signalled list and the pending list are sets: nothing depends on their order.
* Of a transfer's byte count, only "something was moved" matters to the control of
  the driver; return values are left out. The connector's byte counts are in
  `PipeConnector`, where four letters of `pipe:` are one symbol.
* A call of `qemu_pipe_wake` without a pipe, and of `loopIo_done` on an io without a
  class, end QEMU: `bh` becomes `"crashed"`.
* Decoding is what the life cycle sees of it: it uses the stream, the object and the
  frame buffer, and may leave a context current.
* Smart pointers are reachability: an object is alive while a map, a thread or a
  window refers to it. An EGL surface that is destroyed while current leaves its
  thread an `orphan`. Buffers, windows and pbuffers have one of three sizes, of which 0
  stands for a width or a height of 0; pixels are left out. `refs`, `posted`, `behind`
  and `shown` are ghosts that record what clients did.
* Repaints, the subwindow and the end of the renderer are calls of one thread, the
  emulator's, and follow each other; clients' posts come between the two steps of a
  repost.
* In `LazyInstance` a load of the key by a thread that has not yet synchronised with
  its writer may return the initial zero if `WeakMemory` holds: both barriers of the
  code are compiler barriers, and ARM may reorder the loads or the stores.

## Properties and runs

The pipe (`GoldfishPipe`, `PipePoll`, `PipeConnector`):

* `NoLostWakeup`: a blocked guest thread has its wake-up on the way, at some
  stage between the wake bit and the interest in the socket; a signalled pipe counts
  only if the interrupt is pending or its handler runs (KVM's controller).
* `CloseReported`: a close by the host is known to the guest, being told, or
  signalled.
* `NoStaleChannel`: the interrupt handler never meets a released channel, and the
  device and the guest know the same pipes.
* `PendingServed`: an io with an undelivered event is pending, wanted and served, and
  a service that is gone wants nothing.
* `MutexDiscipline`: the pipe's mutex is held exactly by a thread in the locked
  part of a read, write or poll, if there are no signals and no pin failures. An
  interrupted second lock attempt (`RelockInterrupted`) releases a mutex that is not
  held, and a page that cannot be pinned (`PinFails`) leaves it locked.
* `PollMissesNoClose`: a poller that goes to sleep on a closed pipe has a wake-up
  coming, wherever between registration and command the close fell (KVM's controller).
* `ReaderServed`, `WriterServed`, `PollerSeesClose` (liveness): a blocked call of a
  connected pipe ends once the socket can serve it; a poller returns from a close.
* `ServiceAsInvited`, `AcceptedIsKept`: in whatever pieces a name is written, and
  whatever was refused before, the pipe goes to the service named by the bytes up to
  the first terminator, and the guest is told of the bytes that were kept.

The renderer (`RenderServer`, `FrameBuffer`, `LazyInstance`):

* `RenderingProtected`: until a render thread has set `m_finished`, its object, its
  stream and the frame buffer exist.
* `StopAfterFinalize`: when the server has been deleted, nobody renders and it had
  finalized the frame buffer, although `Thread::wait` may skip its join. If the server's
  thread could not be created, which `initOpenGLRenderer` does not notice, the frame
  buffer stays.
* `ClientServed`, `StopReturns` (liveness): a client that sent its flags gets a
  thread or is hung up on, if the server was started; the stop returns.
* `CurrentAgrees`, `WindowsKnowContext`: EGL, `RenderThreadInfo`, the windows and the
  decoder in use agree on what is current, and threads share none of it.
* `CurrentIsReal`: also when a pbuffer cannot be resized, a thread has current what its
  record says, with surfaces, or nothing.
* `SurfaceFitsBuffer`: the pbuffer of a window has the size of the attached buffer,
  whichever resizes failed before, as long as it has an area: one of width or height 0
  is taken for not created and never resized again. The property is about the pbuffer;
  the FBO that is drawn on after a bind keeps its first size.
* `HandlesDistinct`, `NamesKept`: handles of contexts and windows are unique and keep
  their meaning, also after the counter has wrapped.
* `RefcountIsClients`, `ShowsLastPosted`: reference counts are what clients hold, and
  the display shows no buffer but the last posted one, before the counter wraps. One
  case is excepted: a repost that a client's post overtook between its read and its
  lock puts the older buffer back until the next post (`behind`).
* `ImplementsThreadLocal`: the lazily constructed store is a variable per thread.
  `InfoFound`: `RenderThreadInfo::get()` is never NULL for a thread that has one.
  `AccessReturns` (liveness): the spinning threads are released.

`IndInv` of three modules is the inductive invariant of the proofs.

| Run | Instance | Result |
|---|---|---|
| `one_pipe` | 1 channel, a reader with signals and a writer whose pages may fail to pin; all outcomes of socket and connect; KVM's controller | pass, 2,232,434 states |
| `pipe_live` | 1 channel, a reader and writer, a poller for input; established or refused later; KVM's controller | pass, 70,266 states |
| `connector` | a buffer of 6 bytes, writes of up to 3, 2 refusals | pass, 45,791 states |
| `server` | 2 clients and the stop; the server's and the clients' threads, accept and unbind may fail | pass, 41,725 states |
| `fb_bindings` | 2 threads, 2 contexts (one per API), 2 windows, 1 buffer, handles 1..3 that wrap | pass, 965,941 states |
| `fb_posting` | 2 threads, 1 context, 1 window, 3 buffers of different size (one without an area), handles 1..3, EGL may fail | pass, 127,072 states |
| `lazy` | 3 threads, ordered memory | pass, 5,778 states |
| `close_race` | 2 threads, refused connect | `CloseWakesSleepers` violated |
| `async_read` | a read while connecting | `ReaderWoken` violated |
| `null_pipe` | 2 channels, refused connect | `NeverNullPipe` violated |
| `edge_gic` | a pipe is closed while signalled and opened again, QEMU's own controller | `ItemsRaiseIrq` violated |
| `lazy_arm` | reordering memory | `InfoFound` violated |

Deadlock is not checked: a guest may stop calling, all threads may wait for a
silent peer, and clients may leave.

### Bounds

* Pipe: two threads on a channel give every race between callers of one pipe and the
  interrupt handler. More channels and threads exceed what TLC explores together
  with faults, and the theorems cover them. Liveness is checked on connected pipes,
  because `async_read` shows what happens otherwise.
* `PipeConnector`: `Cap` is the buffer's size (128 in the code), long enough for a
  name, its argument and a rest, and small enough to fill up; `MaxWrite` and
  `MaxRefused` bound what the guest writes, two refusals being enough for an
  attempt on a buffer already split.
* `RenderServer`: two clients, so that one is reaped while the other starts, behind
  or before the exit connection.
* `FrameBuffer`: `W` is 2^32 in the code; with 4 the counter wraps and skips
  handles in use (`fb_bindings`), and three objects are enough for a resize of a current
  window and for a repost between two posts (`fb_posting`). `MaxRef` bounds the references taken on one buffer. `Posting`,
  `Wraps`, `EglFails` and `CrossThread` (a thread resizes a window that another has
  current) switch parts of the behaviour on, so that each run carries what its
  properties speak of. A color buffer is not looked up by `genHandle`, and EGL
  failures and foreign resizes do break the agreement of the bindings: that is why
  `CurrentAgrees` and `WindowsKnowContext` are stated without them. `CurrentIsReal` is
  what failures leave of it. No run switches `CrossThread` on: with it a failed resize
  takes the surface from under another thread, and nothing in the code says what
  should happen then. See the hazards in `PROJECT.json`.
* `LazyInstance`: three threads are one that constructs, one that spins and one that
  comes later.

### Fairness

QEMU's main loop polls every descriptor and runs a scheduled bottom half; the
guest takes its interrupt and runs its threads. Steps that need a lock get strong
fairness: the global mutex, the ticket spinlock and the FIFO mutex of the guest
serve their waiters. The interrupt handler is given strong fairness once its interrupt
is pending, which a raised line is only with KVM's controller: the runs on liveness have
`InKernelGic`, as the build does (`auto_make_arm64.sh` configures `--enable-kvm`), and
`edge_gic` shows what is lost otherwise. Nothing is assumed of the peer, of signals, or of a thread in
user space.

In the render server every runnable thread proceeds (weak fairness). Clients are
assumed to hang up in the end, since a render thread ends only with its stream. A
failing accept is never forced. In `LazyInstance` a thread inside an access runs
again: `sched_yield` lets the constructing thread in.

### Findings

1. A thread that sets its wake bit after the interrupt handler has reported the
   close is never woken (`close_race`).
2. After a refused connect the service can wake a null pipe (`null_pipe`).
3. Reading before an asynchronous connect is established cancels the wait for the
   connect, and the reader is never woken (`async_read`).
4. With QEMU's own interrupt controller, closing the last signalled pipe leaves the
   edge triggered line high (`pipe.c:500`), and the next pipe that is signalled raises
   no interrupt (`edge_gic`).
5. On ARM a render thread can see the store's state DONE and not yet its key, and
   gets no `RenderThreadInfo` (`lazy_arm`).

Seen in the models and not kept as runs of their own: a signal during the second lock
attempt releases a mutex another thread may hold (`qemu_pipe.c:425`); a page that cannot
be pinned leaves the pipe's mutex locked; a poller of a readable socket
may sleep, since poll arms no io; bytes behind the terminator of a name are counted
and dropped; a failing `socket_create` frees an io without a class (an outcome in
`one_pipe`); the server deletes a thread that has still to leave `thread_main`;
an unbind that failed releases its context after the teardown; after a wrap a color
buffer can take the handle of an open one; a window's FBO keeps its first size;
a pbuffer that lost its area is never resized again; an overtaken repost shows an older
buffer; a server whose thread could not be created is reported as running.

## Proofs

All theorems hold for any values of the constants that satisfy the named assumptions
of the modules (`NoChan` is no channel, sets of special threads are subsets of what
they classify, flags are Boolean), and the further conditions given here.

| Theorem | Statement | Condition |
|---|---|---|
| `Invariance`, `TypeCorrect`, `CloseTold`, `ChannelsAgree`, `EventsDelivered` | `IndInv`, `TypeOK`, `CloseReported`, `NoStaleChannel`, `PendingServed` of `GoldfishPipe` | none: signals, pin failures, all outcomes and both controllers included |
| `WakeupsKept` | `NoLostWakeup` of `GoldfishPipe` | KVM's controller (`InKernelGic`); signals, pin failures and all outcomes included |
| `PollTypeCorrect` | `PollTypeOK` of `PipePoll` | none |
| `PollSeesClose`, `PollDisturbsNobody` | `PollMissesNoClose`, and `NoLostWakeup` with `PendingServed` when pollers take part | KVM's controller |
| `LockGuards` | `MutexDiscipline` of `PipePoll` | no thread gets signals or fails to pin |
| `ConnectorTypes`, `InvitedIsServed`, `KeptIsAccepted` | `TypeOK`, `ServiceAsInvited`, `AcceptedIsKept` of `PipeConnector` | none: any size of the buffer and of the writes |
| `ServerInvariance`, `ServerTypes`, `RenderingSafe`, `StopSafe` | `IndInv`, `TypeOK`, `RenderingProtected`, `StopAfterFinalize` of `RenderServer` | none: a server thread that cannot be created, failing starts, accepts and unbinds, and an exit asked for by any client included |
| `FrameBufferTypes`, `HandlesAreDistinct`, `HandlesKeepNames`, `SurfacesFit` | `TypeOK`, `HandlesDistinct`, `NamesKept`, `SurfaceFitsBuffer` of `FrameBuffer` | none: wrapping, failures, foreign resizes and sizes of 0 included |
| `BindingsAgree`, `WindowsAgree` | `CurrentAgrees`, `WindowsKnowContext` | no EGL failure, no foreign resize |
| `FailureContained` | `CurrentIsReal` | no foreign resize |
| `ReferencesCounted`, `PostedIsShown` | `RefcountIsClients`, `ShowsLastPosted` | the counter does not wrap |
| `LazyInvariance`, `StoreIsThreadLocal`, `InfoIsFound` | `IndInv`, `ImplementsThreadLocal`, `InfoFound` of `LazyInstance` | memory is not reordered |

**The pipe.** `NoLostWakeup` is not inductive: it speaks of four components at once,
and only about blocked threads. `IndInv` splits it along the interfaces.

* `Wiring`: guest and host agree on the open pipes.
* `DeviceInv`: with KVM's controller a signalled pipe has the interrupt pending or its
  handler running, and the close flag is only
  pending on a closed, signalled pipe.
* `ServiceInv`: a connected socket is watched for exactly what the service wants.
* `RegistrationKept`: what the guest registered is known to the service or signalled.
* `WakeBitCovered`: a wake bit is registered, being registered, or being cleared.
* `CloseReported`, which `WakeBitCovered` needs where WAKE_ON meets a closed pipe.

`PipeEffectProofs` shows that every step keeps the types, and reduces the steps to
twelve effects (`StepEffects`), each saying what a step may change.
`GoldfishPipeProofs` shows that every effect keeps every conjunct, and that every step
keeps `PendingServed`, which is inductive once the service's part of `IndInv` is known.

**Pollers** (`PipePollProofs`). A step of `PollNext` is a step of the pipe or one that
leaves the pipe's own state alone, so the pipe's invariant carries over (`PollInv`). That
a poller misses no close needs the order within `qemu_pipe_poll`: it is in the
wait queue before it asks the device (`PollWiring`), so a close that comes after the
answer meets a registered poller, and one that came before is in the answer
(`CloseReaches`, which starts where the answer is known and the poller still awake).
`LockGuards` follows one mutex through the three kinds of calls: whoever stands between
lock and unlock holds it. Its two hypotheses are those the code needs: a signal during
the second lock attempt leads to the unlock of a mutex not held, and a thread whose page
cannot be pinned returns with the mutex held.

**The connector** (`PipeConnectorProofs`). The invariant `ConnectorInv` adds to
`ServiceAsInvited` what the buffer holds (`BufferIsStored`): all that was copied to it,
without a terminator, until a write is refused; from then on that with its name split in
place. The name is found in the split buffer as in the whole one, with its arguments or
without (`SplitKeepsName`), and bytes behind the terminator change nothing
(`SplitThenMore`). The first occurrence of a byte is the least of its positions, by the
library's theorem on well-founded orders; no induction over sequences is needed.

**The server** (`RenderServerProofs`). That a rendering thread keeps its object needs
the place of that thread: it is in Main's set, or is the one just started, and once
Main waits it is among those still to be waited for (`ThreadInv`); connections not yet
accepted have nothing (`QueueInv`); Main's loops keep this (`MainInv`); and the
server's own running flag is up until Main has returned, or was never up (`StopInv`).

**The frame buffer** (`FrameBufferProofs`, `FrameBindProofs`). Unique handles follow
from `genHandle`'s lookup and from objects being created once. For the bindings the
invariant `BindInv` adds to `CurrentAgrees` and `WindowsKnowContext` that a thread
with a context has both windows. When EGL may fail, `RealInv` keeps of this that EGL
has two windows current in a thread, with surfaces, or nothing: a resize that fails
first takes the window from its own thread. `SurfacesFit` needs that a pbuffer with an area has both
the size that the window and the size that its pbuffer is recorded with (`Fits`), since
`setColorBuffer` compares the one and `resizePbuffer` the other.
The count of references and the posted buffer rest on `Counted`: handles the counter
has not reached name no color buffer, no buffer has two handles, and the handle last
posted names the posted buffer or nothing, unless a repost was overtaken. The types are proved in three parts (maps,
bindings, posting), since most operations touch one of them only.

**The thread store** (`LazyInstanceProofs`). At most one thread constructs, nobody
uses the store before DONE, and there is one key (`StoreInv`, `ThreadInv`); then
every step of `LazyInstance` is a step of `ThreadLocal` or a stutter, with `info`
the threads that have a value under the stored key.

Every safety property of a passing run is proved. Only model-checked are the liveness
properties (`ReaderServed`, `WriterServed`, `PollerSeesClose`, `ClientServed`,
`StopReturns`, `AccessReturns`), which are out of the prover's reach together with
fairness.

## Not modelled

* The generic looper (`looper-generic.c`, `iolooper-select.c`, `refset.c`,
  `vector.h`): `looper_newGeneric` has no caller, so nothing in the program depends on it.
* Timers of the QEMU looper, the async reader, writer and line reader: no user in the
  pipe.
* The registration of services, the register file, the access parameter block, the
  probe and remove of the guest module: straight-line code without concurrent users.
* Streams and the read buffer: sequential framing, one per render thread; the server's
  model has their end of stream.
* Decoders (generated, one case per GL entry point), window glue, `opengles.c`, socket
  wrappers: no state that another part reads, or pure I/O.
* Upstream QEMU, more than a million lines around the port, which the port uses
  through its main loop, bottom halves, fd handlers, global mutex and interrupt
  controller; of these the models have what the pipe sees. For this reason the models cover a small share of all lines under `src/`,
  and most of the concurrent code that is specific to the port.
