-------------------------- MODULE PipeEffectProofs --------------------------
(***************************************************************************)
(* What each step of the pipe does, stated as the effect on the state that  *)
(* the invariants speak of, and the proof that every step keeps the pipe    *)
(* type correct.                                                            *)
(***************************************************************************)
EXTENDS GoldfishPipe, TLAPS

\* A step of thread t that touches neither the host, nor the flags of a pipe, nor
\* the interrupt handler, and does not register a wake bit.
LocalEffect(t) ==
  /\ UNCHANGED <<hostVars, radix, flags, devLock, isrChan>>
  /\ pc[t] # "wakeon"
  /\ \E p \in Places \ {"setbit", "wakeon"} : pc' = [pc EXCEPT ![t] = p]
  /\ \E c \in Chan : /\ file' = [file EXCEPT ![t] = c]
                     /\ c \in radix \/ pc'[t] = "idle"
  /\ dir' \in [Thread -> Dirs] /\ \A u \in Thread \ {t} : dir'[u] = dir[u]
  /\ moved' \in [Thread -> BOOLEAN]
  /\ mutex' \in [Chan -> Thread \cup {NoThread}]

\* The steps of a call that only concern the guest have that effect.
LEMMA LocalSteps ==
  ASSUME TypeOK, Wiring, NEW t \in Thread,
         \/ \E c \in Chan, d \in Dirs : Call(t, c, d)
         \/ Lock(t) \/ LockInterrupted(t) \/ RelockInterrupted(t) \/ PinFails(t)
         \/ UnlockToWait(t) \/ Unlock(t) \/ TestWakeBit(t) \/ Wake(t) \/ WaitInterrupted(t)
  PROVE  LocalEffect(t)
<1> USE DEF LocalEffect, TypeOK, DriverTypeOK, Wiring, Goto, Return, Dirs, Places
<1>1. CASE \E c \in Chan, d \in Dirs : Call(t, c, d)
  <2>1. PICK c \in Chan, d \in Dirs : Call(t, c, d)
    BY <1>1
  <2>2. UNCHANGED <<hostVars, radix, flags, devLock, isrChan, mutex, moved>> /\ pc[t] = "idle"
    BY <2>1 DEF Call
  <2>3. pc' = [pc EXCEPT ![t] = "lock"] /\ file' = [file EXCEPT ![t] = c] /\ c \in radix
    BY <2>1 DEF Call
  <2>4. dir' = [dir EXCEPT ![t] = d]
    BY <2>1 DEF Call
  <2> QED
    BY <2>2, <2>3, <2>4, Zenon
<1>2. CASE Lock(t)
  BY <1>2, Zenon DEF Lock
<1>3. CASE LockInterrupted(t)
  BY <1>3, Zenon DEF LockInterrupted
<1>4. CASE RelockInterrupted(t)
  BY <1>4, Zenon DEF RelockInterrupted
<1>5. CASE PinFails(t)
  BY <1>5, Zenon DEF PinFails
<1>6. CASE UnlockToWait(t)
  BY <1>6, Zenon DEF UnlockToWait
<1>7. CASE Unlock(t)
  BY <1>7, Zenon DEF Unlock
<1>8. CASE TestWakeBit(t)
  BY <1>8, Zenon DEF TestWakeBit
<1>9. CASE Wake(t)
  <2>1. UNCHANGED <<hostVars, radix, flags, devLock, isrChan, mutex>> /\ pc[t] = "sleep"
    BY <1>9 DEF Wake
  <2>2. CASE Return(t)
    BY <2>1, <2>2, Zenon
  <2>3. CASE Goto(t, "test") /\ UNCHANGED moved
    BY <2>1, <2>3, Zenon
  <2> QED
    BY <1>9, <2>2, <2>3 DEF Wake
<1>10. CASE WaitInterrupted(t)
  BY <1>10, Zenon DEF WaitInterrupted
<1> QED
  BY <1>1, <1>2, <1>3, <1>4, <1>5, <1>6, <1>7, <1>8, <1>9, <1>10

\* netPipe_resetState leaves the io watching for the wake flags in Dirs when the
\* pipe is connected, for a wanted write always, and keeps no stale ready flags.
LEMMA ResetStateIo ==
  ASSUME NEW io \in [wanted : SUBSET Dirs, ready : SUBSET Dirs], NEW state, NEW ww \in SUBSET WakeFlags
  PROVE  LET r == ResetState(io, state, ww)
         IN  /\ r \in [wanted : SUBSET Dirs, ready : SUBSET Dirs]
             /\ state = "CONNECTED" => r.wanted = ww \cap Dirs
             /\ "WRITE" \in ww => "WRITE" \in r.wanted
             /\ io.ready \cap io.wanted # {} \/ io.ready = {}
                  => r.ready \cap r.wanted # {} \/ r.ready = {}
             /\ r.ready \subseteq io.ready
<1> DEFINE Ios == [wanted : SUBSET Dirs, ready : SUBSET Dirs]
           Sane(x) == x.ready \cap x.wanted # {} \/ x.ready = {}
<1>1. ASSUME NEW x \in Ios, NEW w \in SUBSET Dirs
      PROVE  /\ Modify(x, w) \in Ios /\ Modify(x, w).wanted = w /\ (Sane(x) => Sane(Modify(x, w)))
             /\ Modify(x, w).ready \subseteq x.ready
  BY DEF Modify
<1>2. ASSUME NEW x \in Ios, NEW d \in Dirs
      PROVE  /\ Want(x, d) \in Ios /\ Want(x, d).wanted = x.wanted \cup {d}
             /\ DontWant(x, d) \in Ios /\ DontWant(x, d).wanted = x.wanted \ {d}
             /\ Sane(x) => Sane(Want(x, d)) /\ Sane(DontWant(x, d))
             /\ Want(x, d).ready \subseteq x.ready /\ DontWant(x, d).ready \subseteq x.ready
  <2>1. x.wanted \cup {d} \in SUBSET Dirs /\ x.wanted \ {d} \in SUBSET Dirs
    OBVIOUS
  <2> QED
    BY <2>1, <1>1, ZenonT(60) DEF Want, DontWant
<1>3. "READ" \in Dirs /\ "WRITE" \in Dirs
  BY DEF Dirs
<1> DEFINE io1 == IF "WRITE" \in ww THEN Want(io, "WRITE") ELSE DontWant(io, "WRITE")
           r == IF state = "CONNECTED" /\ "READ" \in ww THEN Want(io1, "READ") ELSE DontWant(io1, "READ")
<1>4. r = ResetState(io, state, ww)
  BY DEF ResetState
<1>5. /\ io1 \in Ios
      /\ io1.wanted = IF "WRITE" \in ww THEN io.wanted \cup {"WRITE"} ELSE io.wanted \ {"WRITE"}
      /\ Sane(io) => Sane(io1)
      /\ io1.ready \subseteq io.ready
  BY <1>2, <1>3, Zenon
<1> HIDE DEF io1
<1>6. /\ r \in Ios
      /\ r.wanted = IF state = "CONNECTED" /\ "READ" \in ww THEN io1.wanted \cup {"READ"} ELSE io1.wanted \ {"READ"}
      /\ Sane(io1) => Sane(r)
      /\ r.ready \subseteq io1.ready
  BY <1>2, <1>3, <1>5, Zenon
<1> HIDE DEF r
<1>7. state = "CONNECTED" => r.wanted = ww \cap Dirs
  BY <1>5, <1>6 DEF Dirs
<1>8. "WRITE" \in ww => "WRITE" \in r.wanted
  BY <1>5, <1>6
<1> QED
  BY <1>4, <1>5, <1>6, <1>7, <1>8

\* The state of the socket changes, to a state of its type.
SocketTypeOK ==
  /\ sock \in [Chan -> SockStates]
  /\ rx \in [Chan -> BOOLEAN]
  /\ txFull \in [Chan -> BOOLEAN]

\* Pipe c, which had the connector for its service, gets a net pipe.
Connects(c) ==
  /\ c \in pipes /\ funcs[c] = "connector" /\ ~closed[c]
  /\ funcs' = [funcs EXCEPT ![c] = "net"]
  /\ hwpipe' = [hwpipe EXCEPT ![c] = TRUE]
  /\ wakeWanted' = [wakeWanted EXCEPT ![c] = {}]
  /\ \E n \in {"CONNECTED", "CONNECTING"}, w \in SUBSET Dirs :
       /\ npState' = [npState EXCEPT ![c] = n]
       /\ n = "CONNECTED" => w = {}
       /\ SetIo(c, [wanted |-> w, ready |-> {}])

\* A page transfer of thread t: on the host it moves bytes, or connects the pipe;
\* only a net pipe makes the thread wait.
TransferEffect(t) ==
  /\ UNCHANGED <<pipes, wanted, closed, signaled, irq, gicPending, devWakes>>
  /\ bh' \in {bh, "crashed"}
  /\ UNCHANGED <<radix, flags, mutex, devLock, isrChan, file, dir>>
  /\ SocketTypeOK'
  /\ moved' \in [Thread -> BOOLEAN]
  /\ pc[t] = "transfer"
  /\ \E p \in {"transfer", "unlock", "setbit"} :
       /\ pc' = [pc EXCEPT ![t] = p]
       /\ p = "setbit" => funcs[file[t]] = "net"
  /\ \/ UNCHANGED <<funcs, ioWanted, ioReady, ioPending, netVars>>
     \/ Connects(file[t])

\* Transfer has that effect.
LEMMA TransferSteps ==
  ASSUME TypeOK, Wiring, NEW t \in Thread, Transfer(t)
  PROVE  TransferEffect(t)
<1> DEFINE c == file[t]
<1>1. PICK st \in Statuses :
        /\ IF dir[t] = "READ" THEN CmdRead(c, st) ELSE CmdWrite(c, st)
        /\ \E place \in NextPlaces(t, st) : Goto(t, place)
        /\ moved' = [moved EXCEPT ![t] = @ \/ st = "OK"]
  BY Zenon DEF Transfer
<1>2. pc[t] = "transfer" /\ UNCHANGED <<radix, flags, mutex, devLock, isrChan>>
  BY DEF Transfer
<1>3. UNCHANGED <<file, dir>>
  BY <1>1 DEF Goto
<1>4. moved' \in [Thread -> BOOLEAN]
  BY <1>1 DEF TypeOK, DriverTypeOK
<1>5. c \in Chan /\ c \in pipes
  BY <1>2 DEF TypeOK, DriverTypeOK, Wiring, NoStaleChannel
<1> HIDE DEF c
<1>6. ASSUME CmdRead(c, st)
      PROVE  /\ UNCHANGED <<deviceVars, looperVars, netVars>>
             /\ SocketTypeOK'
             /\ st = "AGAIN" => funcs[c] = "net"
  <2>1. CASE Rejected(c, st) /\ UNCHANGED hostVars
    BY <2>1, <1>5 DEF Rejected, hostVars, sockVars, TypeOK, HostTypeOK, NetTypeOK, SocketTypeOK
  <2>2. CASE Accepted(c) /\ funcs[c] = "connector" /\ st = "IO" /\ UNCHANGED hostVars
    BY <2>2 DEF hostVars, sockVars, TypeOK, HostTypeOK, NetTypeOK, SocketTypeOK
  <2>3. CASE /\ Accepted(c) /\ funcs[c] = "net" /\ NetRecv(c, st)
             /\ UNCHANGED <<deviceVars, looperVars, netVars>>
    BY <2>3 DEF NetRecv, TypeOK, HostTypeOK, NetTypeOK, SocketTypeOK
  <2> QED
    BY <1>6, <2>1, <2>2, <2>3 DEF CmdRead
<1>7. ASSUME CmdWrite(c, st)
      PROVE  /\ UNCHANGED <<pipes, wanted, closed, signaled, irq, gicPending, devWakes>>
             /\ bh' \in {bh, "crashed"}
             /\ SocketTypeOK'
             /\ st = "AGAIN" => funcs[c] = "net"
             /\ UNCHANGED <<funcs, ioWanted, ioReady, ioPending, netVars>> \/ Connects(c)
  <2>1. CASE Rejected(c, st) /\ UNCHANGED hostVars
    BY <2>1, <1>5 DEF Rejected, hostVars, deviceVars, looperVars, sockVars, TypeOK, HostTypeOK, NetTypeOK, SocketTypeOK
  <2>2. CASE Accepted(c) /\ funcs[c] = "connector" /\ ConnectorSend(c, st)
    <3>1. CASE st \in {"OK", "EOF", "INVAL"} /\ UNCHANGED hostVars
      BY <3>1 DEF hostVars, deviceVars, looperVars, sockVars, TypeOK, HostTypeOK, NetTypeOK, SocketTypeOK
    <3>2. CASE /\ st \in {"OK", "EOF"}
               /\ \E result \in ConnectResults \ {"error", "nosocket"} : NetInitOk(c, result)
               /\ funcs' = [funcs EXCEPT ![c] = "net"]
               /\ UNCHANGED <<pipes, wanted, closed, signaled, irq, gicPending, devWakes, bh>>
      <4>1. PICK result \in ConnectResults : NetInitOk(c, result)
        BY <3>2
      <4>2. SocketTypeOK'
        BY <4>1, <1>5 DEF NetInitOk, TypeOK, HostTypeOK, NetTypeOK, SocketTypeOK, SockStates
      <4>3. Connects(c)
        <5> DEFINE n == IF result = "complete" THEN "CONNECTED" ELSE "CONNECTING"
                   w == IF result = "complete" THEN {} ELSE {"WRITE"}
        <5>1. npState' = [npState EXCEPT ![c] = n] /\ SetIo(c, [wanted |-> w, ready |-> {}])
          BY <4>1 DEF NetInitOk
        <5>2. n \in {"CONNECTED", "CONNECTING"} /\ w \in SUBSET Dirs /\ (n = "CONNECTED" => w = {})
          BY DEF Dirs
        <5>3. hwpipe' = [hwpipe EXCEPT ![c] = TRUE] /\ wakeWanted' = [wakeWanted EXCEPT ![c] = {}]
          BY <4>1 DEF NetInitOk
        <5> HIDE DEF n, w
        <5>4. \E nn \in {"CONNECTED", "CONNECTING"}, ww \in SUBSET Dirs :
                /\ npState' = [npState EXCEPT ![c] = nn]
                /\ nn = "CONNECTED" => ww = {}
                /\ SetIo(c, [wanted |-> ww, ready |-> {}])
          BY <5>1, <5>2, Zenon
        <5> QED
          BY <5>3, <5>4, <3>2, <2>2, <1>5, Zenon DEF Connects, Accepted
      <4> QED
        BY <3>2, <4>2, <4>3
    <3>3. CASE st = "INVAL" /\ NetInitNoSocket /\ UNCHANGED deviceVars
      BY <3>3 DEF NetInitNoSocket, deviceVars, sockVars, TypeOK, HostTypeOK, NetTypeOK, SocketTypeOK
    <3> QED
      BY <2>2, <3>1, <3>2, <3>3 DEF ConnectorSend
  <2>3. CASE /\ Accepted(c) /\ funcs[c] = "net" /\ NetSend(c, st)
             /\ UNCHANGED <<deviceVars, looperVars, netVars>>
    <3>1. SocketTypeOK'
      BY <2>3 DEF NetSend, TypeOK, HostTypeOK, NetTypeOK, SocketTypeOK
    <3> QED
      BY <2>3, <3>1 DEF deviceVars, looperVars
  <2> QED
    BY <1>7, <2>1, <2>2, <2>3 DEF CmdWrite
<1>8. /\ UNCHANGED <<pipes, wanted, closed, signaled, irq, gicPending, devWakes>>
      /\ bh' \in {bh, "crashed"}
      /\ SocketTypeOK'
      /\ st = "AGAIN" => funcs[c] = "net"
      /\ UNCHANGED <<funcs, ioWanted, ioReady, ioPending, netVars>> \/ Connects(c)
  BY <1>1, <1>6, <1>7 DEF c, deviceVars, looperVars
<1>9. \E p \in {"transfer", "unlock", "setbit"} :
        pc' = [pc EXCEPT ![t] = p] /\ (p = "setbit" => funcs[c] = "net")
  <2>1. PICK place \in NextPlaces(t, st) : Goto(t, place)
    BY <1>1
  <2>2. place \in {"transfer", "unlock", "setbit"} /\ (place = "setbit" => st = "AGAIN")
    BY <2>1 DEF NextPlaces
  <2> QED
    BY <2>1, <2>2, <1>8, Zenon DEF Goto
<1> QED
  BY <1>2, <1>3, <1>4, <1>8, <1>9, Zenon DEF c, TransferEffect

\* Storing an io of the right type keeps the looper's state of the right type.
LEMMA SetIoType ==
  ASSUME LooperTypeOK, NEW c \in Chan, NEW io \in [wanted : SUBSET Dirs, ready : SUBSET Dirs], SetIo(c, io)
  PROVE  /\ ioWanted' = [ioWanted EXCEPT ![c] = io.wanted] /\ ioWanted' \in [Chan -> SUBSET Dirs]
         /\ ioReady' = [ioReady EXCEPT ![c] = io.ready] /\ ioReady' \in [Chan -> SUBSET Dirs]
         /\ ioPending' \in SUBSET Chan
  BY DEF SetIo, LooperTypeOK, DelPending

\* The io of a channel, as it is or taken off the pending list, has the type of one.
LEMMA IoType ==
  ASSUME LooperTypeOK, NEW c \in Chan
  PROVE  /\ Io(c) \in [wanted : SUBSET Dirs, ready : SUBSET Dirs]
         /\ Popped(c) \in [wanted : SUBSET Dirs, ready : SUBSET Dirs]
         /\ ConnectorIo(c) \in [wanted : SUBSET Dirs, ready : SUBSET Dirs]
<1>1. /\ Io(c) \in [wanted : SUBSET Dirs, ready : SUBSET Dirs]
      /\ Popped(c) \in [wanted : SUBSET Dirs, ready : SUBSET Dirs]
  BY DEF LooperTypeOK, Io, Popped
<1>2. ConnectorIo(c) \in [wanted : SUBSET Dirs, ready : SUBSET Dirs]
  BY <1>1 DEF ConnectorIo, DontWant, Modify
<1> QED
  BY <1>1, <1>2

\* The type invariant is kept by the device's operations on a pipe.
LEMMA DeviceOpsType ==
  ASSUME DeviceTypeOK, NEW c \in Chan, NEW w \in SUBSET WakeFlags,
         QemuPipeWake(c, w) \/ QemuPipeClose(c) \/ ReadChannel(c) \/ CmdOpen(c) \/ UnlinkPipe(c)
  PROVE  DeviceTypeOK'
<1> USE DEF DeviceTypeOK, Services, WakeFlags
<1>1. CASE QemuPipeWake(c, w)
  BY <1>1 DEF QemuPipeWake, RaiseIrq
<1>2. CASE QemuPipeClose(c)
  <2>1. CASE closed[c]
    BY <1>2, <2>1, Zenon DEF QemuPipeClose, deviceVars
  <2>2. CASE ~closed[c]
    <3>1. /\ closed' = [closed EXCEPT ![c] = TRUE] /\ RaiseIrq
          /\ signaled' = signaled \cup {c} /\ UNCHANGED <<pipes, funcs, devWakes>>
      BY <1>2, <2>2 DEF QemuPipeClose
    <3>2. wanted' = [wanted EXCEPT ![c] = @ \cup {"CLOSED"}]
      BY <1>2, <2>2 DEF QemuPipeClose
    <3>3. closed' \in [Chan -> BOOLEAN] /\ wanted' \in [Chan -> SUBSET WakeFlags]
      BY <3>1, <3>2
    <3> QED
      BY <3>1, <3>3 DEF RaiseIrq
  <2> QED
    BY <2>1, <2>2
<1>3. CASE ReadChannel(c)
  BY <1>3 DEF ReadChannel, LowerIrq
<1>4. CASE CmdOpen(c)
  BY <1>4 DEF CmdOpen
<1>5. CASE UnlinkPipe(c)
  BY <1>5 DEF UnlinkPipe
<1> QED
  BY <1>1, <1>2, <1>3, <1>4, <1>5

\* The type invariant is kept by every step of the pipe.
LEMMA TypeStep ==
  ASSUME TypeOK, Wiring, [Next]_vars
  PROVE  TypeOK'
<1> USE DEF TypeOK, HostTypeOK
<1>1. ASSUME NEW c \in Chan, Open(c) PROVE TypeOK'
  <2>1. DeviceTypeOK'
    BY <1>1, DeviceOpsType DEF Open
  <2>2. LooperTypeOK' /\ NetTypeOK'
    BY <1>1 DEF Open, LooperTypeOK, NetTypeOK, looperVars, netVars, sockVars
  <2>3. DriverTypeOK'
    BY <1>1 DEF Open, DriverTypeOK
  <2> QED
    BY <2>1, <2>2, <2>3
<1>2. ASSUME NEW c \in Chan, Release(c) PROVE TypeOK'
  <2>1. CmdClose(c)
    BY <1>2, Zenon DEF Release
  <2>2. DeviceTypeOK'
    BY <2>1, DeviceOpsType DEF CmdClose
  <2>3. LooperTypeOK' /\ NetTypeOK'
    <3>1. CASE UNCHANGED <<netVars, sockVars, looperVars>>
      BY <3>1 DEF LooperTypeOK, NetTypeOK, looperVars, netVars, sockVars
    <3>2. CASE NetClose(c) /\ UNCHANGED bh
      <4>1. SetIo(c, [wanted |-> {}, ready |-> {}])
        BY <3>2 DEF NetClose, FreeIo
      <4>2. LooperTypeOK'
        BY <4>1, <3>2, SetIoType DEF LooperTypeOK
      <4>3. NetTypeOK'
        BY <3>2 DEF NetClose, NetTypeOK, NetStates, SockStates
      <4> QED
        BY <4>2, <4>3
    <3> QED
      BY <2>1, <3>1, <3>2 DEF CmdClose
  <2>4. DriverTypeOK'
    BY <1>2 DEF Release, DriverTypeOK
  <2> QED
    BY <2>2, <2>3, <2>4
<1>3. ASSUME NEW t \in Thread, LocalEffect(t) PROVE TypeOK'
  <2>1. HostTypeOK'
    BY <1>3 DEF LocalEffect, hostVars, deviceVars, looperVars, netVars, sockVars,
                DeviceTypeOK, LooperTypeOK, NetTypeOK
  <2>2. DriverTypeOK'
    BY <1>3, ZenonT(60) DEF LocalEffect, DriverTypeOK
  <2> QED
    BY <2>1, <2>2
<1>4. ASSUME NEW t \in Thread, TransferEffect(t) PROVE TypeOK'
  <2>1. DriverTypeOK'
    BY <1>4 DEF TransferEffect, DriverTypeOK, Places
  <2>2. CASE UNCHANGED <<funcs, ioWanted, ioReady, ioPending, netVars>>
    BY <1>4, <2>1, <2>2 DEF TransferEffect, SocketTypeOK, DeviceTypeOK, LooperTypeOK, NetTypeOK, looperVars, netVars
  <2>3. CASE Connects(file[t])
    <3>1. file[t] \in Chan
      BY DEF DriverTypeOK
    <3>2. DeviceTypeOK'
      BY <1>4, <2>3, <3>1 DEF TransferEffect, Connects, DeviceTypeOK, Services
    <3>3. NetTypeOK'
      BY <1>4, <2>3, <3>1, ZenonT(60) DEF TransferEffect, Connects, NetTypeOK, SocketTypeOK, NetStates
    <3>4. PICK w \in SUBSET Dirs : SetIo(file[t], [wanted |-> w, ready |-> {}])
      BY <2>3, Zenon DEF Connects
    <3>5. LooperTypeOK'
      BY <1>4, <3>1, <3>4, SetIoType DEF TransferEffect, LooperTypeOK
    <3> QED
      BY <2>1, <3>2, <3>3, <3>5
  <2> QED
    BY <1>4, <2>2, <2>3 DEF TransferEffect
<1>5. ASSUME NEW t \in Thread, SetWakeBit(t) PROVE TypeOK'
  <2>1. HostTypeOK'
    BY <1>5 DEF SetWakeBit, hostVars, deviceVars, looperVars, netVars, sockVars,
                DeviceTypeOK, LooperTypeOK, NetTypeOK
  <2>2. DriverTypeOK'
    BY <1>5 DEF SetWakeBit, DriverTypeOK, Goto, WakeBit, Dirs, PipeBits, WakeFlags, Places
  <2> QED
    BY <2>1, <2>2
<1>6. ASSUME NEW t \in Thread, WakeOn(t) PROVE TypeOK'
  <2> DEFINE c == file[t]
             d == WakeBit(t)
  <2>1. c \in Chan /\ d \in Dirs /\ d \in WakeFlags
    BY DEF DriverTypeOK, WakeBit, Dirs, WakeFlags
  <2>2. DriverTypeOK'
    BY <1>6 DEF WakeOn, DriverTypeOK, Goto, Places
  <2>3. CmdWakeOn(c, d)
    BY <1>6 DEF WakeOn
  <2> HIDE DEF c, d
  <2>4. CASE UNCHANGED hostVars
    BY <2>2, <2>4 DEF hostVars, deviceVars, looperVars, netVars, sockVars,
                      DeviceTypeOK, LooperTypeOK, NetTypeOK
  <2>5. CASE /\ wanted' = [wanted EXCEPT ![c] = @ \cup {d}]
             /\ UNCHANGED <<pipes, funcs, closed, signaled, irq, gicPending, devWakes, sockVars>>
             /\ UNCHANGED <<netVars, looperVars>> \/ (NetWakeOn(c, wanted[c] \cup {d}) /\ UNCHANGED bh)
    <3>1. DeviceTypeOK'
      BY <2>5, <2>1 DEF DeviceTypeOK
    <3>2. CASE UNCHANGED <<netVars, looperVars>>
      BY <2>5, <3>2, <3>1, <2>2 DEF looperVars, netVars, sockVars, LooperTypeOK, NetTypeOK
    <3>3. CASE NetWakeOn(c, wanted[c] \cup {d}) /\ UNCHANGED bh
      <4>1. wakeWanted[c] \cup wanted[c] \cup {d} \in SUBSET WakeFlags
        BY <2>1 DEF DeviceTypeOK, NetTypeOK
      <4>2. SetIo(c, ResetState(Io(c), npState[c], wakeWanted[c] \cup (wanted[c] \cup {d})))
        BY <3>3 DEF NetWakeOn
      <4>3. ResetState(Io(c), npState[c], wakeWanted[c] \cup (wanted[c] \cup {d})) \in [wanted : SUBSET Dirs, ready : SUBSET Dirs]
        BY <2>1, <4>1, IoType, ResetStateIo
      <4>4. LooperTypeOK'
        BY <2>1, <3>3, <4>2, <4>3, SetIoType, Zenon DEF LooperTypeOK
      <4>5. NetTypeOK'
        BY <2>1, <2>5, <3>3, <4>1 DEF NetWakeOn, NetTypeOK, sockVars
      <4> QED
        BY <2>2, <3>1, <4>4, <4>5
    <3> QED
      BY <2>5, <3>2, <3>3
  <2> QED
    BY <2>3, <2>4, <2>5 DEF CmdWakeOn
<1>7. ASSUME IsrEnter \/ IsrExit \/ IsrHandle PROVE TypeOK'
  <2>1. HostTypeOK'
    BY <1>7 DEF IsrEnter, IsrExit, IsrHandle, hostVars, deviceVars, looperVars, netVars, sockVars,
                DeviceTypeOK, LooperTypeOK, NetTypeOK
  <2>2. DriverTypeOK'
    <3>1. CASE IsrEnter
      BY <3>1 DEF IsrEnter, DriverTypeOK
    <3>2. CASE IsrExit
      BY <3>2, Zenon DEF IsrExit, DriverTypeOK
    <3>3. CASE IsrHandle
      BY <3>3 DEF IsrHandle, DriverTypeOK, DeviceTypeOK, PipeBits
    <3> QED
      BY <1>7, <3>1, <3>2, <3>3
  <2> QED
    BY <2>1, <2>2
<1>8. ASSUME NEW c \in Chan, IsrChannel(c) PROVE TypeOK'
  <2>1. DeviceTypeOK'
    BY <1>8, DeviceOpsType DEF IsrChannel
  <2>2. LooperTypeOK' /\ NetTypeOK' /\ DriverTypeOK'
    BY <1>8 DEF IsrChannel, LooperTypeOK, NetTypeOK, DriverTypeOK, looperVars, netVars, sockVars
  <2> QED
    BY <2>1, <2>2
<1>9. ASSUME HostBh PROVE TypeOK'
  BY <1>9 DEF HostBh, BhStep, BhEnter, BhExit, driverVars, deviceVars, netVars, sockVars,
              DeviceTypeOK, LooperTypeOK, NetTypeOK, DriverTypeOK
<1>10. ASSUME NEW c \in Chan, NEW d \in Dirs, HostFd(c, d) PROVE TypeOK'
  <2>1. LooperTypeOK'
    BY <1>10 DEF HostFd, FdHandler, HandleFd, AddPending, LooperTypeOK
  <2>2. DeviceTypeOK' /\ NetTypeOK' /\ DriverTypeOK'
    BY <1>10 DEF HostFd, FdHandler, driverVars, deviceVars, netVars, sockVars, DeviceTypeOK, NetTypeOK, DriverTypeOK
  <2> QED
    BY <2>1, <2>2
<1>11. ASSUME NEW c \in Chan, HostPeer(c) PROVE TypeOK'
  <2>1. SocketTypeOK'
    BY <1>11, ConnectAssumption, Zenon DEF HostPeer, Peer, ConnectEnds, PeerSends, PeerReceives, PeerCloses, SocketTypeOK, NetTypeOK, SockStates
  <2>2. UNCHANGED <<deviceVars, looperVars, netVars, driverVars>>
    BY <1>11 DEF HostPeer, Peer
  <2> QED
    BY <2>1, <2>2 DEF deviceVars, looperVars, netVars, driverVars, SocketTypeOK,
                      DeviceTypeOK, LooperTypeOK, NetTypeOK, DriverTypeOK
<1>12. ASSUME NEW c \in Chan, HostIoFunc(c) PROVE TypeOK'
  <2>1. DriverTypeOK'
    BY <1>12 DEF HostIoFunc, driverVars, DriverTypeOK
  <2>2. wakeWanted[c] \in SUBSET WakeFlags /\ wakeWanted[c] \ EventWakes(c) \in SUBSET WakeFlags
        /\ EventWakes(c) \in SUBSET WakeFlags
    BY DEF NetTypeOK, EventWakes
  <2>3. ASSUME NEW io \in [wanted : SUBSET Dirs, ready : SUBSET Dirs], SetIo(c, io), UNCHANGED bh
        PROVE  LooperTypeOK'
    BY <2>3, SetIoType DEF LooperTypeOK
  <2>4. CASE IoFuncConnected(c)
    <3>1. LooperTypeOK'
      BY <2>2, <2>3, <2>4, IoType, ResetStateIo DEF IoFuncConnected
    <3>2. DeviceTypeOK' /\ NetTypeOK'
      BY <2>4 DEF IoFuncConnected, deviceVars, sockVars, DeviceTypeOK, NetTypeOK, NetStates
    <3> QED
      BY <2>1, <3>1, <3>2
  <2>5. CASE IoFuncRefused(c)
    <3>1. LooperTypeOK'
      BY <2>2, <2>3, <2>5, IoType, ResetStateIo DEF IoFuncRefused
    <3>2. DeviceTypeOK'
      <4>1. CASE QemuPipeClose(c)
        BY <4>1, DeviceOpsType
      <4>2. CASE UNCHANGED deviceVars
        BY <4>2 DEF deviceVars, DeviceTypeOK
      <4> QED
        BY <2>5, <4>1, <4>2, Zenon DEF IoFuncRefused
    <3>3. NetTypeOK'
      BY <2>5 DEF IoFuncRefused, sockVars, NetTypeOK, NetStates
    <3> QED
      BY <2>1, <3>1, <3>2, <3>3
  <2>6. CASE IoFuncEvents(c)
    <3>1. LooperTypeOK'
      BY <2>2, <2>3, <2>6, IoType, ResetStateIo, Zenon DEF IoFuncEvents
    <3>2. DeviceTypeOK'
      <4>1. CASE QemuPipeWake(c, EventWakes(c))
        BY <2>2, <4>1, DeviceOpsType
      <4>2. CASE UNCHANGED deviceVars
        BY <4>2 DEF deviceVars, DeviceTypeOK
      <4> QED
        BY <2>6, <4>1, <4>2, Zenon DEF IoFuncEvents
    <3>3. NetTypeOK'
      BY <2>2, <2>6 DEF IoFuncEvents, sockVars, NetTypeOK
    <3> QED
      BY <2>1, <3>1, <3>2, <3>3
  <2>7. CASE IoFuncNullPipe(c)
    BY <2>1, <2>7 DEF IoFuncNullPipe, deviceVars, netVars, sockVars, DeviceTypeOK, LooperTypeOK, NetTypeOK
  <2> QED
    BY <1>12, <2>4, <2>5, <2>6, <2>7 DEF HostIoFunc, IoFunc
<1>13. ASSUME UNCHANGED vars PROVE TypeOK'
  BY <1>13 DEF vars, hostVars, driverVars, deviceVars, looperVars, netVars, sockVars,
               DeviceTypeOK, LooperTypeOK, NetTypeOK, DriverTypeOK
<1> QED
  BY <1>1, <1>2, <1>3, <1>4, <1>5, <1>6, <1>7, <1>8, <1>9, <1>10, <1>11, <1>12, <1>13,
     LocalSteps, TransferSteps
     DEF Next, Guest, Host, ReadWrite, Runs, Isr

----------------------------------------------------------------------------
(* The steps that involve the service, and the case analysis over all steps. *)

\* The io of pipe c after netPipe_resetState with wake flags ww in state n.
Rearmed(c, n, ww) ==
  \E w \in SUBSET Dirs :
    /\ ioWanted' = [ioWanted EXCEPT ![c] = w]
    /\ n = "CONNECTED" => w = ww \cap Dirs
    /\ "WRITE" \in ww => "WRITE" \in w

\* Storing the result of netPipe_resetState rearms the io.
LEMMA ResetRearms ==
  ASSUME LooperTypeOK, NEW c \in Chan, NEW n, NEW ww \in SUBSET WakeFlags,
         NEW io \in [wanted : SUBSET Dirs, ready : SUBSET Dirs],
         SetIo(c, ResetState(io, n, ww))
  PROVE  Rearmed(c, n, ww)
<1> DEFINE r == ResetState(io, n, ww)
<1>1. /\ r \in [wanted : SUBSET Dirs, ready : SUBSET Dirs]
      /\ n = "CONNECTED" => r.wanted = ww \cap Dirs
      /\ "WRITE" \in ww => "WRITE" \in r.wanted
  BY ResetStateIo
<1>2. ioWanted' = [ioWanted EXCEPT ![c] = r.wanted]
  BY <1>1, SetIoType
<1> HIDE DEF r
<1> QED
  BY <1>1, <1>2, Zenon DEF Rearmed

\* The WAKE_ON command of thread t.
WakeOnEffect(t) ==
  LET c == file[t]
      d == dir[t]
      ww == wakeWanted[c] \cup (wanted[c] \cup {d})
  IN  /\ UNCHANGED <<pipes, funcs, closed, signaled, irq, gicPending, devWakes, npState, hwpipe>>
      /\ UNCHANGED <<radix, flags, mutex, devLock, isrChan, file, dir, moved>>
      /\ pc[t] = "wakeon"
      /\ pc' = [pc EXCEPT ![t] = "unlockwait"]
      /\ \/ UNCHANGED <<wanted, wakeWanted, ioWanted>> /\ (closed[c] \/ d \in wanted[c])
         \/ /\ ~closed[c]
            /\ wanted' = [wanted EXCEPT ![c] = @ \cup {d}]
            /\ wakeWanted' = [wakeWanted EXCEPT ![c] = ww]
            /\ Rearmed(c, npState[c], ww)

\* WakeOn has that effect.
LEMMA WakeOnSteps ==
  ASSUME TypeOK, Wiring, NEW t \in Thread, WakeOn(t)
  PROVE  WakeOnEffect(t)
<1> DEFINE c == file[t]
           d == dir[t]
           ww == wakeWanted[c] \cup (wanted[c] \cup {d})
<1>1. c \in Chan /\ d \in Dirs /\ LooperTypeOK
  BY DEF TypeOK, HostTypeOK, DriverTypeOK
<1>2. c \in pipes /\ funcs[c] = "net"
  BY Zenon DEF WakeOn, Wiring, NoStaleChannel
<1>3. ww \in SUBSET WakeFlags
  BY <1>1 DEF TypeOK, HostTypeOK, DeviceTypeOK, NetTypeOK, Dirs, WakeFlags
<1>4. /\ UNCHANGED <<radix, flags, mutex, devLock, isrChan, file, dir, moved>>
      /\ pc[t] = "wakeon" /\ pc' = [pc EXCEPT ![t] = "unlockwait"]
  BY DEF WakeOn, Goto
<1>5. CmdWakeOn(c, d)
  BY DEF WakeOn, WakeBit
<1>6. CASE (~Accepted(c) \/ d \in wanted[c]) /\ UNCHANGED hostVars
  BY <1>2, <1>4, <1>6, Zenon DEF WakeOnEffect, Accepted, hostVars, deviceVars, looperVars, netVars
<1>7. CASE /\ Accepted(c)
           /\ wanted' = [wanted EXCEPT ![c] = @ \cup {d}]
           /\ NetWakeOn(c, wanted[c] \cup {d})
           /\ UNCHANGED <<pipes, funcs, closed, signaled, irq, gicPending, devWakes>>
  <2>1. Rearmed(c, npState[c], ww)
    BY <1>1, <1>3, <1>7, IoType, ResetRearms, Zenon DEF NetWakeOn
  <2>2. wakeWanted' = [wakeWanted EXCEPT ![c] = ww] /\ UNCHANGED <<npState, hwpipe>>
    BY <1>7 DEF NetWakeOn
  <2> QED
    BY <1>4, <1>7, <2>1, <2>2, Zenon DEF WakeOnEffect, Accepted
<1> QED
  BY <1>2, <1>5, <1>6, <1>7, Zenon DEF CmdWakeOn

\* The callback of the io of pipe c: the connection is established; it failed and
\* the pipe is closed; events e wake the guest; or QEMU crashes.
IoFuncEffect(c) ==
  /\ UNCHANGED <<pipes, funcs, devWakes>> /\ UNCHANGED driverVars
  /\ \/ /\ UNCHANGED <<wanted, closed, signaled, irq, gicPending, hwpipe, wakeWanted>>
        /\ npState[c] = "CONNECTING"
        /\ npState' = [npState EXCEPT ![c] = "CONNECTED"]
        /\ Rearmed(c, "CONNECTED", wakeWanted[c])
     \/ /\ npState[c] = "CONNECTING"
        /\ npState' = [npState EXCEPT ![c] = "CLOSING_SOCKET"]
        /\ hwpipe' = [hwpipe EXCEPT ![c] = FALSE]
        /\ closed' = [closed EXCEPT ![c] = TRUE]
        /\ signaled' = signaled \cup {c}
        /\ wanted' = [wanted EXCEPT ![c] = @ \cup {"CLOSED"}]
        /\ RaiseIrq
        /\ Rearmed(c, "CLOSING_SOCKET", wakeWanted[c])
        /\ UNCHANGED wakeWanted
     \/ /\ npState[c] # "CONNECTING"
        /\ UNCHANGED <<closed, npState, hwpipe>>
        /\ \E e \in SUBSET Dirs :
             /\ wakeWanted' = [wakeWanted EXCEPT ![c] = @ \ e]
             /\ Rearmed(c, npState[c], wakeWanted[c] \ e)
             /\ \/ e = {} /\ UNCHANGED <<wanted, signaled, irq, gicPending>>
                \/ /\ e # {} /\ e \subseteq wakeWanted[c]
                   /\ hwpipe[c]
                   /\ signaled' = signaled \cup {c}
                   /\ wanted' = [wanted EXCEPT ![c] = @ \cup e]
                   /\ RaiseIrq
     \/ UNCHANGED <<wanted, closed, signaled, irq, gicPending, npState, hwpipe, wakeWanted, ioWanted>>

\* netPipe_io_func has that effect.
LEMMA IoFuncSteps ==
  ASSUME TypeOK, ServiceInv, NEW c \in Chan, HostIoFunc(c)
  PROVE  IoFuncEffect(c)
<1>1. LooperTypeOK /\ wakeWanted[c] \in SUBSET WakeFlags /\ UNCHANGED driverVars
  BY DEF TypeOK, HostTypeOK, NetTypeOK, HostIoFunc
<1>2. CASE IoFuncConnected(c)
  <2>1. Rearmed(c, "CONNECTED", wakeWanted[c])
    BY <1>1, <1>2, IoType, ResetRearms, Zenon DEF IoFuncConnected
  <2> QED
    BY <1>1, <1>2, <2>1, Zenon DEF IoFuncConnected, IoFuncEffect, deviceVars
<1>3. CASE IoFuncRefused(c)
  <2>1. Rearmed(c, "CLOSING_SOCKET", wakeWanted[c])
    BY <1>1, <1>3, IoType, ResetRearms, Zenon DEF IoFuncRefused
  <2>2. npState[c] = "CONNECTING" /\ hwpipe[c] /\ ~closed[c]
    BY <1>3, Zenon DEF IoFuncRefused, ServiceInv
  <2>3. QemuPipeClose(c)
    BY <1>3, <2>2 DEF IoFuncRefused
  <2>4. /\ closed' = [closed EXCEPT ![c] = TRUE] /\ signaled' = signaled \cup {c} /\ RaiseIrq
        /\ wanted' = [wanted EXCEPT ![c] = @ \cup {"CLOSED"}]
        /\ UNCHANGED <<pipes, funcs, devWakes>>
    BY <2>2, <2>3 DEF QemuPipeClose
  <2>5. /\ npState' = [npState EXCEPT ![c] = "CLOSING_SOCKET"]
        /\ hwpipe' = [hwpipe EXCEPT ![c] = FALSE] /\ UNCHANGED wakeWanted
    BY <1>3, Zenon DEF IoFuncRefused
  <2> QED
    BY <1>1, <2>1, <2>2, <2>4, <2>5, Zenon DEF IoFuncEffect
<1>4. CASE IoFuncEvents(c)
  <2> DEFINE e == EventWakes(c)
  <2>1. e \in SUBSET Dirs /\ e \subseteq wakeWanted[c] /\ wakeWanted[c] \ e \in SUBSET WakeFlags
    BY <1>1 DEF EventWakes, LooperTypeOK
  <2>2. Rearmed(c, npState[c], wakeWanted[c] \ e)
    BY <1>1, <1>4, <2>1, IoType, ResetRearms, Zenon DEF IoFuncEvents
  <2>3. npState[c] # "CONNECTING" /\ wakeWanted' = [wakeWanted EXCEPT ![c] = @ \ e]
        /\ UNCHANGED <<npState, hwpipe>>
    BY <1>4, Zenon DEF IoFuncEvents
  <2>4. CASE e = {} /\ UNCHANGED deviceVars
    BY <1>1, <2>1, <2>2, <2>3, <2>4, Zenon DEF IoFuncEffect, deviceVars
  <2>5. CASE e # {} /\ QemuPipeWake(c, e)
    <3>1. hwpipe[c]
      BY <1>4, <2>5, Zenon DEF IoFuncEvents
    <3>2. /\ signaled' = signaled \cup {c} /\ wanted' = [wanted EXCEPT ![c] = @ \cup e]
          /\ RaiseIrq /\ UNCHANGED <<pipes, funcs, closed, devWakes>>
      BY <2>5 DEF QemuPipeWake
    <3> HIDE DEF e
    <3> QED
      BY <1>1, <2>1, <2>2, <2>3, <2>5, <3>1, <3>2, Zenon DEF IoFuncEffect
  <2> QED
    BY <1>4, <2>4, <2>5 DEF IoFuncEvents
<1>5. CASE IoFuncNullPipe(c)
  BY <1>1, <1>5, Zenon DEF IoFuncNullPipe, IoFuncEffect, deviceVars, netVars
<1> QED
  BY <1>2, <1>3, <1>4, <1>5 DEF HostIoFunc, IoFunc

\* A step that leaves the guest, the device and the service as they are: the fd
\* handlers, entering and leaving the bottom half, and the peer.
QuietEffect == UNCHANGED <<deviceVars, netVars, driverVars, ioWanted>>

\* Those steps have that effect.
LEMMA QuietSteps ==
  ASSUME \/ HostBh
         \/ \E c \in Chan : HostPeer(c)
         \/ \E c \in Chan, d \in Dirs : HostFd(c, d)
         \/ UNCHANGED vars
  PROVE  QuietEffect
<1>1. CASE HostBh
  BY <1>1 DEF QuietEffect, HostBh, BhStep, BhEnter, BhExit
<1>2. CASE \E c \in Chan : HostPeer(c)
  BY <1>2 DEF QuietEffect, HostPeer, Peer, looperVars
<1>3. CASE \E c \in Chan, d \in Dirs : HostFd(c, d)
  BY <1>3 DEF QuietEffect, HostFd, FdHandler, HandleFd
<1>4. CASE UNCHANGED vars
  BY <1>4 DEF QuietEffect, vars, hostVars, looperVars
<1> QED
  BY <1>1, <1>2, <1>3, <1>4

\* qemu_pipe_release: nothing is left of pipe c.
ReleaseEffect(c) ==
  /\ c \in radix /\ ~devLock
  /\ \A t \in Thread : pc[t] # "idle" => file[t] # c
  /\ pipes' = pipes \ {c} /\ signaled' = signaled \ {c} /\ radix' = radix \ {c}
  /\ funcs' = [funcs EXCEPT ![c] = "connector"]
  /\ wanted' = [wanted EXCEPT ![c] = {}]
  /\ closed' = [closed EXCEPT ![c] = FALSE]
  /\ flags' = [flags EXCEPT ![c] = {}]
  /\ UNCHANGED <<irq, gicPending, devWakes, devLock, isrChan, pc, file, dir, moved>>
  /\ \/ funcs[c] = "connector" /\ UNCHANGED <<netVars, ioWanted>>
     \/ /\ npState' = [npState EXCEPT ![c] = "NONE"]
        /\ hwpipe' = [hwpipe EXCEPT ![c] = FALSE]
        /\ wakeWanted' = [wakeWanted EXCEPT ![c] = {}]
        /\ ioWanted' = [ioWanted EXCEPT ![c] = {}]

\* Release has that effect.
LEMMA ReleaseSteps ==
  ASSUME NEW c \in Chan, Release(c)
  PROVE  ReleaseEffect(c)
<1>1. CmdClose(c) /\ UnlinkPipe(c)
  BY DEF Release, CmdClose
<1>2. \/ funcs[c] = "connector" /\ UNCHANGED <<netVars, ioWanted>>
      \/ /\ npState' = [npState EXCEPT ![c] = "NONE"]
         /\ hwpipe' = [hwpipe EXCEPT ![c] = FALSE]
         /\ wakeWanted' = [wakeWanted EXCEPT ![c] = {}]
         /\ ioWanted' = [ioWanted EXCEPT ![c] = {}]
  BY <1>1 DEF CmdClose, NetClose, FreeIo, SetIo, looperVars
<1> QED
  BY <1>1, <1>2, Zenon DEF Release, UnlinkPipe, ReleaseEffect

\* Every step has one of the effects above, or is a short step of the guest.
Effects ==
  \/ QuietEffect
  \/ \E c \in Chan : Open(c) \/ ReleaseEffect(c) \/ IsrChannel(c) \/ IoFuncEffect(c)
  \/ \E t \in Thread : LocalEffect(t) \/ TransferEffect(t) \/ SetWakeBit(t) \/ WakeOnEffect(t)
  \/ IsrEnter \/ IsrExit \/ IsrHandle

\* The case analysis that the proofs below share.
LEMMA StepEffects ==
  ASSUME TypeOK, Wiring, ServiceInv, [Next]_vars
  PROVE  Effects
<1>1. ASSUME NEW t \in Thread, ReadWrite(t) PROVE LocalEffect(t) \/ TransferEffect(t) \/ SetWakeBit(t) \/ WakeOnEffect(t)
  BY <1>1, LocalSteps, TransferSteps, WakeOnSteps DEF ReadWrite, Runs
<1>2. ASSUME NEW t \in Thread, NEW c \in Chan, NEW d \in Dirs, Call(t, c, d) PROVE LocalEffect(t)
  BY <1>2, LocalSteps
<1>3. CASE Guest
  BY <1>1, <1>2, <1>3, ReleaseSteps DEF Guest, Isr, Effects
<1>4. CASE Host
  BY <1>4, IoFuncSteps, QuietSteps DEF Host, Effects
<1>5. CASE UNCHANGED vars
  BY <1>5, QuietSteps DEF Effects
<1> QED
  BY <1>3, <1>4, <1>5 DEF Next
=============================================================================
