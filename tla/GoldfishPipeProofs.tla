------------------------- MODULE GoldfishPipeProofs -------------------------
(***************************************************************************)
(* Proofs that the pipe loses no wake-up, for any number of channels and    *)
(* guest threads, any behaviour of the socket, signals and faults included, *)
(* when the interrupt controller is KVM's.                                  *)
(* Every step keeps each part of the inductive invariant; the theorems      *)
(* follow.                                                                  *)
(***************************************************************************)
EXTENDS PipeEffectProofs

\* Guest and host keep agreeing on the open pipes.
LEMMA WiringStep ==
  ASSUME IndInv, TypeOK', Effects
  PROVE  Wiring'
<1> USE DEF IndInv, Wiring, NoStaleChannel
<1>t. /\ pc \in [Thread -> Places] /\ file \in [Thread -> Chan] /\ funcs \in [Chan -> Services]
      /\ npState \in [Chan -> NetStates]
  BY DEF TypeOK, HostTypeOK, DriverTypeOK, DeviceTypeOK, NetTypeOK
<1>u. pc' \in [Thread -> Places] /\ funcs' \in [Chan -> Services]
  BY DEF TypeOK, HostTypeOK, DriverTypeOK, DeviceTypeOK
<1>1. CASE QuietEffect
  BY <1>1 DEF QuietEffect, deviceVars, netVars, driverVars
<1>2. ASSUME NEW c \in Chan, Open(c) PROVE Wiring'
  BY <1>2, <1>t DEF Open, CmdOpen, netVars
<1>3. ASSUME NEW c \in Chan, ReleaseEffect(c) PROVE Wiring'
  BY <1>3, <1>t DEF ReleaseEffect, netVars
<1>4. ASSUME NEW c \in Chan, IsrChannel(c) PROVE Wiring'
  BY <1>4, <1>t, NoChanAssumption DEF IsrChannel, ReadChannel, netVars
<1>5. ASSUME NEW c \in Chan, IoFuncEffect(c) PROVE Wiring'
  <2>1. UNCHANGED <<pipes, funcs, devWakes, radix, isrChan, devLock, pc, file>>
    BY <1>5, Zenon DEF IoFuncEffect, driverVars
  <2>2. signaled' = signaled \/ (signaled' = signaled \cup {c} /\ hwpipe[c])
    BY <1>5, Zenon DEF IoFuncEffect, ServiceInv
  <2>3. \A x \in Chan : npState'[x] = "NONE" <=> npState[x] = "NONE"
    BY <1>5, <1>t, Zenon DEF IoFuncEffect
  <2>4. hwpipe[c] => c \in radix
    BY <1>t, Zenon DEF ServiceInv
  <2> QED
    BY <2>1, <2>2, <2>3, <2>4
<1>6. ASSUME NEW t \in Thread, LocalEffect(t) PROVE Wiring'
  BY <1>6, <1>t DEF LocalEffect, hostVars, deviceVars, netVars
<1>7. ASSUME NEW t \in Thread, TransferEffect(t) PROVE Wiring'
  <2>1. UNCHANGED <<pipes, signaled, radix, isrChan, devLock, file>>
    BY <1>7 DEF TransferEffect
  <2>2. /\ \A c \in Chan : funcs'[c] = "net" <=> npState'[c] # "NONE"
        /\ \A c \in Chan : c \notin pipes => funcs'[c] = "connector"
        /\ \A c \in Chan : funcs[c] = "net" => funcs'[c] = "net"
    BY <1>7, <1>t, ZenonT(60) DEF TransferEffect, Connects, netVars
  <2>3. \A u \in Thread :
          /\ pc'[u] # "idle" => pc[u] # "idle"
          /\ pc'[u] \in {"setbit", "wakeon"} => funcs[file[u]] = "net"
    BY <1>7, <1>t DEF TransferEffect
  <2>4. \A u \in Thread : pc'[u] \in {"setbit", "wakeon"} => funcs'[file'[u]] = "net"
    <3> SUFFICES ASSUME NEW u \in Thread, pc'[u] \in {"setbit", "wakeon"}
                 PROVE  funcs'[file'[u]] = "net"
      OBVIOUS
    <3>1. file'[u] = file[u] /\ file[u] \in Chan
      BY <2>1, <1>t
    <3>2. funcs[file[u]] = "net"
      BY <2>3
    <3> QED
      BY <3>1, <3>2, <2>2, Zenon
  <2>5. NoStaleChannel' /\ (isrChan' # NoChan => devLock')
    BY <2>1
  <2>6. \A u \in Thread : pc'[u] # "idle" => file'[u] \in radix'
    BY <2>1, <2>3, <1>t, <1>u
  <2> QED
    BY <2>1, <2>2, <2>4, <2>5, <2>6, Zenon
<1>8. ASSUME NEW t \in Thread, SetWakeBit(t) PROVE Wiring'
  BY <1>8, <1>t DEF SetWakeBit, Goto, hostVars, deviceVars, netVars
<1>9. ASSUME NEW t \in Thread, WakeOnEffect(t) PROVE Wiring'
  BY <1>9, <1>t DEF WakeOnEffect
<1>10. ASSUME IsrEnter \/ IsrExit \/ IsrHandle PROVE Wiring'
  BY <1>10, <1>t DEF IsrEnter, IsrExit, IsrHandle, hostVars, deviceVars, netVars
<1> QED
  BY <1>1, <1>2, <1>3, <1>4, <1>5, <1>6, <1>7, <1>8, <1>9, <1>10, Zenon DEF Effects

\* The device keeps the line high for its signalled pipes, and KVM's controller the
\* interrupt due.
LEMMA DeviceStep ==
  ASSUME IndInv, TypeOK', Effects
  PROVE  DeviceInv'
<1> USE DEF IndInv, DeviceInv, InterruptDue
<1>t. /\ funcs \in [Chan -> Services] /\ wanted \in [Chan -> SUBSET WakeFlags]
      /\ closed \in [Chan -> BOOLEAN] /\ signaled \in SUBSET Chan
      /\ file \in [Thread -> Chan] /\ dir \in [Thread -> Dirs]
      /\ irq \in BOOLEAN /\ gicPending \in BOOLEAN /\ devLock \in BOOLEAN
  BY DEF TypeOK, HostTypeOK, DriverTypeOK, DeviceTypeOK, NetTypeOK
<1>1. CASE QuietEffect
  BY <1>1 DEF QuietEffect, deviceVars, driverVars
<1>2. ASSUME NEW c \in Chan, Open(c) PROVE DeviceInv'
  BY <1>2, <1>t DEF Open, CmdOpen
<1>3. ASSUME NEW c \in Chan, ReleaseEffect(c) PROVE DeviceInv'
  BY <1>3, <1>t DEF ReleaseEffect
<1>4. ASSUME NEW c \in Chan, IsrChannel(c) PROVE DeviceInv'
  BY <1>4, <1>t DEF IsrChannel, ReadChannel, LowerIrq
<1>5. ASSUME NEW c \in Chan, IoFuncEffect(c) PROVE DeviceInv'
  <2>1. /\ UNCHANGED <<funcs, devLock>>
        /\ hwpipe[c] => funcs[c] = "net"
    BY <1>5, Zenon DEF IoFuncEffect, ServiceInv, Wiring, driverVars
  <2>2. CASE UNCHANGED <<wanted, closed, signaled, irq, gicPending>>
    BY <2>1, <2>2, Zenon
  <2>3. CASE /\ hwpipe[c] /\ RaiseIrq /\ signaled' = signaled \cup {c}
             /\ closed' = [closed EXCEPT ![c] = TRUE]
             /\ wanted' = [wanted EXCEPT ![c] = @ \cup {"CLOSED"}]
    BY <2>1, <2>3, <1>t DEF RaiseIrq
  <2>4. ASSUME NEW e \in SUBSET Dirs,
               /\ hwpipe[c] /\ RaiseIrq /\ signaled' = signaled \cup {c}
               /\ UNCHANGED closed
               /\ wanted' = [wanted EXCEPT ![c] = @ \cup e]
        PROVE  DeviceInv'
    BY <2>1, <2>4, <1>t DEF RaiseIrq, Dirs
  <2> QED
    BY <1>5, <2>2, <2>3, <2>4, Zenon DEF IoFuncEffect, ServiceInv
<1>6. ASSUME NEW t \in Thread, LocalEffect(t) PROVE DeviceInv'
  BY <1>6, <1>t DEF LocalEffect, hostVars, deviceVars
<1>7. ASSUME NEW t \in Thread, TransferEffect(t) PROVE DeviceInv'
  BY <1>7, <1>t DEF TransferEffect, Connects
<1>8. ASSUME NEW t \in Thread, SetWakeBit(t) PROVE DeviceInv'
  BY <1>8, <1>t DEF SetWakeBit, hostVars, deviceVars
<1>9. ASSUME NEW t \in Thread, WakeOnEffect(t) PROVE DeviceInv'
  BY <1>9, <1>t DEF WakeOnEffect, Wiring, Dirs
<1>10. ASSUME IsrEnter \/ IsrExit \/ IsrHandle PROVE DeviceInv'
  BY <1>10, <1>t DEF IsrEnter, IsrExit, IsrHandle, hostVars, deviceVars, Wiring, NoStaleChannel
<1> QED
  BY <1>1, <1>2, <1>3, <1>4, <1>5, <1>6, <1>7, <1>8, <1>9, <1>10, Zenon DEF Effects

\* The service's state stays consistent, and its io armed.
LEMMA ServiceStep ==
  ASSUME IndInv, TypeOK', Effects
  PROVE  ServiceInv'
<1> USE DEF IndInv, ServiceInv
<1>t. /\ npState \in [Chan -> NetStates] /\ hwpipe \in [Chan -> BOOLEAN]
      /\ wakeWanted \in [Chan -> SUBSET WakeFlags] /\ ioWanted \in [Chan -> SUBSET Dirs]
      /\ closed \in [Chan -> BOOLEAN] /\ wanted \in [Chan -> SUBSET WakeFlags]
      /\ file \in [Thread -> Chan] /\ dir \in [Thread -> Dirs]
  BY Zenon DEF TypeOK, HostTypeOK, DriverTypeOK, DeviceTypeOK, NetTypeOK, LooperTypeOK
<1>1. CASE QuietEffect
  BY <1>1, <1>t DEF QuietEffect, deviceVars, netVars, driverVars
<1>2. ASSUME NEW c \in Chan, Open(c) PROVE ServiceInv'
  BY <1>2, <1>t DEF Open, CmdOpen, netVars, looperVars, Wiring, NoStaleChannel, DeviceInv, Dirs, WakeFlags
<1>3. ASSUME NEW c \in Chan, ReleaseEffect(c) PROVE ServiceInv'
  BY <1>3, <1>t DEF ReleaseEffect, netVars, Wiring, NoStaleChannel, DeviceInv, Dirs, WakeFlags
<1>4. ASSUME NEW c \in Chan, IsrChannel(c) PROVE ServiceInv'
  BY <1>4, <1>t, Zenon DEF IsrChannel, ReadChannel, netVars, looperVars
<1>5. ASSUME NEW c \in Chan, IoFuncEffect(c) PROVE ServiceInv'
  <2>1. CASE /\ UNCHANGED <<closed, hwpipe, wakeWanted>>
             /\ npState[c] = "CONNECTING"
             /\ npState' = [npState EXCEPT ![c] = "CONNECTED"]
             /\ Rearmed(c, "CONNECTED", wakeWanted[c])
    <3>1. wakeWanted[c] \cap Dirs = wakeWanted[c]
      OBVIOUS
    <3> QED
      BY <2>1, <3>1, <1>t, Zenon DEF Rearmed
  <2>2. CASE /\ UNCHANGED wakeWanted
             /\ closed' = [closed EXCEPT ![c] = TRUE]
             /\ hwpipe' = [hwpipe EXCEPT ![c] = FALSE]
             /\ npState' = [npState EXCEPT ![c] = "CLOSING_SOCKET"]
             /\ Rearmed(c, "CLOSING_SOCKET", wakeWanted[c])
    BY <2>2, <1>t DEF Rearmed
  <2>3. ASSUME NEW e \in SUBSET Dirs, npState[c] # "CONNECTING",
               UNCHANGED <<closed, npState, hwpipe>>,
               wakeWanted' = [wakeWanted EXCEPT ![c] = @ \ e],
               Rearmed(c, npState[c], wakeWanted[c] \ e)
        PROVE  ServiceInv'
    <3>1. (wakeWanted[c] \ e) \cap Dirs = wakeWanted[c] \ e
      OBVIOUS
    <3> QED
      BY <2>3, <3>1, <1>t, Zenon DEF Rearmed
  <2>4. CASE UNCHANGED <<closed, npState, hwpipe, wakeWanted, ioWanted>>
    BY <2>4
  <2> QED
    BY <1>5, <2>1, <2>2, <2>3, <2>4, Zenon DEF IoFuncEffect
<1>6. ASSUME NEW t \in Thread, LocalEffect(t) PROVE ServiceInv'
  BY <1>6, <1>t DEF LocalEffect, hostVars, deviceVars, netVars, looperVars
<1>7. ASSUME NEW t \in Thread, TransferEffect(t) PROVE ServiceInv'
  <2>1. CASE UNCHANGED <<funcs, ioWanted, ioReady, ioPending, netVars>>
    BY <1>7, <2>1, Zenon DEF TransferEffect, netVars, looperVars
  <2>2. CASE Connects(file[t])
    <3>1. PICK n \in {"CONNECTED", "CONNECTING"}, w \in SUBSET Dirs :
            /\ npState' = [npState EXCEPT ![file[t]] = n]
            /\ n = "CONNECTED" => w = {}
            /\ ioWanted' = [ioWanted EXCEPT ![file[t]] = w]
      BY <2>2, Zenon DEF Connects, SetIo
    <3>2. /\ hwpipe' = [hwpipe EXCEPT ![file[t]] = TRUE]
          /\ wakeWanted' = [wakeWanted EXCEPT ![file[t]] = {}]
          /\ ~closed[file[t]] /\ UNCHANGED closed
      BY <1>7, <2>2, Zenon DEF Connects, TransferEffect
    <3> QED
      BY <3>1, <3>2, <1>t, Zenon
  <2> QED
    BY <1>7, <2>1, <2>2, Zenon DEF TransferEffect
<1>8. ASSUME NEW t \in Thread, SetWakeBit(t) PROVE ServiceInv'
  BY <1>8, <1>t DEF SetWakeBit, Goto, WakeBit, hostVars, deviceVars, netVars, looperVars
<1>9. ASSUME NEW t \in Thread, WakeOnEffect(t) PROVE ServiceInv'
  <2> DEFINE ww == wakeWanted[file[t]] \cup (wanted[file[t]] \cup {dir[t]})
  <2>1. UNCHANGED <<closed, npState, hwpipe>>
    BY <1>9, Zenon DEF WakeOnEffect
  <2>2. CASE UNCHANGED <<wakeWanted, ioWanted>>
    BY <2>1, <2>2
  <2>3. CASE /\ ~closed[file[t]] /\ wakeWanted' = [wakeWanted EXCEPT ![file[t]] = ww]
             /\ Rearmed(file[t], npState[file[t]], ww)
    <3>1. file[t] \in Chan /\ wanted[file[t]] \subseteq Dirs
      BY <2>3, <1>t DEF DeviceInv, Dirs, WakeFlags
    <3>2. ww \subseteq Dirs /\ ww \cap Dirs = ww
      BY <3>1, <1>t
    <3> HIDE DEF ww
    <3> QED
      BY <2>1, <2>3, <3>1, <3>2, <1>t, ZenonT(60) DEF Rearmed
  <2> QED
    BY <1>9, <2>2, <2>3, Zenon DEF WakeOnEffect
<1>10. ASSUME IsrEnter \/ IsrExit \/ IsrHandle PROVE ServiceInv'
  BY <1>10, <1>t, Zenon DEF IsrEnter, IsrExit, IsrHandle, Clears, hostVars, deviceVars, netVars, looperVars
<1> QED
  BY <1>1, <1>2, <1>3, <1>4, <1>5, <1>6, <1>7, <1>8, <1>9, <1>10, Zenon DEF Effects

\* What the guest has registered stays known to the service, or is signalled.
LEMMA RegistrationStep ==
  ASSUME IndInv, TypeOK', Effects
  PROVE  RegistrationKept'
<1> USE DEF IndInv, RegistrationKept
<1>t. /\ funcs \in [Chan -> Services] /\ closed \in [Chan -> BOOLEAN]
      /\ wakeWanted \in [Chan -> SUBSET WakeFlags] /\ wanted \in [Chan -> SUBSET WakeFlags]
      /\ file \in [Thread -> Chan] /\ dir \in [Thread -> Dirs]
      /\ pipes \subseteq Chan /\ signaled \subseteq Chan
  BY DEF TypeOK, HostTypeOK, DriverTypeOK, DeviceTypeOK, NetTypeOK
<1>1. CASE QuietEffect
  BY <1>1, <1>t DEF QuietEffect, deviceVars, netVars, driverVars
<1>2. ASSUME NEW c \in Chan, Open(c) PROVE RegistrationKept'
  BY <1>2, <1>t DEF Open, CmdOpen, netVars, looperVars
<1>3. ASSUME NEW c \in Chan, ReleaseEffect(c) PROVE RegistrationKept'
  BY <1>3, <1>t DEF ReleaseEffect, netVars, Wiring, NoStaleChannel, DeviceInv, ServiceInv, Dirs
<1>4. ASSUME NEW c \in Chan, IsrChannel(c) PROVE RegistrationKept'
  BY <1>4, <1>t DEF IsrChannel, ReadChannel, netVars, looperVars
<1>5. ASSUME NEW c \in Chan, IoFuncEffect(c) PROVE RegistrationKept'
  BY <1>5, <1>t DEF IoFuncEffect, Rearmed, driverVars, Wiring, NoStaleChannel, DeviceInv, ServiceInv, Dirs
<1>6. ASSUME NEW t \in Thread, LocalEffect(t) PROVE RegistrationKept'
  BY <1>6, <1>t DEF LocalEffect, hostVars, deviceVars, netVars, looperVars
<1>7. ASSUME NEW t \in Thread, TransferEffect(t) PROVE RegistrationKept'
  BY <1>7, <1>t DEF TransferEffect, Connects, SetIo, netVars, looperVars, Wiring, NoStaleChannel, DeviceInv, ServiceInv, Dirs
<1>8. ASSUME NEW t \in Thread, SetWakeBit(t) PROVE RegistrationKept'
  BY <1>8, <1>t DEF SetWakeBit, Goto, WakeBit, hostVars, deviceVars, netVars, looperVars
<1>9. ASSUME NEW t \in Thread, WakeOnEffect(t) PROVE RegistrationKept'
  BY <1>9, <1>t DEF WakeOnEffect, Rearmed, Wiring, NoStaleChannel, DeviceInv, ServiceInv, Dirs
<1>10. ASSUME IsrEnter \/ IsrExit \/ IsrHandle PROVE RegistrationKept'
  BY <1>10, <1>t, Zenon DEF IsrEnter, IsrExit, IsrHandle, Clears, hostVars, deviceVars, netVars, looperVars
<1> QED
  BY <1>1, <1>2, <1>3, <1>4, <1>5, <1>6, <1>7, <1>8, <1>9, <1>10, Zenon DEF Effects

\* A close stays reported.
LEMMA CloseStep ==
  ASSUME IndInv, TypeOK', Effects
  PROVE  CloseReported'
<1> USE DEF IndInv, CloseReported
<1>t. /\ closed \in [Chan -> BOOLEAN] /\ wanted \in [Chan -> SUBSET WakeFlags]
      /\ flags \in [Chan -> SUBSET PipeBits] /\ pc \in [Thread -> Places]
      /\ file \in [Thread -> Chan] /\ dir \in [Thread -> Dirs]
      /\ pipes \subseteq Chan /\ signaled \subseteq Chan /\ radix \subseteq Chan
      /\ isrChan \in Chan \cup {NoChan} /\ devWakes \subseteq WakeFlags
  BY DEF TypeOK, HostTypeOK, DriverTypeOK, DeviceTypeOK
<1>1. CASE QuietEffect
  BY <1>1, <1>t DEF QuietEffect, deviceVars, netVars, driverVars
<1>2. ASSUME NEW c \in Chan, Open(c) PROVE CloseReported'
  BY <1>2, <1>t DEF Open, CmdOpen, netVars, looperVars, Wiring, NoStaleChannel
<1>3. ASSUME NEW c \in Chan, ReleaseEffect(c) PROVE CloseReported'
  BY <1>3, <1>t DEF ReleaseEffect, netVars, Wiring, NoStaleChannel
<1>4. ASSUME NEW c \in Chan, IsrChannel(c) PROVE CloseReported'
  BY <1>4, <1>t, NoChanAssumption, Zenon DEF IsrChannel, ReadChannel, netVars, looperVars, Wiring, NoStaleChannel
<1>5. ASSUME NEW c \in Chan, IoFuncEffect(c) PROVE CloseReported'
  BY <1>5, <1>t DEF IoFuncEffect, Rearmed, driverVars, ServiceInv, Wiring, NoStaleChannel, Dirs
<1>6. ASSUME NEW t \in Thread, LocalEffect(t) PROVE CloseReported'
  BY <1>6, <1>t DEF LocalEffect, hostVars, deviceVars, netVars, looperVars
<1>7. ASSUME NEW t \in Thread, TransferEffect(t) PROVE CloseReported'
  BY <1>7, <1>t DEF TransferEffect, Connects, SetIo, netVars, looperVars
<1>8. ASSUME NEW t \in Thread, SetWakeBit(t) PROVE CloseReported'
  BY <1>8, <1>t DEF SetWakeBit, Goto, WakeBit, hostVars, deviceVars, netVars, looperVars, Dirs
<1>9. ASSUME NEW t \in Thread, WakeOnEffect(t) PROVE CloseReported'
  BY <1>9, <1>t, Zenon DEF WakeOnEffect, Rearmed
<1>10. ASSUME IsrEnter \/ IsrExit \/ IsrHandle PROVE CloseReported'
  <2>1. CASE IsrEnter \/ IsrExit
    BY <2>1, <1>t DEF IsrEnter, IsrExit, hostVars, deviceVars
  <2>2. CASE IsrHandle
    BY <2>2, <1>t, SMTT(30) DEF IsrHandle, Clears, hostVars, deviceVars, Wiring, NoStaleChannel, Dirs
  <2> QED
    BY <1>10, <2>1, <2>2
<1> QED
  BY <1>1, <1>2, <1>3, <1>4, <1>5, <1>6, <1>7, <1>8, <1>9, <1>10, Zenon DEF Effects

\* A wake bit stays covered.
LEMMA WakeBitStep ==
  ASSUME IndInv, TypeOK', Effects
  PROVE  WakeBitCovered'
<1> USE DEF IndInv, WakeBitCovered, Covered, Registering, Dirs
<1>t. /\ closed \in [Chan -> BOOLEAN] /\ wanted \in [Chan -> SUBSET WakeFlags]
      /\ flags \in [Chan -> SUBSET PipeBits] /\ pc \in [Thread -> Places]
      /\ file \in [Thread -> Chan] /\ dir \in [Thread -> Dirs]
      /\ pipes \subseteq Chan /\ signaled \subseteq Chan /\ radix \subseteq Chan
      /\ isrChan \in Chan \cup {NoChan} /\ devWakes \subseteq WakeFlags
  BY DEF TypeOK, HostTypeOK, DriverTypeOK, DeviceTypeOK
<1>1. CASE QuietEffect
  BY <1>1, <1>t DEF QuietEffect, deviceVars, netVars, driverVars
<1>2. ASSUME NEW c \in Chan, Open(c) PROVE WakeBitCovered'
  BY <1>2, <1>t DEF Open, CmdOpen, netVars, looperVars, Wiring, NoStaleChannel
<1>3. ASSUME NEW c \in Chan, ReleaseEffect(c) PROVE WakeBitCovered'
  BY <1>3, <1>t DEF ReleaseEffect, netVars, Wiring, NoStaleChannel
<1>4. ASSUME NEW c \in Chan, IsrChannel(c) PROVE WakeBitCovered'
  BY <1>4, <1>t, NoChanAssumption DEF IsrChannel, ReadChannel, netVars, looperVars, Wiring, NoStaleChannel
<1>5. ASSUME NEW c \in Chan, IoFuncEffect(c) PROVE WakeBitCovered'
  <2>1. UNCHANGED <<radix, flags, isrChan, devWakes, pc, file, dir>>
    BY <1>5, Zenon DEF IoFuncEffect, driverVars
  <2>2. \A x \in Chan : wanted[x] \subseteq wanted'[x]
    BY <1>5, <1>t DEF IoFuncEffect, Rearmed
  <2> QED
    BY <2>1, <2>2, <1>t
<1>6. ASSUME NEW t \in Thread, LocalEffect(t) PROVE WakeBitCovered'
  BY <1>6, <1>t DEF LocalEffect, hostVars, deviceVars, netVars, looperVars
<1>7. ASSUME NEW t \in Thread, TransferEffect(t) PROVE WakeBitCovered'
  BY <1>7, <1>t DEF TransferEffect, Connects, SetIo, netVars, looperVars
<1>8. ASSUME NEW t \in Thread, SetWakeBit(t) PROVE WakeBitCovered'
  BY <1>8, <1>t DEF SetWakeBit, Goto, WakeBit, hostVars, deviceVars, netVars, looperVars
<1>9. ASSUME NEW t \in Thread, WakeOnEffect(t) PROVE WakeBitCovered'
  <2>1. /\ UNCHANGED <<radix, flags, isrChan, devWakes, closed, signaled, file, dir>>
        /\ pc' = [pc EXCEPT ![t] = "unlockwait"]
    BY <1>9, Zenon DEF WakeOnEffect
  <2>2. /\ \A x \in Chan : wanted[x] \subseteq wanted'[x]
        /\ closed[file[t]] \/ dir[t] \in wanted'[file[t]]
    BY <1>9, <1>t DEF WakeOnEffect, Rearmed
  <2>3. closed[file[t]] /\ file[t] \in radix =>
          "CLOSED" \in flags[file[t]] \/ Covered(file[t], dir[t])
    BY <1>t, Zenon DEF CloseReported, Wiring, NoStaleChannel
  <2>4. ASSUME NEW c \in radix, NEW d \in Dirs PROVE Covered(c, d) => Covered(c, d)'
    BY <2>1, <2>2, <2>4, <1>t
  <2>5. ASSUME NEW c \in radix, NEW d \in Dirs, Registering(c, d)
        PROVE  Covered(c, d)' \/ Registering(c, d)' \/ "CLOSED" \in flags[c]
    BY <2>1, <2>2, <2>3, <2>4, <2>5, <1>t
  <2> HIDE DEF Covered, Registering
  <2> QED
    BY <2>1, <2>4, <2>5, Zenon
<1>10. ASSUME IsrEnter \/ IsrExit \/ IsrHandle PROVE WakeBitCovered'
  BY <1>10, <1>t DEF IsrEnter, IsrExit, IsrHandle, Clears, hostVars, deviceVars, netVars, looperVars
<1> QED
  BY <1>1, <1>2, <1>3, <1>4, <1>5, <1>6, <1>7, <1>8, <1>9, <1>10, Zenon DEF Effects

----------------------------------------------------------------------------
(* The invariant as a whole.                                                *)

\* Initial states satisfy the invariant.
THEOREM InitInv == Init => IndInv
<1> SUFFICES ASSUME Init PROVE IndInv
  OBVIOUS
<1> USE DEF Init, HostInit, DriverInit, DeviceInit, LooperInit, NetInit
<1>1. DeviceTypeOK
  BY Zenon DEF DeviceTypeOK, Services
<1>2. LooperTypeOK
  BY DEF LooperTypeOK
<1>3. NetTypeOK
  BY DEF NetTypeOK, NetStates, SockStates
<1>4. DriverTypeOK
  BY Zenon DEF DriverTypeOK, Places, Dirs
<1>5. Wiring
  BY DEF Wiring, NoStaleChannel
<1>6. DeviceInv
  BY DEF DeviceInv
<1>7. ServiceInv
  BY Zenon DEF ServiceInv
<1>8. RegistrationKept /\ WakeBitCovered /\ CloseReported
  BY DEF RegistrationKept, WakeBitCovered, CloseReported
<1> QED
  BY <1>1, <1>2, <1>3, <1>4, <1>5, <1>6, <1>7, <1>8 DEF IndInv, TypeOK, HostTypeOK

\* Every step of the pipe keeps the inductive invariant.
LEMMA InvStep ==
  ASSUME IndInv, [Next]_vars
  PROVE  IndInv'
<1>1. TypeOK' /\ Effects
  BY TypeStep, StepEffects DEF IndInv
<1> QED
  BY <1>1, WiringStep, DeviceStep, ServiceStep, RegistrationStep, CloseStep, WakeBitStep DEF IndInv

----------------------------------------------------------------------------
(* The theorems, for any number of channels and threads.                    *)

\* The pipe keeps its inductive invariant.
THEOREM Invariance == Spec => []IndInv
<1>1. Init => IndInv
  BY InitInv
<1>2. IndInv /\ [Next]_vars => IndInv'
  BY InvStep
<1> QED
  BY <1>1, <1>2, PTL DEF Spec

\* The pipe is type correct.
THEOREM TypeCorrect == Spec => []TypeOK
<1>1. IndInv => TypeOK
  BY DEF IndInv
<1> QED
  BY <1>1, Invariance, PTL

\* qemu_pipe_close is never lost.
THEOREM CloseTold == Spec => []CloseReported
<1>1. IndInv => CloseReported
  BY DEF IndInv
<1> QED
  BY <1>1, Invariance, PTL

\* The interrupt handler and open never meet a stale channel.
THEOREM ChannelsAgree == Spec => []NoStaleChannel
<1>1. IndInv => NoStaleChannel
  BY DEF IndInv, Wiring
<1> QED
  BY <1>1, Invariance, PTL

\* From the thread to the socket: what the invariant says of a blocked thread.
LEMMA BlockedWillWake ==
  ASSUME IndInv, InKernelGic
  PROVE  NoLostWakeup
<1> SUFFICES ASSUME NEW t \in Thread, Blocked(t)
             PROVE  LET c == file[t]
                        d == WakeBit(t)
                    IN  \/ "CLOSED" \in flags[c]
                        \/ Registering(c, d)
                        \/ isrChan = c /\ {d, "CLOSED"} \cap devWakes # {}
                        \/ c \in signaled /\ InterruptDue /\ {d, "CLOSED"} \cap wanted[c] # {}
                        \/ /\ d \in wakeWanted[c]
                           /\ d \in ioWanted[c] \/ (npState[c] = "CONNECTING" /\ d = "READ")
  BY Zenon DEF NoLostWakeup
<1> DEFINE c == file[t]
           d == WakeBit(t)
<1>1. c \in radix /\ c \in Chan /\ c \in pipes /\ d \in Dirs /\ d \in flags[c]
  BY DEF IndInv, Blocked, Wiring, NoStaleChannel, TypeOK, DriverTypeOK, WakeBit
<1>2. Covered(c, d) \/ Registering(c, d) \/ "CLOSED" \in flags[c]
  BY <1>1, Zenon DEF IndInv, WakeBitCovered
<1>3. CASE c \in signaled
  BY <1>1, <1>2, <1>3 DEF Covered, IndInv, DeviceInv
<1>4. CASE closed[c] /\ c \notin signaled
  BY <1>1, <1>4 DEF IndInv, CloseReported
<1>5. ASSUME ~closed[c], c \notin signaled, {d, "CLOSED"} \cap wanted[c] # {}
      PROVE  d \in wakeWanted[c] /\ (d \in ioWanted[c] \/ (npState[c] = "CONNECTING" /\ d = "READ"))
  <2>1. d \in wanted[c] /\ funcs[c] = "net"
    <3>1. "CLOSED" \notin wanted[c]
      BY <1>1, <1>5 DEF IndInv, DeviceInv
    <3>2. funcs[c] \in {"connector", "net"}
      BY <1>1 DEF IndInv, TypeOK, HostTypeOK, DeviceTypeOK, Services
    <3> QED
      BY <1>1, <1>5, <3>1, <3>2 DEF IndInv, DeviceInv
  <2>2. d \in wakeWanted[c]
    BY <1>1, <1>5, <2>1 DEF IndInv, RegistrationKept
  <2>3. npState[c] \in {"CONNECTING", "CONNECTED"}
    <3>1. npState[c] \in NetStates /\ npState[c] # "NONE"
      BY <1>1, <2>1 DEF IndInv, TypeOK, HostTypeOK, NetTypeOK, Wiring
    <3> QED
      BY <1>1, <1>5, <3>1 DEF IndInv, ServiceInv, NetStates
  <2> QED
    BY <1>1, <2>2, <2>3 DEF IndInv, ServiceInv, Dirs
<1> QED
  BY <1>2, <1>3, <1>4, <1>5, Zenon DEF Covered

\* No wake-up is lost between the guest's threads and the socket, if the interrupt
\* controller is KVM's.  The emulated one loses them: see ItemsRaiseIrq.
THEOREM WakeupsKept ==
  ASSUME InKernelGic
  PROVE  Spec => []NoLostWakeup
<1>1. IndInv => NoLostWakeup
  BY BlockedWillWake
<1> QED
  BY <1>1, Invariance, PTL
----------------------------------------------------------------------------
(* The looper.                                                              *)

\* The io of pipe c is stored with no ready flag it did not have, and none that it
\* does not want one of; a pipe without net pipe wants nothing.
StoresIo(c) ==
  \E io \in [wanted : SUBSET Dirs, ready : SUBSET Dirs] :
    /\ SetIo(c, io)
    /\ io.ready \subseteq ioReady[c]
    /\ io.ready \cap io.wanted # {} \/ io.ready = {}
    /\ npState'[c] = "NONE" => io.wanted = {}
    /\ bh' \in {bh, "crashed"}
    /\ \A x \in Chan \ {c} : npState'[x] = npState[x]

\* What a step does to the looper.
LooperEffect ==
  \/ UNCHANGED <<ioWanted, ioReady, ioPending, npState>> /\ bh' \in {bh, "crashed"}
  \/ (BhEnter \/ BhExit) /\ UNCHANGED npState
  \/ \E c \in Chan, d \in Dirs : HandleFd(c, d) /\ UNCHANGED npState
  \/ \E c \in Chan : StoresIo(c)

\* An io stored by netPipe_resetState, from the value of the io or from the value the
\* bottom half leaves, for a pipe with a net pipe.
LEMMA ResetStores ==
  ASSUME TypeOK, PendingServed, NEW c \in Chan, NEW n, NEW ww \in SUBSET WakeFlags,
         NEW io \in {Io(c), Popped(c), ConnectorIo(c)},
         SetIo(c, ResetState(io, n, ww)),
         npState'[c] # "NONE", UNCHANGED bh, \A x \in Chan \ {c} : npState'[x] = npState[x]
  PROVE  StoresIo(c)
<1> DEFINE Ios == [wanted : SUBSET Dirs, ready : SUBSET Dirs]
           r == ResetState(io, n, ww)
<1>1. LooperTypeOK
  BY DEF TypeOK, HostTypeOK
<1>2. io \in Ios
  BY <1>1, IoType
<1>3. ioReady[c] \cap ioWanted[c] # {} \/ ioReady[c] = {}
  BY DEF PendingServed
<1>4. io.ready \subseteq ioReady[c] /\ (io.ready \cap io.wanted # {} \/ io.ready = {})
  <2>1. CASE io = Io(c)
    BY <1>3, <2>1 DEF Io
  <2>2. CASE io = Popped(c)
    BY <2>2 DEF Popped
  <2>3. CASE io = ConnectorIo(c)
    BY <2>3 DEF ConnectorIo, DontWant, Modify, Popped
  <2> QED
    BY <2>1, <2>2, <2>3
<1>5. /\ r \in Ios /\ r.ready \subseteq io.ready
      /\ r.ready \cap r.wanted # {} \/ r.ready = {}
  BY <1>2, <1>4, ResetStateIo
<1>6. r.ready \subseteq ioReady[c]
  BY <1>4, <1>5
<1> HIDE DEF r
<1> QED
  BY <1>5, <1>6, Zenon DEF StoresIo, r

\* Every step has such an effect on the looper.
LEMMA LooperSteps ==
  ASSUME TypeOK, Wiring, PendingServed, [Next]_vars
  PROVE  LooperEffect
<1>t. /\ npState \in [Chan -> NetStates] /\ file \in [Thread -> Chan]
      /\ wakeWanted \in [Chan -> SUBSET WakeFlags] /\ wanted \in [Chan -> SUBSET WakeFlags]
      /\ dir \in [Thread -> Dirs]
  BY DEF TypeOK, HostTypeOK, NetTypeOK, DriverTypeOK, DeviceTypeOK
<1>1. ASSUME UNCHANGED <<looperVars, netVars>> PROVE LooperEffect
  BY <1>1 DEF LooperEffect, looperVars, netVars
<1>2. ASSUME NEW c \in Chan, Open(c) PROVE LooperEffect
  BY <1>1, <1>2 DEF Open
<1>3. ASSUME NEW c \in Chan, Release(c) PROVE LooperEffect
  <2>1. CASE UNCHANGED <<netVars, sockVars, looperVars>>
    BY <1>1, <2>1
  <2>2. CASE NetClose(c) /\ UNCHANGED bh
    <3> DEFINE io == [wanted |-> {}, ready |-> {}]
    <3>1. SetIo(c, io) /\ npState' = [npState EXCEPT ![c] = "NONE"]
      BY <2>2 DEF NetClose, FreeIo
    <3>2. /\ io \in [wanted : SUBSET Dirs, ready : SUBSET Dirs]
          /\ io.wanted = {} /\ io.ready = {}
      OBVIOUS
    <3>3. \A x \in Chan \ {c} : npState'[x] = npState[x]
      BY <1>t, <3>1
    <3> HIDE DEF io
    <3>4. io.ready \subseteq ioReady[c]
      BY <3>2
    <3> QED
      BY <2>2, <3>1, <3>2, <3>3, <3>4, Zenon DEF StoresIo, LooperEffect
  <2> QED
    BY <1>3, <2>1, <2>2 DEF Release, CmdClose
<1>4. ASSUME NEW t \in Thread, LocalEffect(t) PROVE LooperEffect
  BY <1>1, <1>4 DEF LocalEffect, hostVars
<1>5. ASSUME NEW t \in Thread, TransferEffect(t) PROVE LooperEffect
  <2>1. bh' \in {bh, "crashed"}
    BY <1>5 DEF TransferEffect
  <2>2. CASE UNCHANGED <<funcs, ioWanted, ioReady, ioPending, netVars>>
    BY <2>1, <2>2 DEF LooperEffect, netVars
  <2>3. CASE Connects(file[t])
    <3>1. PICK n \in {"CONNECTED", "CONNECTING"}, w \in SUBSET Dirs :
            /\ npState' = [npState EXCEPT ![file[t]] = n]
            /\ SetIo(file[t], [wanted |-> w, ready |-> {}])
      BY <2>3, Zenon DEF Connects
    <3> DEFINE io == [wanted |-> w, ready |-> {}]
    <3>2. io \in [wanted : SUBSET Dirs, ready : SUBSET Dirs] /\ io.ready = {}
      OBVIOUS
    <3>3. file[t] \in Chan /\ npState'[file[t]] # "NONE"
      BY <1>t, <3>1
    <3>4. \A x \in Chan \ {file[t]} : npState'[x] = npState[x]
      BY <1>t, <3>1
    <3>5. SetIo(file[t], io)
      BY <3>1
    <3> HIDE DEF io
    <3>6. io.ready \subseteq ioReady[file[t]]
      BY <3>2
    <3> QED
      BY <2>1, <3>2, <3>3, <3>4, <3>5, <3>6, Zenon DEF StoresIo, LooperEffect
  <2> QED
    BY <1>5, <2>2, <2>3, Zenon DEF TransferEffect
<1>6. ASSUME NEW t \in Thread, SetWakeBit(t) PROVE LooperEffect
  BY <1>1, <1>6 DEF SetWakeBit, hostVars
<1>7. ASSUME NEW t \in Thread, WakeOn(t) PROVE LooperEffect
  <2> DEFINE c == file[t]
             f == wanted[c] \cup {WakeBit(t)}
  <2>1. c \in Chan /\ wakeWanted[c] \cup f \in SUBSET WakeFlags
    BY <1>t DEF WakeBit, Dirs, WakeFlags
  <2>2. npState[c] # "NONE"
    BY <1>7, <2>1, Zenon DEF WakeOn, Wiring
  <2>3. CmdWakeOn(c, WakeBit(t))
    BY <1>7 DEF WakeOn
  <2>4. CASE UNCHANGED hostVars
    BY <1>1, <2>4 DEF hostVars
  <2>5. CASE UNCHANGED <<netVars, looperVars>>
    BY <1>1, <2>5
  <2>6. CASE NetWakeOn(c, f) /\ UNCHANGED bh
    <3>1. SetIo(c, ResetState(Io(c), npState[c], wakeWanted[c] \cup f)) /\ UNCHANGED npState
      BY <2>6 DEF NetWakeOn
    <3> HIDE DEF c, f
    <3> QED
      BY <2>1, <2>2, <2>6, <3>1, ResetStores DEF LooperEffect
  <2> QED
    BY <2>3, <2>4, <2>5, <2>6, Zenon DEF CmdWakeOn
<1>8. ASSUME Isr PROVE LooperEffect
  BY <1>1, <1>8 DEF Isr, IsrEnter, IsrExit, IsrHandle, IsrChannel, hostVars
<1>9. ASSUME HostBh PROVE LooperEffect
  BY <1>9 DEF HostBh, BhStep, netVars, LooperEffect
<1>10. ASSUME NEW c \in Chan, NEW d \in Dirs, HostFd(c, d) PROVE LooperEffect
  BY <1>10, Zenon DEF HostFd, FdHandler, netVars, LooperEffect
<1>11. ASSUME NEW c \in Chan, HostPeer(c) PROVE LooperEffect
  BY <1>1, <1>11 DEF HostPeer, Peer
<1>12. ASSUME NEW c \in Chan, HostIoFunc(c) PROVE LooperEffect
  <2>1. wakeWanted[c] \in SUBSET WakeFlags /\ wakeWanted[c] \ EventWakes(c) \in SUBSET WakeFlags
    BY <1>t
  <2>2. CASE IoFuncConnected(c)
    <3>1. /\ SetIo(c, ResetState(ConnectorIo(c), "CONNECTED", wakeWanted[c])) /\ UNCHANGED bh
          /\ npState' = [npState EXCEPT ![c] = "CONNECTED"]
      BY <2>2, Zenon DEF IoFuncConnected
    <3>2. npState'[c] # "NONE" /\ \A x \in Chan \ {c} : npState'[x] = npState[x]
      BY <1>t, <3>1
    <3> QED
      BY <2>1, <3>1, <3>2, ResetStores DEF LooperEffect
  <2>3. CASE IoFuncRefused(c)
    <3>1. /\ SetIo(c, ResetState(ConnectorIo(c), "CLOSING_SOCKET", wakeWanted[c])) /\ UNCHANGED bh
          /\ npState' = [npState EXCEPT ![c] = "CLOSING_SOCKET"]
      BY <2>3, Zenon DEF IoFuncRefused
    <3>2. npState'[c] # "NONE" /\ \A x \in Chan \ {c} : npState'[x] = npState[x]
      BY <1>t, <3>1
    <3> QED
      BY <2>1, <3>1, <3>2, ResetStores DEF LooperEffect
  <2>4. CASE IoFuncEvents(c)
    <3>1. /\ SetIo(c, ResetState(Popped(c), npState[c], wakeWanted[c] \ EventWakes(c)))
          /\ UNCHANGED <<bh, npState>>
      BY <2>4, Zenon DEF IoFuncEvents
    <3>2. npState'[c] # "NONE"
      BY <2>4, <3>1, Zenon DEF IoFuncEvents, BhPop, PendingServed
    <3> QED
      BY <2>1, <3>1, <3>2, ResetStores DEF LooperEffect
  <2>5. CASE IoFuncNullPipe(c)
    BY <2>5 DEF IoFuncNullPipe, netVars, LooperEffect
  <2> QED
    BY <1>12, <2>2, <2>3, <2>4, <2>5 DEF HostIoFunc, IoFunc
<1>13. ASSUME UNCHANGED vars PROVE LooperEffect
  BY <1>1, <1>13 DEF vars, hostVars
<1> QED
  BY <1>2, <1>3, <1>4, <1>5, <1>6, <1>7, <1>8, <1>9, <1>10, <1>11, <1>12, <1>13,
     LocalSteps, TransferSteps
     DEF Next, Guest, Host, ReadWrite, Runs

\* Every step leaves a due bottom half for what is pending.
LEMMA PendingStep ==
  ASSUME TypeOK, PendingServed, LooperEffect
  PROVE  PendingServed'
<1> USE DEF PendingServed
<1>t. /\ ioWanted \in [Chan -> SUBSET Dirs] /\ ioReady \in [Chan -> SUBSET Dirs]
      /\ ioPending \subseteq Chan
  BY DEF TypeOK, HostTypeOK, LooperTypeOK
<1>1. CASE UNCHANGED <<ioWanted, ioReady, ioPending, npState>> /\ bh' \in {bh, "crashed"}
  BY <1>1
<1>2. CASE (BhEnter \/ BhExit) /\ UNCHANGED npState
  BY <1>2 DEF BhEnter, BhExit
<1>3. ASSUME NEW c \in Chan, NEW d \in Dirs, HandleFd(c, d), UNCHANGED npState
      PROVE  PendingServed'
  <2>1. /\ d \in ioWanted[c] /\ UNCHANGED ioWanted
        /\ ioReady' = [ioReady EXCEPT ![c] = @ \cup {d}]
    BY <1>3 DEF HandleFd
  <2>2. ioPending' = ioPending \cup {c} /\ (ioPending # {} => bh' = bh) /\ (ioPending = {} => bh' # "idle")
    BY <1>3, <1>t DEF HandleFd, AddPending
  <2>3. /\ ioReady'[c] = ioReady[c] \cup {d}
        /\ \A x \in Chan \ {c} : ioReady'[x] = ioReady[x]
    BY <1>t, <2>1
  <2> QED
    BY <1>3, <1>t, <2>1, <2>2, <2>3
<1>4. ASSUME NEW c \in Chan, StoresIo(c) PROVE PendingServed'
  <2>1. PICK io \in [wanted : SUBSET Dirs, ready : SUBSET Dirs] :
          /\ SetIo(c, io)
          /\ io.ready \subseteq ioReady[c]
          /\ io.ready \cap io.wanted # {} \/ io.ready = {}
          /\ npState'[c] = "NONE" => io.wanted = {}
          /\ bh' \in {bh, "crashed"}
          /\ \A x \in Chan \ {c} : npState'[x] = npState[x]
    BY <1>4, Zenon DEF StoresIo
  <2>2. /\ ioWanted'[c] = io.wanted /\ ioReady'[c] = io.ready
        /\ \A x \in Chan \ {c} : ioWanted'[x] = ioWanted[x] /\ ioReady'[x] = ioReady[x]
    BY <1>t, <2>1 DEF SetIo
  <2>3. ioPending' = IF ioReady[c] # {} /\ io.ready = {} THEN ioPending \ {c} ELSE ioPending
    BY <2>1 DEF SetIo, DelPending
  <2>4. ioPending' = {x \in Chan : ioReady'[x] # {}}
    BY <2>1, <2>2, <2>3
  <2>5. ASSUME NEW x \in Chan, ioReady'[x] # {}
        PROVE  ioReady'[x] \cap ioWanted'[x] # {} /\ npState'[x] # "NONE"
    BY <2>1, <2>2, <2>5
  <2>6. \A x \in Chan : npState'[x] = "NONE" => ioWanted'[x] = {}
    BY <2>1, <2>2
  <2>7. ioPending' # {} => bh' # "idle"
    BY <2>1, <2>3
  <2> QED
    BY <2>4, <2>5, <2>6, <2>7
<1> QED
  BY <1>1, <1>2, <1>3, <1>4, Zenon DEF LooperEffect

\* No event of a socket is stranded in the looper: an io with an undelivered event is
\* on the pending list of a bottom half that is due, and belongs to a live net pipe.
THEOREM EventsDelivered == Spec => []PendingServed
<1>1. Init => PendingServed
  BY DEF Init, HostInit, LooperInit, PendingServed
<1>2. IndInv /\ PendingServed /\ [Next]_vars => PendingServed'
  BY LooperSteps, PendingStep DEF IndInv
<1> QED
  BY <1>1, <1>2, Invariance, PTL DEF Spec
=============================================================================
