--------------------------- MODULE PipePollProofs ---------------------------
(***************************************************************************)
(* Proofs about poll(), for any number of pipes, readers, writers and       *)
(* pollers: polling disturbs nothing that GoldfishPipeProofs shows of the   *)
(* pipe, no poll misses a close, and pipe->lock is held by whoever is       *)
(* inside the part it guards.                                               *)
(***************************************************************************)
EXTENDS PipePoll, GoldfishPipeProofs

\* A poller polls an open file, and is in the queue of its pipe from poll_wait on.
PollWiring ==
  \A p \in Pollers :
    /\ ppc[p] # "user" => pfile[p] \in radix
    /\ ppc[p] \in {"command", "unlock", "sleep"} => p \in queue

\* The close of the pipe of poller p is on its way to it.
CloseComing(p) ==
  \/ p \in triggered
  \/ isrChan = pfile[p] /\ "CLOSED" \in devWakes
  \/ pfile[p] \in signaled /\ "CLOSED" \in wanted[pfile[p]]

\* A poller that sleeps, or may be about to because the command did not answer HUP.
Waits(p) == ppc[p] = "sleep" \/ (ppc[p] = "unlock" /\ "HUP" \notin answer[p])

CloseReaches == \A p \in Pollers : Waits(p) /\ closed[pfile[p]] => CloseComing(p)

\* The inductive invariant: the pipe's own, and the three above.
PollInv == IndInv /\ PendingServed /\ PollTypeOK /\ PollWiring /\ CloseReaches

----------------------------------------------------------------------------
(* The pipe under its pollers.                                              *)

\* The invariants of the pipe say nothing of the owner of pipe->lock.
LEMMA MutexApart ==
  ASSUME IndInv, PendingServed, mutex' \in [Chan -> Thread \cup {NoThread}], UNCHANGED hostVars,
         UNCHANGED <<radix, flags, devLock, isrChan, pc, file, dir, moved>>
  PROVE  IndInv' /\ PendingServed'
<1>1. UNCHANGED <<deviceVars, looperVars, netVars, sockVars>>
  BY DEF hostVars
<1>2. TypeOK'
  BY <1>1 DEF IndInv, TypeOK, HostTypeOK, deviceVars, looperVars, netVars, sockVars,
              DeviceTypeOK, LooperTypeOK, NetTypeOK, DriverTypeOK
<1>3. Wiring' /\ DeviceInv' /\ ServiceInv'
  BY <1>1 DEF IndInv, Wiring, NoStaleChannel, DeviceInv, InterruptDue, ServiceInv, deviceVars, looperVars, netVars
<1>4. RegistrationKept' /\ WakeBitCovered' /\ CloseReported'
  BY <1>1 DEF IndInv, RegistrationKept, WakeBitCovered, Covered, Registering, CloseReported,
              deviceVars, netVars
<1>5. PendingServed'
  BY <1>1 DEF PendingServed, looperVars, netVars
<1> QED
  BY <1>2, <1>3, <1>4, <1>5 DEF IndInv

\* What a step does to the pipe: one of the pipe's own steps, or only the lock moves.
LEMMA PollNextPipe ==
  ASSUME PollTypeOK, [PollNext]_allVars
  PROVE  \/ [Next]_vars
         \/ /\ mutex' \in [Chan -> Thread \cup {NoThread}] /\ UNCHANGED hostVars
            /\ UNCHANGED <<radix, flags, devLock, isrChan, pc, file, dir, moved>>
<1>t. mutex \in [Chan -> Thread \cup {NoThread}] /\ pfile \in [Pollers -> Chan] /\ Pollers \subseteq Thread
  BY PollersAssumption DEF PollTypeOK, TypeOK, DriverTypeOK
<1>1. ASSUME NEW p \in Pollers, NEW c \in Chan, PollCall(p, c) PROVE UNCHANGED vars
  BY <1>1 DEF PollCall, vars
<1>2. ASSUME NEW p \in Pollers, PollRegister(p) \/ PollCommand(p) \/ PollAgain(p) PROVE UNCHANGED vars
  BY <1>2 DEF PollRegister, PollCommand, PollAgain, vars
<1>3. ASSUME NEW p \in Pollers, PollLock(p) \/ PollUnlock(p)
      PROVE  /\ mutex' \in [Chan -> Thread \cup {NoThread}] /\ UNCHANGED hostVars
             /\ UNCHANGED <<radix, flags, devLock, isrChan, pc, file, dir, moved>>
  BY <1>3, <1>t DEF PollLock, PollUnlock
<1>4. CASE PollOther
  BY <1>4 DEF PollOther, Next, Guest
<1>5. CASE PollIsr
  BY <1>5 DEF PollIsr, PollIsrHandle, Isr, Next, Guest
<1>6. ASSUME NEW c \in Chan, PollRelease(c) PROVE Next
  BY <1>6 DEF PollRelease, Next, Guest
<1>7. CASE Host
  BY <1>7 DEF Next
<1>8. CASE UNCHANGED allVars
  BY <1>8 DEF allVars
<1> QED
  BY <1>1, <1>2, <1>3, <1>4, <1>5, <1>6, <1>7, <1>8 DEF PollNext, PollStep

\* The invariants of the pipe survive its pollers.
LEMMA PipeStep ==
  ASSUME IndInv, PendingServed, PollTypeOK, [PollNext]_allVars
  PROVE  IndInv' /\ PendingServed'
<1>1. CASE [Next]_vars
  BY <1>1, InvStep, LooperSteps, PendingStep DEF IndInv
<1> QED
  BY <1>1, PollNextPipe, MutexApart

----------------------------------------------------------------------------
(* What a step does to the pollers.                                         *)

\* The answer of CMD_POLL is a set of poll flags; on a closed pipe it has HUP.
LEMMA CmdPollAnswers ==
  ASSUME TypeOK, NEW c \in Chan
  PROVE  CmdPoll(c) \in SUBSET PollFlags /\ (closed[c] => "HUP" \in CmdPoll(c))
<1>1. ioReady[c] \in SUBSET Dirs
  BY DEF TypeOK, HostTypeOK, LooperTypeOK
<1>2. CASE c \notin pipes
  <2>1. CmdPoll(c) = PollFlags
    BY <1>2 DEF CmdPoll, Accepted
  <2> QED
    BY <2>1 DEF PollFlags
<1>3. CASE c \in pipes /\ closed[c]
  <2>1. CmdPoll(c) = {"HUP"}
    BY <1>3 DEF CmdPoll, Accepted
  <2> QED
    BY <2>1 DEF PollFlags
<1>4. CASE Accepted(c) /\ funcs[c] = "connector"
  BY <1>4 DEF CmdPoll, PollFlags, Accepted
<1>5. CASE Accepted(c) /\ funcs[c] # "connector"
  <2>1. CmdPoll(c) = {IF d = "READ" THEN "IN" ELSE "OUT" : d \in ioReady[c]}
    BY <1>5 DEF CmdPoll, Accepted
  <2> QED
    BY <1>5, <2>1 DEF PollFlags, Accepted
<1> QED
  BY <1>2, <1>3, <1>4, <1>5 DEF Accepted

\* The pollers' own variables keep their types.
LEMMA PollTypeStep ==
  ASSUME IndInv, PollTypeOK, TypeOK', [PollNext]_allVars
  PROVE  PollTypeOK'
<1> DEFINE Ok == /\ ppc \in [Pollers -> PollPlaces] /\ pfile \in [Pollers -> Chan]
                 /\ queue \in SUBSET Pollers /\ triggered \in SUBSET Pollers
                 /\ answer \in [Pollers -> SUBSET PollFlags]
<1>t. Ok
  BY DEF PollTypeOK
<1>1. CASE UNCHANGED pollVars
  BY <1>1, <1>t DEF pollVars, PollTypeOK
<1>2. ASSUME NEW p \in Pollers, NEW c \in Chan, PollCall(p, c) PROVE Ok'
  BY <1>2, <1>t DEF PollCall, Enter, PollPlaces
<1>3. ASSUME NEW p \in Pollers, PollLock(p) PROVE Ok'
  BY <1>3, <1>t DEF PollLock, Enter, PollPlaces
<1>4. ASSUME NEW p \in Pollers, PollRegister(p) PROVE Ok'
  BY <1>4, <1>t DEF PollRegister, Enter, PollPlaces
<1>5. ASSUME NEW p \in Pollers, PollCommand(p) PROVE Ok'
  <2>1. CmdPoll(pfile[p]) \in SUBSET PollFlags
    BY <1>t, CmdPollAnswers DEF IndInv
  <2> QED
    BY <1>5, <1>t, <2>1 DEF PollCommand, Enter, PollPlaces
<1>6. ASSUME NEW p \in Pollers, PollUnlock(p) PROVE Ok'
  BY <1>6, <1>t DEF PollUnlock, Enter, PollPlaces
<1>7. ASSUME NEW p \in Pollers, PollAgain(p) PROVE Ok'
  BY <1>7, <1>t DEF PollAgain, Enter, PollPlaces
<1>8. CASE PollIsrHandle
  BY <1>8, <1>t DEF PollIsrHandle, PollTypeOK
<1> QED
  BY <1>1, <1>2, <1>3, <1>4, <1>5, <1>6, <1>7, <1>8
     DEF PollNext, PollStep, PollOther, PollIsr, PollRelease, allVars, PollTypeOK
----------------------------------------------------------------------------
(* Closes reach the pollers.                                                *)

\* The close of pipe c is signalled, or in the hands of the interrupt handler.
CloseInFlight(c) ==
  \/ isrChan = c /\ "CLOSED" \in devWakes
  \/ c \in signaled /\ "CLOSED" \in wanted[c]

\* A step that neither polls, nor releases a file, nor handles a wake-up of the guest.
Bystander ==
  \/ \E c \in Chan : Open(c)
  \/ \E t \in Thread, c \in Chan, d \in Dirs : Call(t, c, d)
  \/ \E t \in Thread : ReadWrite(t)
  \/ IsrEnter \/ IsrExit \/ \E c \in Chan : IsrChannel(c)
  \/ Host
  \/ UNCHANGED vars

\* Such a step keeps the open files and the closes in flight, and puts the close of a
\* pipe it closes in flight.
BystanderEffect ==
  /\ radix \subseteq radix'
  /\ \A c \in radix : closed'[c] => CloseInFlight(c)' \/ (closed[c] /\ ~CloseInFlight(c))

\* What a bystander's step does.
LEMMA BystanderSteps ==
  ASSUME IndInv, Bystander
  PROVE  BystanderEffect
<1> USE DEF BystanderEffect, CloseInFlight
<1>t. /\ closed \in [Chan -> BOOLEAN] /\ wanted \in [Chan -> SUBSET WakeFlags]
      /\ signaled \subseteq Chan /\ radix \subseteq Chan /\ file \in [Thread -> Chan]
  BY DEF IndInv, TypeOK, HostTypeOK, DriverTypeOK, DeviceTypeOK
<1>i. TypeOK /\ Wiring /\ ServiceInv
  BY DEF IndInv
<1>1. ASSUME UNCHANGED <<radix, closed, wanted, signaled, devWakes, isrChan>> PROVE BystanderEffect
  BY <1>1
<1>2. ASSUME NEW c \in Chan, Open(c) PROVE BystanderEffect
  <2>1. /\ radix' = radix \cup {c} /\ c \notin radix
        /\ closed' = [closed EXCEPT ![c] = FALSE] /\ wanted' = [wanted EXCEPT ![c] = {}]
        /\ UNCHANGED <<signaled, devWakes, isrChan>>
    BY <1>2 DEF Open, CmdOpen
  <2> QED
    BY <1>t, <2>1
<1>3. ASSUME NEW t \in Thread, LocalEffect(t) \/ TransferEffect(t) \/ SetWakeBit(t) PROVE BystanderEffect
  <2>1. UNCHANGED <<radix, closed, wanted, signaled, devWakes, isrChan>>
    BY <1>3 DEF LocalEffect, TransferEffect, SetWakeBit, hostVars, deviceVars
  <2> QED
    BY <1>1, <2>1
<1>4. ASSUME NEW t \in Thread, WakeOnEffect(t) PROVE BystanderEffect
  <2>1. /\ UNCHANGED <<radix, closed, signaled, devWakes, isrChan>>
        /\ UNCHANGED wanted \/ wanted' = [wanted EXCEPT ![file[t]] = @ \cup {dir[t]}]
    BY <1>4, Zenon DEF WakeOnEffect
  <2>2. \A c \in Chan : wanted[c] \subseteq wanted'[c]
    BY <1>t, <2>1
  <2> QED
    BY <1>t, <2>1, <2>2
<1>5. ASSUME IsrEnter \/ IsrExit \/ QuietEffect \/ UNCHANGED vars PROVE BystanderEffect
  <2>1. UNCHANGED <<radix, closed, wanted, signaled, devWakes, isrChan>>
    BY <1>5 DEF IsrEnter, IsrExit, QuietEffect, vars, driverVars, hostVars, deviceVars
  <2> QED
    BY <1>1, <2>1
<1>6. ASSUME NEW c \in Chan, IsrChannel(c) PROVE BystanderEffect
  <2>1. /\ isrChan = NoChan /\ isrChan' = c /\ UNCHANGED <<radix, closed>>
        /\ devWakes' = wanted[c] /\ wanted' = [wanted EXCEPT ![c] = {}]
        /\ signaled' = signaled \ {c}
    BY <1>6 DEF IsrChannel, ReadChannel
  <2> QED
    BY <1>t, <2>1, NoChanAssumption
<1>7. ASSUME NEW c \in Chan, IoFuncEffect(c) PROVE BystanderEffect
  <2>1. UNCHANGED <<radix, devWakes, isrChan>>
    BY <1>7, Zenon DEF IoFuncEffect, driverVars
  <2>2. CASE UNCHANGED <<wanted, closed, signaled>>
    BY <1>1, <2>1, <2>2
  <2>3. CASE /\ closed' = [closed EXCEPT ![c] = TRUE] /\ signaled' = signaled \cup {c}
             /\ wanted' = [wanted EXCEPT ![c] = @ \cup {"CLOSED"}]
    BY <1>t, <2>1, <2>3
  <2>4. ASSUME NEW e, UNCHANGED closed, signaled' = signaled \cup {c},
               wanted' = [wanted EXCEPT ![c] = @ \cup e]
        PROVE  BystanderEffect
    BY <1>t, <2>1, <2>4
  <2> QED
    BY <1>7, <2>2, <2>3, <2>4, Zenon DEF IoFuncEffect
<1>8. ASSUME NEW t \in Thread, ReadWrite(t) \/ \E c \in Chan, d \in Dirs : Call(t, c, d)
      PROVE  BystanderEffect
  <2> HIDE DEF BystanderEffect
  <2> QED
    BY <1>3, <1>4, <1>8, <1>i, LocalSteps, TransferSteps, WakeOnSteps DEF ReadWrite, Runs
<1>9. CASE Host
  <2> HIDE DEF BystanderEffect
  <2> QED
    BY <1>5, <1>7, <1>9, <1>i, IoFuncSteps, QuietSteps DEF Host
<1> HIDE DEF BystanderEffect
<1> QED
  BY <1>2, <1>5, <1>6, <1>8, <1>9 DEF Bystander

\* The cases of a step that matter to the pollers.
LEMMA PollCases ==
  ASSUME [PollNext]_allVars
  PROVE  \/ \E p \in Pollers, c \in Chan : PollCall(p, c)
         \/ \E p \in Pollers : PollStep(p)
         \/ PollIsrHandle
         \/ \E c \in Chan : PollRelease(c)
         \/ Bystander /\ UNCHANGED pollVars
  BY DEF PollNext, PollOther, PollIsr, Bystander, allVars

\* A poller's own step moves no file, no flag and no wake-up.
LEMMA PollStepQuiet ==
  ASSUME NEW p \in Pollers, PollStep(p) \/ \E c \in Chan : PollCall(p, c)
  PROVE  UNCHANGED <<radix, flags, closed, wanted, signaled, devWakes, isrChan, pc, file>>
  BY DEF PollStep, PollCall, PollLock, PollRegister, PollCommand, PollUnlock, PollAgain,
         hostVars, deviceVars, driverVars
\* Pollers stay on open files, and in the queue from poll_wait to the end of the poll.
LEMMA PollWiringStep ==
  ASSUME PollInv, [PollNext]_allVars
  PROVE  PollWiring'
<1> USE DEF PollWiring
<1>t. /\ ppc \in [Pollers -> PollPlaces] /\ pfile \in [Pollers -> Chan]
      /\ PollWiring /\ IndInv
  BY DEF PollInv, PollTypeOK
<1>1. ASSUME NEW p \in Pollers, NEW c \in Chan, PollCall(p, c) PROVE PollWiring'
  <2>1. UNCHANGED radix
    BY <1>1, PollStepQuiet
  <2> QED
    BY <1>1, <1>t, <2>1 DEF PollCall, Enter
<1>2. ASSUME NEW p \in Pollers, PollStep(p) PROVE PollWiring'
  <2>1. UNCHANGED <<radix, pfile>>
    BY <1>2, PollStepQuiet DEF PollStep, PollLock, PollRegister, PollCommand, PollUnlock, PollAgain
  <2>2. CASE PollLock(p) \/ PollAgain(p)
    BY <1>t, <2>1, <2>2 DEF PollLock, PollAgain, Enter
  <2>3. CASE PollRegister(p)
    BY <1>t, <2>1, <2>3 DEF PollRegister, Enter
  <2>4. CASE PollCommand(p)
    BY <1>t, <2>1, <2>4 DEF PollCommand, Enter
  <2>5. CASE PollUnlock(p)
    BY <1>t, <2>1, <2>5 DEF PollUnlock, Enter
  <2> QED
    BY <1>2, <2>2, <2>3, <2>4, <2>5 DEF PollStep
<1>3. CASE PollIsrHandle
  BY <1>3, <1>t DEF PollIsrHandle, IsrHandle
<1>4. ASSUME NEW c \in Chan, PollRelease(c) PROVE PollWiring'
  BY <1>4, <1>t DEF PollRelease, Release, pollVars
<1>5. CASE Bystander /\ UNCHANGED pollVars
  <2>1. radix \subseteq radix'
    BY <1>5, <1>t, BystanderSteps DEF BystanderEffect
  <2> QED
    BY <1>5, <1>t, <2>1 DEF pollVars
<1> QED
  BY <1>1, <1>2, <1>3, <1>4, <1>5, PollCases

\* The close of a polled pipe stays on its way to its pollers.
LEMMA CloseReachesStep ==
  ASSUME PollInv, [PollNext]_allVars
  PROVE  CloseReaches'
<1>t. /\ ppc \in [Pollers -> PollPlaces] /\ pfile \in [Pollers -> Chan]
      /\ answer \in [Pollers -> SUBSET PollFlags] /\ triggered \subseteq Pollers
      /\ PollWiring /\ IndInv /\ CloseReaches /\ radix \subseteq Chan
      /\ closed \in [Chan -> BOOLEAN]
  BY DEF PollInv, PollTypeOK, IndInv, TypeOK, DriverTypeOK, HostTypeOK, DeviceTypeOK
<1>1. ASSUME NEW p \in Pollers, NEW c \in Chan, PollCall(p, c) PROVE CloseReaches'
  <2>1. UNCHANGED <<closed, wanted, signaled, devWakes, isrChan>>
    BY <1>1, PollStepQuiet
  <2>2. /\ ppc'[p] = "lock" /\ UNCHANGED <<triggered, answer>>
        /\ \A q \in Pollers \ {p} : ppc'[q] = ppc[q] /\ pfile'[q] = pfile[q]
    BY <1>1, <1>t DEF PollCall, Enter
  <2> QED
    BY <1>t, <2>1, <2>2 DEF CloseReaches, Waits, CloseComing
<1>2. ASSUME NEW p \in Pollers, PollStep(p) PROVE CloseReaches'
  <2>1. UNCHANGED <<closed, wanted, signaled, devWakes, isrChan>>
    BY <1>2, PollStepQuiet
  <2>2. /\ UNCHANGED pfile
        /\ \A q \in Pollers \ {p} : /\ ppc'[q] = ppc[q] /\ answer'[q] = answer[q]
                                    /\ q \in triggered' <=> q \in triggered
    BY <1>2, <1>t DEF PollStep, PollLock, PollRegister, PollCommand, PollUnlock, PollAgain, Enter
  <2>3. Waits(p)' /\ closed[pfile[p]] => Waits(p) /\ (p \in triggered => p \in triggered')
    <3>1. CASE PollLock(p) \/ PollRegister(p) \/ PollAgain(p)
      BY <3>1, <1>t DEF PollLock, PollRegister, PollAgain, Enter, Waits
    <3>2. CASE PollCommand(p)
      <4>1. ppc'[p] = "unlock" /\ answer'[p] = CmdPoll(pfile[p])
        BY <3>2, <1>t DEF PollCommand, Enter
      <4>2. closed[pfile[p]] => "HUP" \in answer'[p]
        BY <4>1, <1>t, CmdPollAnswers DEF IndInv
      <4> QED
        BY <4>1, <4>2 DEF Waits
    <3>3. CASE PollUnlock(p)
      BY <3>3, <1>t DEF PollUnlock, Requested, Enter, Waits
    <3> QED
      BY <1>2, <3>1, <3>2, <3>3 DEF PollStep
  <2>4. ASSUME NEW q \in Pollers, Waits(q)', closed'[pfile'[q]] PROVE CloseComing(q)'
    <3>1. Waits(q) /\ closed[pfile[q]] /\ (q \in triggered => q \in triggered')
      BY <2>1, <2>2, <2>3, <2>4 DEF Waits
    <3>2. CloseComing(q)
      BY <3>1, <1>t DEF CloseReaches
    <3> QED
      BY <2>1, <2>2, <3>1, <3>2 DEF CloseComing
  <2> QED
    BY <2>4 DEF CloseReaches
<1>3. CASE PollIsrHandle
  <2>1. /\ UNCHANGED <<ppc, pfile, answer, radix, closed, wanted, signaled, devWakes>>
        /\ triggered' = triggered \cup {p \in queue : isrChan \in radix /\ pfile[p] = isrChan}
    BY <1>3 DEF PollIsrHandle, IsrHandle, hostVars, deviceVars
  <2>2. ASSUME NEW q \in Pollers, Waits(q), closed[pfile[q]] PROVE CloseComing(q)'
    <3>1. CloseComing(q)
      BY <1>t, <2>2 DEF CloseReaches
    <3>2. pfile[q] \in radix /\ q \in queue
      BY <1>t, <2>2 DEF PollWiring, Waits
    <3> QED
      BY <2>1, <3>1, <3>2 DEF CloseComing
  <2> QED
    BY <2>1, <2>2 DEF CloseReaches, Waits
<1>4. ASSUME NEW c \in Chan, PollRelease(c) PROVE CloseReaches'
  <2>1. /\ UNCHANGED <<ppc, pfile, answer, triggered, devWakes, isrChan>>
        /\ \A p \in Pollers : Waits(p) => pfile[p] # c
        /\ signaled' = signaled \ {c} /\ wanted' = [wanted EXCEPT ![c] = {}]
        /\ closed' = [closed EXCEPT ![c] = FALSE]
    BY <1>4 DEF PollRelease, Release, CmdClose, UnlinkPipe, pollVars, Waits
  <2>2. wanted \in [Chan -> SUBSET WakeFlags]
    BY <1>t DEF IndInv, TypeOK, HostTypeOK, DeviceTypeOK
  <2> QED
    BY <1>t, <2>1, <2>2 DEF CloseReaches, Waits, CloseComing
<1>5. CASE Bystander /\ UNCHANGED pollVars
  <2>1. UNCHANGED <<ppc, pfile, answer, triggered>>
    BY <1>5 DEF pollVars
  <2>2. ASSUME NEW q \in Pollers, Waits(q), closed'[pfile[q]] PROVE CloseComing(q)'
    <3>1. pfile[q] \in radix
      BY <1>t, <2>2 DEF PollWiring, Waits
    <3>2. CloseInFlight(pfile[q])' \/ (closed[pfile[q]] /\ ~CloseInFlight(pfile[q]))
      BY <1>5, <1>t, <2>1, <2>2, <3>1, BystanderSteps DEF BystanderEffect, CloseInFlight
    <3>3. closed[pfile[q]] => q \in triggered \/ CloseInFlight(pfile[q])
      BY <1>t, <2>2 DEF CloseReaches, CloseComing, CloseInFlight
    <3> QED
      BY <2>1, <3>2, <3>3 DEF CloseComing, CloseInFlight
  <2> QED
    BY <2>1, <2>2 DEF CloseReaches, Waits
<1> QED
  BY <1>1, <1>2, <1>3, <1>4, <1>5, PollCases

----------------------------------------------------------------------------
(* The theorems.                                                            *)

\* The pipe with its pollers keeps the inductive invariant.
THEOREM PollInvariance == PollSpec => []PollInv
<1>1. PollInit => PollInv
  <2> SUFFICES ASSUME PollInit PROVE PollInv
    OBVIOUS
  <2>1. IndInv /\ PendingServed
    BY InitInv DEF PollInit, Init, HostInit, LooperInit, PendingServed
  <2>2. PollTypeOK /\ PollWiring /\ CloseReaches
    BY <2>1 DEF PollInit, IndInv, PollTypeOK, PollPlaces, PollFlags, PollWiring, CloseReaches, Waits
  <2> QED
    BY <2>1, <2>2 DEF PollInv
<1>2. PollInv /\ [PollNext]_allVars => PollInv'
  <2> SUFFICES ASSUME PollInv, [PollNext]_allVars PROVE PollInv'
    OBVIOUS
  <2>1. IndInv' /\ PendingServed'
    BY PipeStep DEF PollInv
  <2>2. PollTypeOK'
    BY <2>1, PollTypeStep DEF PollInv, IndInv
  <2> QED
    BY <2>1, <2>2, PollWiringStep, CloseReachesStep DEF PollInv
<1> QED
  BY <1>1, <1>2, PTL DEF PollSpec

\* poll() keeps the types of its own state and of the pipe.
THEOREM PollTypeCorrect == PollSpec => []PollTypeOK
<1>1. PollInv => PollTypeOK
  BY DEF PollInv
<1> QED
  BY <1>1, PollInvariance, PTL

\* No poll misses the close of its pipe, if the interrupt controller is KVM's.
THEOREM PollSeesClose ==
  ASSUME InKernelGic
  PROVE  PollSpec => []PollMissesNoClose
<1>1. PollInv => PollMissesNoClose
  BY DEF PollInv, IndInv, DeviceInv, CloseReaches, Waits, CloseComing, PollMissesNoClose
<1> QED
  BY <1>1, PollInvariance, PTL

\* Readers and writers lose no wake-up, and the looper strands no event, beside any
\* number of pollers, if the interrupt controller is KVM's.
THEOREM PollDisturbsNobody ==
  ASSUME InKernelGic
  PROVE  PollSpec => [](NoLostWakeup /\ PendingServed)
<1>1. PollInv => NoLostWakeup /\ PendingServed
  BY BlockedWillWake DEF PollInv
<1> QED
  BY <1>1, PollInvariance, PTL
----------------------------------------------------------------------------
(* pipe->lock, when no signal interrupts a call and every page can be       *)
(* pinned.  Without that, a call may end with the lock held, or unlock what *)
(* another thread holds, as PinFails and RelockInterrupted do.              *)

\* Thread t is inside the part of a call on pipe c that pipe->lock guards.
Holds(t, c) ==
  \/ file[t] = c /\ pc[t] \in {"transfer", "setbit", "wakeon", "unlockwait", "unlock"}
  \/ t \in Pollers /\ pfile[t] = c /\ ppc[t] \in {"register", "command", "unlock"}

\* The pollers neither read nor write.
PollersPoll == \A p \in Pollers : pc[p] = "idle"

\* What a step does to the locks and to the threads inside: thread t takes the lock
\* of pipe c, or gives it back, or all locks are left alone.
OthersStay(t) == \A u \in Thread \ {t}, x \in Chan : Holds(u, x)' <=> Holds(u, x)

TakesLock(t, c) ==
  /\ mutex[c] = NoThread /\ mutex' = [mutex EXCEPT ![c] = t]
  /\ \A x \in Chan : ~Holds(t, x) /\ (Holds(t, x)' <=> x = c)
  /\ OthersStay(t)

GivesLock(t, c) ==
  /\ mutex' = [mutex EXCEPT ![c] = NoThread]
  /\ \A x \in Chan : (Holds(t, x) <=> x = c) /\ ~Holds(t, x)'
  /\ OthersStay(t)

\* The lock of a pipe nobody is inside of is made free.
FreesLock(c) ==
  /\ mutex' = [mutex EXCEPT ![c] = NoThread]
  /\ \A u \in Thread : ~Holds(u, c)
  /\ \A u \in Thread, x \in Chan : Holds(u, x)' <=> Holds(u, x)

LeavesLocks ==
  /\ UNCHANGED mutex
  /\ \A u \in Thread, x \in Chan : Holds(u, x)' <=> Holds(u, x)

LockEffect ==
  \/ LeavesLocks
  \/ \E c \in Chan : FreesLock(c)
  \/ \E t \in Thread, c \in Chan : TakesLock(t, c) \/ GivesLock(t, c)

\* Each of these keeps the lock with the thread inside.
LEMMA LockKept ==
  ASSUME mutex \in [Chan -> Thread \cup {NoThread}], MutexDiscipline, LockEffect
  PROVE  MutexDiscipline'
<1> DEFINE Disc == \A u \in Thread, x \in Chan : mutex[x] = u <=> Holds(u, x)
<1>1. Disc
  BY DEF MutexDiscipline, Holds
<1>2. ASSUME LeavesLocks, NEW u \in Thread, NEW x \in Chan
      PROVE  mutex'[x] = u <=> Holds(u, x)'
  <2>1. UNCHANGED mutex /\ (Holds(u, x)' <=> Holds(u, x))
    BY <1>2, Zenon DEF LeavesLocks
  <2> QED
    BY <1>1, <2>1
<1>3. ASSUME NEW c \in Chan, FreesLock(c), NEW u \in Thread, NEW x \in Chan
      PROVE  mutex'[x] = u <=> Holds(u, x)'
  <2>1. mutex'[x] = IF x = c THEN NoThread ELSE mutex[x]
    BY <1>3 DEF FreesLock
  <2>2. ~Holds(u, c) /\ (Holds(u, x)' <=> Holds(u, x))
    BY <1>3, Zenon DEF FreesLock
  <2>3. NoThread # u
    BY ThreadAssumption
  <2> HIDE DEF Holds
  <2> QED
    BY <1>1, <2>1, <2>2, <2>3
<1>4. ASSUME NEW t \in Thread, NEW c \in Chan, TakesLock(t, c) \/ GivesLock(t, c),
             NEW u \in Thread, NEW x \in Chan
      PROVE  mutex'[x] = u <=> Holds(u, x)'
  <2>1. NoThread # u /\ NoThread # t
    BY ThreadAssumption
  <2>2. u # t => (Holds(u, x)' <=> Holds(u, x))
    BY <1>4, Zenon DEF TakesLock, GivesLock, OthersStay
  <2>d. (mutex[x] = u <=> Holds(u, x)) /\ (mutex[x] = t <=> Holds(t, x))
    BY <1>1
  <2>3. CASE TakesLock(t, c)
    <3>1. mutex'[x] = (IF x = c THEN t ELSE mutex[x]) /\ mutex[c] = NoThread
      BY <2>3 DEF TakesLock
    <3>2. ~Holds(t, x) /\ (Holds(t, x)' <=> x = c)
      BY <2>3, Zenon DEF TakesLock
    <3> QED
      BY <2>1, <2>2, <2>d, <3>1, <3>2
  <2>4. CASE GivesLock(t, c)
    <3>1. mutex'[x] = IF x = c THEN NoThread ELSE mutex[x]
      BY <2>4 DEF GivesLock
    <3>2. (Holds(t, x) <=> x = c) /\ ~Holds(t, x)'
      BY <2>4, Zenon DEF GivesLock
    <3> QED
      BY <2>1, <2>2, <2>d, <3>1, <3>2
  <2> QED
    BY <1>4, <2>3, <2>4
<1>5. (\A u \in Thread, x \in Chan : mutex'[x] = u <=> Holds(u, x)') => MutexDiscipline'
  BY Zenon DEF MutexDiscipline, Holds
<1> QED
  BY <1>2, <1>3, <1>4, <1>5, Zenon DEF LockEffect

\* The places of qemu_pipe_read_write between mutex_lock and mutex_unlock.
Inside == {"transfer", "setbit", "wakeon", "unlockwait", "unlock"}

\* A step of thread t in qemu_pipe_read_write: inside or outside it stays, or it
\* enters with the lock it takes, or leaves with the lock it gives back.
CallMoves(t) ==
  \E place \in Places :
    /\ pc' = [pc EXCEPT ![t] = place]
    /\ \A u \in Thread \ {t} : file'[u] = file[u]
    /\ \/ UNCHANGED mutex /\ pc[t] \notin Inside /\ place \notin Inside
       \/ UNCHANGED <<mutex, file>> /\ pc[t] \in Inside /\ place \in Inside
       \/ /\ pc[t] \notin Inside /\ place \in Inside /\ UNCHANGED file
          /\ mutex[file[t]] = NoThread /\ mutex' = [mutex EXCEPT ![file[t]] = t]
       \/ /\ pc[t] \in Inside /\ place \notin Inside /\ UNCHANGED file
          /\ mutex' = [mutex EXCEPT ![file[t]] = NoThread]

\* Without signals and pin failures, those are the steps of a call.
LEMMA CallSteps ==
  ASSUME TypeOK, Signalled = {}, Faulting = {}, NEW t \in Thread,
         ReadWrite(t) \/ \E c \in Chan, d \in Dirs : Call(t, c, d)
  PROVE  CallMoves(t)
<1> USE DEF CallMoves, Inside, Places, Goto, Return
<1>t. pc \in [Thread -> Places] /\ file \in [Thread -> Chan]
  BY DEF TypeOK, DriverTypeOK
<1>1. ASSUME NEW c \in Chan, NEW d \in Dirs, Call(t, c, d) PROVE CallMoves(t)
  BY <1>1, <1>t DEF Call
<1>2. CASE Lock(t)
  BY <1>2 DEF Lock
<1>3. CASE Transfer(t)
  <2>1. \E place \in {"transfer", "unlock", "setbit"} : Goto(t, place)
    BY <1>3 DEF Transfer, NextPlaces
  <2>2. pc[t] = "transfer" /\ UNCHANGED mutex
    BY <1>3 DEF Transfer
  <2> QED
    BY <2>1, <2>2
<1>4. CASE SetWakeBit(t) \/ WakeOn(t)
  BY <1>4 DEF SetWakeBit, WakeOn
<1>5. CASE UnlockToWait(t)
  BY <1>5 DEF UnlockToWait
<1>6. CASE Unlock(t)
  BY <1>6 DEF Unlock
<1>7. CASE TestWakeBit(t)
  BY <1>7 DEF TestWakeBit
<1>8. CASE Wake(t)
  BY <1>8 DEF Wake
<1>9. ~(LockInterrupted(t) \/ PinFails(t) \/ WaitInterrupted(t) \/ RelockInterrupted(t))
  BY DEF LockInterrupted, PinFails, WaitInterrupted, RelockInterrupted
<1> HIDE DEF CallMoves
<1> QED
  BY <1>1, <1>2, <1>3, <1>4, <1>5, <1>6, <1>7, <1>8, <1>9 DEF ReadWrite, Runs

\* They do to the locks what LockEffect allows.
LEMMA CallLocks ==
  ASSUME TypeOK, UNCHANGED <<ppc, pfile>>, NEW t \in Thread \ Pollers, CallMoves(t)
  PROVE  LockEffect
<1>t. pc \in [Thread -> Places] /\ file \in [Thread -> Chan] /\ file[t] \in Chan
  BY DEF TypeOK, DriverTypeOK
<1>1. PICK place \in Places :
        /\ pc' = [pc EXCEPT ![t] = place]
        /\ \A u \in Thread \ {t} : file'[u] = file[u]
        /\ \/ UNCHANGED mutex /\ pc[t] \notin Inside /\ place \notin Inside
           \/ UNCHANGED <<mutex, file>> /\ pc[t] \in Inside /\ place \in Inside
           \/ /\ pc[t] \notin Inside /\ place \in Inside /\ UNCHANGED file
              /\ mutex[file[t]] = NoThread /\ mutex' = [mutex EXCEPT ![file[t]] = t]
           \/ /\ pc[t] \in Inside /\ place \notin Inside /\ UNCHANGED file
              /\ mutex' = [mutex EXCEPT ![file[t]] = NoThread]
  BY Zenon DEF CallMoves
<1>2. pc'[t] = place /\ \A u \in Thread \ {t} : pc'[u] = pc[u]
  BY <1>1, <1>t
<1>3. /\ OthersStay(t)
      /\ \A x \in Chan : /\ Holds(t, x) <=> file[t] = x /\ pc[t] \in Inside
                         /\ Holds(t, x)' <=> file'[t] = x /\ place \in Inside
  BY <1>1, <1>2 DEF OthersStay, Holds, Inside
<1>4. CASE \/ UNCHANGED mutex /\ pc[t] \notin Inside /\ place \notin Inside
           \/ UNCHANGED <<mutex, file>> /\ pc[t] \in Inside /\ place \in Inside
  <2>1. LeavesLocks
    <3>1. \A x \in Chan : Holds(t, x)' <=> Holds(t, x)
      BY <1>3, <1>4, Zenon
    <3> QED
      BY <1>3, <1>4, <3>1, Zenon DEF LeavesLocks, OthersStay
  <2> QED
    BY <2>1 DEF LockEffect
<1>5. CASE /\ pc[t] \notin Inside /\ place \in Inside /\ UNCHANGED file
           /\ mutex[file[t]] = NoThread /\ mutex' = [mutex EXCEPT ![file[t]] = t]
  <2>1. TakesLock(t, file[t])
    BY <1>3, <1>5 DEF TakesLock, Holds
  <2> QED
    BY <1>t, <2>1, Zenon DEF LockEffect
<1>6. CASE /\ pc[t] \in Inside /\ place \notin Inside /\ UNCHANGED file
           /\ mutex' = [mutex EXCEPT ![file[t]] = NoThread]
  <2>1. GivesLock(t, file[t])
    BY <1>3, <1>6 DEF GivesLock, Holds
  <2> QED
    BY <1>t, <2>1, Zenon DEF LockEffect
<1> QED
  BY <1>1, <1>4, <1>5, <1>6

\* So do the steps of a poll.
LEMMA PollLocks ==
  ASSUME PollTypeOK, PollersPoll, NEW p \in Pollers, PollStep(p) \/ \E c \in Chan : PollCall(p, c)
  PROVE  LockEffect
<1> DEFINE At == {"register", "command", "unlock"}
           c == pfile[p]
<1>t. /\ ppc \in [Pollers -> PollPlaces] /\ pfile \in [Pollers -> Chan]
      /\ p \in Thread /\ c \in Chan /\ Pollers \subseteq Thread /\ pc[p] = "idle"
  BY PollersAssumption DEF PollTypeOK, PollersPoll
<1>1. UNCHANGED <<pc, file>>
  BY PollStepQuiet
<1>2. ASSUME NEW place, ppc' = [ppc EXCEPT ![p] = place], \A q \in Pollers \ {p} : pfile'[q] = pfile[q]
      PROVE  /\ OthersStay(p)
             /\ \A x \in Chan : /\ Holds(p, x) <=> c = x /\ ppc[p] \in At
                                /\ Holds(p, x)' <=> pfile'[p] = x /\ place \in At
  BY <1>t, <1>1, <1>2 DEF OthersStay, Holds
<1>3. ASSUME NEW x \in Chan, PollCall(p, x) PROVE LeavesLocks
  <2>1. /\ ppc[p] = "user" /\ ppc' = [ppc EXCEPT ![p] = "lock"] /\ UNCHANGED mutex
        /\ \A q \in Pollers \ {p} : pfile'[q] = pfile[q]
    BY <1>t, <1>3 DEF PollCall, Enter, driverVars
  <2>2. OthersStay(p)
    BY <1>2, <2>1
  <2>3. \A y \in Chan : ~Holds(p, y) /\ ~Holds(p, y)'
    BY <1>t, <1>1, <2>1 DEF Holds
  <2> QED
    BY <2>1, <2>2, <2>3, Zenon DEF LeavesLocks, OthersStay
<1>4. CASE PollRegister(p) \/ PollCommand(p) \/ PollAgain(p)
  <2>1. /\ \/ ppc[p] = "register" /\ ppc' = [ppc EXCEPT ![p] = "command"]
           \/ ppc[p] = "command" /\ ppc' = [ppc EXCEPT ![p] = "unlock"]
           \/ ppc[p] = "sleep" /\ ppc' = [ppc EXCEPT ![p] = "lock"]
        /\ UNCHANGED <<mutex, pfile>>
    BY <1>4 DEF PollRegister, PollCommand, PollAgain, Enter, driverVars
  <2>2. OthersStay(p)
    BY <1>2, <2>1
  <2>3. \A y \in Chan : Holds(p, y)' <=> Holds(p, y)
    BY <1>t, <1>1, <2>1 DEF Holds
  <2>4. LeavesLocks
    BY <2>1, <2>2, <2>3, Zenon DEF LeavesLocks, OthersStay
  <2> QED
    BY <2>4 DEF LockEffect
<1>5. CASE PollLock(p)
  <2>1. /\ ppc[p] = "lock" /\ ppc' = [ppc EXCEPT ![p] = "register"] /\ UNCHANGED pfile
        /\ mutex[c] = NoThread /\ mutex' = [mutex EXCEPT ![c] = p]
    BY <1>5 DEF PollLock, Enter
  <2>2. TakesLock(p, c)
    BY <1>2, <2>1 DEF TakesLock, Holds
  <2> QED
    BY <1>t, <2>2, Zenon DEF LockEffect
<1>6. CASE PollUnlock(p)
  <2>1. /\ ppc[p] = "unlock" /\ UNCHANGED pfile /\ mutex' = [mutex EXCEPT ![c] = NoThread]
        /\ \E place \in {"sleep", "user"} : ppc' = [ppc EXCEPT ![p] = place]
    BY <1>6, Zenon DEF PollUnlock, Enter
  <2>2. GivesLock(p, c)
    BY <1>2, <2>1 DEF GivesLock, Holds
  <2> QED
    BY <1>t, <2>2, Zenon DEF LockEffect
<1> QED
  BY <1>3, <1>4, <1>5, <1>6 DEF PollStep, LockEffect

\* A step of the guest or of the host, whoever takes it.
LEMMA LockStep ==
  ASSUME PollInv, PollersPoll, Signalled = {}, Faulting = {}, [PollNext]_allVars
  PROVE  LockEffect /\ PollersPoll'
<1>t. /\ PollTypeOK /\ PollWiring /\ Wiring /\ TypeOK
      /\ Pollers \subseteq Thread /\ Pollers \cap (Readers \cup Writers) = {}
  BY PollersAssumption DEF PollInv, PollTypeOK, IndInv
<1>1. ASSUME NEW p \in Pollers, PollStep(p) \/ \E c \in Chan : PollCall(p, c)
      PROVE  LockEffect /\ PollersPoll'
  <2>1. LockEffect
    BY <1>t, <1>1, PollLocks
  <2> QED
    BY <1>1, <2>1, PollStepQuiet DEF PollersPoll
<1>2. ASSUME UNCHANGED <<mutex, pc, file, ppc, pfile>>
      PROVE  LockEffect /\ PollersPoll'
  <2>1. LeavesLocks
    BY <1>2 DEF LeavesLocks, Holds
  <2> QED
    BY <1>2, <2>1 DEF LockEffect, PollersPoll
<1>3. CASE PollIsrHandle
  BY <1>2, <1>3 DEF PollIsrHandle, IsrHandle
<1>4. ASSUME NEW c \in Chan, mutex' = [mutex EXCEPT ![c] = NoThread],
             UNCHANGED <<pc, file, ppc, pfile>>,
             \A t \in Thread : pc[t] # "idle" => file[t] # c,
             \A p \in Pollers : ppc[p] # "user" => pfile[p] # c
      PROVE  LockEffect /\ PollersPoll'
  <2>1. FreesLock(c)
    BY <1>4 DEF FreesLock, Holds
  <2>2. LockEffect
    BY <2>1 DEF LockEffect
  <2> QED
    BY <1>4, <2>2 DEF PollersPoll
<1>5. ASSUME NEW c \in Chan, PollRelease(c) PROVE LockEffect /\ PollersPoll'
  BY <1>4, <1>5 DEF PollRelease, Release, pollVars
<1>6. ASSUME NEW c \in Chan, Open(c), UNCHANGED pollVars PROVE LockEffect /\ PollersPoll'
  <2>1. /\ c \notin radix /\ mutex' = [mutex EXCEPT ![c] = NoThread]
        /\ UNCHANGED <<pc, file, ppc, pfile>>
    BY <1>6 DEF Open, pollVars
  <2>2. \A t \in Thread : pc[t] # "idle" => file[t] # c
    BY <1>t, <2>1 DEF Wiring
  <2>3. \A p \in Pollers : ppc[p] # "user" => pfile[p] # c
    BY <1>t, <2>1 DEF PollWiring
  <2> QED
    BY <1>4, <2>1, <2>2, <2>3
<1>7. ASSUME NEW t \in Thread, ReadWrite(t) \/ \E c \in Chan, d \in Dirs : Call(t, c, d),
             UNCHANGED pollVars
      PROVE  LockEffect /\ PollersPoll'
  <2>1. t \notin Pollers
    <3>1. ASSUME NEW c \in Chan, NEW d \in Dirs, Call(t, c, d) PROVE t \notin Pollers
      BY <1>t, <3>1 DEF Call
    <3>2. CASE ReadWrite(t)
      BY <3>2 DEF PollersPoll, ReadWrite, Runs, Lock, Transfer, SetWakeBit, WakeOn, UnlockToWait,
                  TestWakeBit, Wake, Unlock, LockInterrupted, PinFails, WaitInterrupted, RelockInterrupted
    <3> QED
      BY <1>7, <3>1, <3>2
  <2>2. CallMoves(t)
    BY <1>t, <1>7, CallSteps
  <2>3. LockEffect
    BY <1>t, <1>7, <2>1, <2>2, CallLocks DEF pollVars
  <2>4. \E place : pc' = [pc EXCEPT ![t] = place]
    BY <2>2 DEF CallMoves
  <2> QED
    BY <1>t, <2>1, <2>3, <2>4 DEF PollersPoll, TypeOK, DriverTypeOK
<1>8. CASE (IsrEnter \/ IsrExit \/ (\E c \in Chan : IsrChannel(c)) \/ Host \/ UNCHANGED vars)
           /\ UNCHANGED pollVars
  <2>1. UNCHANGED <<mutex, pc, file>>
    BY <1>8 DEF IsrEnter, IsrExit, IsrChannel, Host, HostBh, HostFd, HostIoFunc, HostPeer,
                vars, driverVars
  <2> QED
    BY <1>2, <1>8, <2>1 DEF pollVars
<1> QED
  BY <1>1, <1>3, <1>5, <1>6, <1>7, <1>8, PollCases DEF Bystander

\* pipe->lock is with the thread inside the part it guards, of reads, writes and polls
\* alike, and free when there is none.
THEOREM LockGuards ==
  ASSUME Signalled = {}, Faulting = {} PROVE PollSpec => []MutexDiscipline
<1>1. PollInit => MutexDiscipline /\ PollersPoll
  <2> SUFFICES ASSUME PollInit PROVE MutexDiscipline /\ PollersPoll
    OBVIOUS
  <2>1. /\ mutex = [c \in Chan |-> NoThread] /\ pc = [t \in Thread |-> "idle"]
        /\ ppc = [p \in Pollers |-> "user"]
    BY DEF PollInit, Init, DriverInit
  <2>2. PollersPoll
    BY <2>1, PollersAssumption DEF PollersPoll
  <2>3. MutexDiscipline
    BY <2>1, ThreadAssumption DEF MutexDiscipline
  <2> QED
    BY <2>2, <2>3
<1>2. PollInv /\ MutexDiscipline /\ PollersPoll /\ [PollNext]_allVars
        => (MutexDiscipline /\ PollersPoll)'
  <2> SUFFICES ASSUME PollInv, MutexDiscipline, PollersPoll, [PollNext]_allVars
               PROVE  (MutexDiscipline /\ PollersPoll)'
    OBVIOUS
  <2>1. mutex \in [Chan -> Thread \cup {NoThread}]
    BY DEF PollInv, IndInv, TypeOK, DriverTypeOK
  <2> QED
    BY <2>1, LockStep, LockKept
<1> QED
  BY <1>1, <1>2, PollInvariance, PTL DEF PollSpec
=============================================================================
