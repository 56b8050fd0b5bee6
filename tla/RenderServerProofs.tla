-------------------------- MODULE RenderServerProofs -------------------------
(***************************************************************************)
(* Proof that the render server never takes the frame buffer, the stream or *)
(* the object from a render thread that still renders, for any number of    *)
(* connections, however they interleave.                                    *)
(***************************************************************************)
EXTENDS RenderServer, TLAPS

\* Initial states satisfy the invariant.
LEMMA InitInv == Init => IndInv
<1> SUFFICES ASSUME Init PROVE IndInv
  OBVIOUS
<1> USE ServerAssumption DEF Init, Conn, Stream
<1>1. TypeOK
  BY DEF TypeOK, ThreadTypeOK
<1>2. QueueInv
  BY DEF QueueInv, Connected
<1>3. MainInv
  BY DEF MainInv
<1>4. StopInv
  BY DEF StopInv
<1>5. ASSUME NEW c \in Conn PROVE ThreadInv(c)
  BY DEF ThreadInv, Rendering
<1> QED
  BY <1>1, <1>2, <1>3, <1>4, <1>5 DEF IndInv

\* Every step keeps the types.
LEMMA TypeStep ==
  ASSUME IndInv, [Next]_vars
  PROVE  TypeOK'
<1> USE ServerAssumption DEF IndInv, TypeOK, ThreadTypeOK, Conn, Stream
<1> USE DEF TypeOK
<1> USE DEF vars, threadVars, serverVars, clientVars, renderVars
<1>1. ASSUME NEW d \in Conn, Connect(d) PROVE TypeOK'
  BY <1>1 DEF Connect
<1>2. ASSUME NEW d \in Conn, SendFlags(d) PROVE TypeOK'
  BY <1>2 DEF SendFlags
<1>3. ASSUME NEW d \in Conn, HangUp(d) PROVE TypeOK'
  BY <1>3 DEF HangUp
<1>4. CASE Accept
  BY <1>4 DEF Accept
<1>5. CASE AcceptError
  BY <1>5 DEF AcceptError, LeaveLoop
<1>6. CASE FlagsMissing
  BY <1>6 DEF FlagsMissing
<1>7. CASE FlagsExit
  BY <1>7 DEF FlagsExit, LeaveLoop
<1>8. CASE FlagsRender
  BY <1>8 DEF FlagsRender, New
<1>9. CASE StartThread
  <2>1. PICK ok \in BOOLEAN : StartCreate(rt, ok)
    BY <1>9, Zenon DEF StartThread
  <2>2. isRunning' \in [Obj -> BOOLEAN]
    BY <2>1, Zenon DEF StartCreate
  <2>3. pos' \in [Obj -> {"none", "main", "ending", "locked", "exiting", "gone"}]
    BY <2>1 DEF StartCreate
  <2> QED
    BY <1>9, <2>2, <2>3 DEF StartThread
<1>10. CASE StartReturns
  BY <1>10 DEF StartReturns, DeleteRT, Delete
<1>11. ASSUME NEW d \in Conn, Reap(d) PROVE TypeOK'
  BY <1>11 DEF Reap, DeleteRT, Delete
<1>12. CASE Insert
  BY <1>12 DEF Insert
<1>13. ASSUME NEW d \in Conn, WaitThread(d) PROVE TypeOK'
  BY <1>13 DEF WaitThread, DeleteRT, Delete, WaitSkips
<1>14. CASE JoinThread
  BY <1>14 DEF JoinThread, DeleteRT, Delete, WaitJoins
<1>15. CASE Finalize
  BY <1>15 DEF Finalize, MainReturned
<1>16. ASSUME NEW d \in Conn, Decode(d) PROVE TypeOK'
  BY <1>16 DEF Decode, At
<1>17. ASSUME NEW d \in Conn, StreamEnds(d) PROVE TypeOK'
  BY <1>17 DEF StreamEnds, At
<1>18. ASSUME NEW d \in Conn, Unbind(d) PROVE TypeOK'
  BY <1>18 DEF Unbind, At
<1>19. ASSUME NEW d \in Conn, FlagFinished(d) PROVE TypeOK'
  BY <1>19 DEF FlagFinished, At
<1>20. ASSUME NEW d \in Conn, ReturnMain(d) PROVE TypeOK'
  BY <1>20 DEF ReturnMain, At, MainReturned
<1>21. CASE StopConnect
  BY <1>21 DEF StopConnect
<1>22. CASE StopWait
  BY <1>22 DEF StopWait, Delete, WaitSkips
<1>23. CASE StopJoin
  BY <1>23 DEF StopJoin, Delete, WaitJoins
<1>24. ASSUME NEW o \in Obj, EndStep(o) PROVE TypeOK'
  <2>1. isRunning' \in [Obj -> BOOLEAN]
    BY <1>24, Zenon DEF EndStep, ThreadEnd, ClearRunning, UnlockSelf, ThreadExit
  <2>2. pos' \in [Obj -> {"none", "main", "ending", "locked", "exiting", "gone"}] /\ object' = object
    BY <1>24 DEF EndStep, ThreadEnd, ClearRunning, UnlockSelf, ThreadExit
  <2> QED
    BY <1>24, <2>1, <2>2 DEF EndStep
<1>25. CASE UNCHANGED vars
  BY <1>25
<1> QED
  BY <1>1, <1>2, <1>3, <1>4, <1>5, <1>6, <1>7, <1>8, <1>9, <1>10, <1>11, <1>12, <1>13,
     <1>14, <1>15, <1>16, <1>17, <1>18, <1>19, <1>20, <1>21, <1>22, <1>23, <1>24, <1>25
     DEF Next, ServerStep, StopStep, RenderStep

\* What waits to be accepted is untouched, and waits there once.
LEMMA QueueStep ==
  ASSUME IndInv, [Next]_vars
  PROVE  QueueInv'
<1> USE ServerAssumption DEF IndInv, TypeOK, ThreadTypeOK, Conn, Stream
<1> USE DEF QueueInv, Connected, MainInv
<1> USE DEF vars, threadVars, serverVars, clientVars, renderVars
<1>1. ASSUME NEW d \in Conn, Connect(d) PROVE QueueInv'
  BY <1>1 DEF Connect
<1>2. ASSUME NEW d \in Conn, SendFlags(d) PROVE QueueInv'
  BY <1>2 DEF SendFlags
<1>3. ASSUME NEW d \in Conn, HangUp(d) PROVE QueueInv'
  BY <1>3 DEF HangUp
<1>4. CASE Accept
  BY <1>4 DEF Accept
<1>5. CASE AcceptError
  BY <1>5 DEF AcceptError, LeaveLoop
<1>6. CASE FlagsMissing
  BY <1>6 DEF FlagsMissing
<1>7. CASE FlagsExit
  BY <1>7 DEF FlagsExit, LeaveLoop
<1>8. CASE FlagsRender
  BY <1>8 DEF FlagsRender, New
<1>9. CASE StartThread
  BY <1>9 DEF StartThread, StartCreate
<1>10. CASE StartReturns
  BY <1>10 DEF StartReturns, DeleteRT, Delete
<1>11. ASSUME NEW d \in Conn, Reap(d) PROVE QueueInv'
  BY <1>11 DEF Reap, DeleteRT, Delete
<1>12. CASE Insert
  BY <1>12 DEF Insert
<1>13. ASSUME NEW d \in Conn, WaitThread(d) PROVE QueueInv'
  BY <1>13 DEF WaitThread, DeleteRT, Delete, WaitSkips
<1>14. CASE JoinThread
  BY <1>14 DEF JoinThread, DeleteRT, Delete, WaitJoins
<1>15. CASE Finalize
  BY <1>15 DEF Finalize, MainReturned
<1>16. ASSUME NEW d \in Conn, Decode(d) PROVE QueueInv'
  BY <1>16 DEF Decode, At
<1>17. ASSUME NEW d \in Conn, StreamEnds(d) PROVE QueueInv'
  BY <1>17 DEF StreamEnds, At
<1>18. ASSUME NEW d \in Conn, Unbind(d) PROVE QueueInv'
  BY <1>18 DEF Unbind, At
<1>19. ASSUME NEW d \in Conn, FlagFinished(d) PROVE QueueInv'
  BY <1>19 DEF FlagFinished, At
<1>20. ASSUME NEW d \in Conn, ReturnMain(d) PROVE QueueInv'
  BY <1>20 DEF ReturnMain, At, MainReturned
<1>21. CASE StopConnect
  BY <1>21 DEF StopConnect
<1>22. CASE StopWait
  BY <1>22 DEF StopWait, Delete, WaitSkips
<1>23. CASE StopJoin
  BY <1>23 DEF StopJoin, Delete, WaitJoins
<1>24. ASSUME NEW o \in Obj, EndStep(o) PROVE QueueInv'
  BY <1>24 DEF EndStep, ThreadEnd, ClearRunning, UnlockSelf, ThreadExit
<1>25. CASE UNCHANGED vars
  BY <1>25
<1> QED
  BY <1>1, <1>2, <1>3, <1>4, <1>5, <1>6, <1>7, <1>8, <1>9, <1>10, <1>11, <1>12, <1>13,
     <1>14, <1>15, <1>16, <1>17, <1>18, <1>19, <1>20, <1>21, <1>22, <1>23, <1>24, <1>25
     DEF Next, ServerStep, StopStep, RenderStep

\* The server's own bookkeeping: the current connection is fresh until its thread starts.
LEMMA MainStep ==
  ASSUME IndInv, [Next]_vars
  PROVE  MainInv'
<1> USE ServerAssumption DEF IndInv, TypeOK, ThreadTypeOK, Conn, Stream
<1> USE DEF MainInv, ThreadInv
<1> USE DEF vars, threadVars, serverVars, clientVars, renderVars
<1>1. ASSUME NEW d \in Conn, Connect(d) PROVE MainInv'
  BY <1>1 DEF Connect
<1>2. ASSUME NEW d \in Conn, SendFlags(d) PROVE MainInv'
  BY <1>2 DEF SendFlags
<1>3. ASSUME NEW d \in Conn, HangUp(d) PROVE MainInv'
  BY <1>3 DEF HangUp
<1>4. CASE Accept
  <2>1. 1 \in DOMAIN backlog /\ Head(backlog) = backlog[1]
    BY <1>4 DEF Accept
  <2>2. stream[Head(backlog)] = "none"
    BY <2>1 DEF QueueInv
  <2> QED
    BY <1>4, <2>1, <2>2 DEF Accept
<1>5. CASE AcceptError
  BY <1>5 DEF AcceptError, LeaveLoop
<1>6. CASE FlagsMissing
  BY <1>6 DEF FlagsMissing
<1>7. CASE FlagsExit
  BY <1>7 DEF FlagsExit, LeaveLoop
<1>8. CASE FlagsRender
  BY <1>8 DEF FlagsRender, New
<1>9. CASE StartThread
  BY <1>9 DEF StartThread, StartCreate
<1>10. CASE StartReturns
  BY <1>10 DEF StartReturns, DeleteRT, Delete
<1>11. ASSUME NEW d \in Conn, Reap(d) PROVE MainInv'
  BY <1>11 DEF Reap, DeleteRT, Delete
<1>12. CASE Insert
  BY <1>12 DEF Insert
<1>13. ASSUME NEW d \in Conn, WaitThread(d) PROVE MainInv'
  BY <1>13 DEF WaitThread, DeleteRT, Delete, WaitSkips
<1>14. CASE JoinThread
  BY <1>14 DEF JoinThread, DeleteRT, Delete, WaitJoins
<1>15. CASE Finalize
  BY <1>15 DEF Finalize, MainReturned
<1>16. ASSUME NEW d \in Conn, Decode(d) PROVE MainInv'
  BY <1>16 DEF Decode, At
<1>17. ASSUME NEW d \in Conn, StreamEnds(d) PROVE MainInv'
  BY <1>17 DEF StreamEnds, At
<1>18. ASSUME NEW d \in Conn, Unbind(d) PROVE MainInv'
  BY <1>18 DEF Unbind, At
<1>19. ASSUME NEW d \in Conn, FlagFinished(d) PROVE MainInv'
  BY <1>19 DEF FlagFinished, At
<1>20. ASSUME NEW d \in Conn, ReturnMain(d) PROVE MainInv'
  BY <1>20 DEF ReturnMain, At, MainReturned
<1>21. CASE StopConnect
  BY <1>21 DEF StopConnect
<1>22. CASE StopWait
  BY <1>22 DEF StopWait, Delete, WaitSkips
<1>23. CASE StopJoin
  BY <1>23 DEF StopJoin, Delete, WaitJoins
<1>24. ASSUME NEW o \in Obj, EndStep(o) PROVE MainInv'
  BY <1>24 DEF EndStep, ThreadEnd, ClearRunning, UnlockSelf, ThreadExit
<1>25. CASE UNCHANGED vars
  BY <1>25
<1> QED
  BY <1>1, <1>2, <1>3, <1>4, <1>5, <1>6, <1>7, <1>8, <1>9, <1>10, <1>11, <1>12, <1>13,
     <1>14, <1>15, <1>16, <1>17, <1>18, <1>19, <1>20, <1>21, <1>22, <1>23, <1>24, <1>25
     DEF Next, ServerStep, StopStep, RenderStep

\* The server's flag is up until Main has returned, and nobody deletes it before.
LEMMA StopInvStep ==
  ASSUME IndInv, [Next]_vars
  PROVE  StopInv'
<1> USE ServerAssumption DEF IndInv, TypeOK, ThreadTypeOK, Conn, Stream
<1> USE DEF StopInv
<1> USE DEF vars, threadVars, serverVars, clientVars, renderVars
<1>1. ASSUME NEW d \in Conn, Connect(d) PROVE StopInv'
  BY <1>1 DEF Connect
<1>2. ASSUME NEW d \in Conn, SendFlags(d) PROVE StopInv'
  BY <1>2 DEF SendFlags
<1>3. ASSUME NEW d \in Conn, HangUp(d) PROVE StopInv'
  BY <1>3 DEF HangUp
<1>4. CASE Accept
  BY <1>4 DEF Accept
<1>5. CASE AcceptError
  BY <1>5 DEF AcceptError, LeaveLoop
<1>6. CASE FlagsMissing
  BY <1>6 DEF FlagsMissing
<1>7. CASE FlagsExit
  BY <1>7 DEF FlagsExit, LeaveLoop
<1>8. CASE FlagsRender
  BY <1>8 DEF FlagsRender, New
<1>9. CASE StartThread
  BY <1>9 DEF StartThread, StartCreate
<1>10. CASE StartReturns
  BY <1>10 DEF StartReturns, DeleteRT, Delete
<1>11. ASSUME NEW d \in Conn, Reap(d) PROVE StopInv'
  BY <1>11 DEF Reap, DeleteRT, Delete
<1>12. CASE Insert
  BY <1>12 DEF Insert
<1>13. ASSUME NEW d \in Conn, WaitThread(d) PROVE StopInv'
  BY <1>13 DEF WaitThread, DeleteRT, Delete, WaitSkips
<1>14. CASE JoinThread
  BY <1>14 DEF JoinThread, DeleteRT, Delete, WaitJoins
<1>15. CASE Finalize
  BY <1>15 DEF Finalize, MainReturned
<1>16. ASSUME NEW d \in Conn, Decode(d) PROVE StopInv'
  BY <1>16 DEF Decode, At
<1>17. ASSUME NEW d \in Conn, StreamEnds(d) PROVE StopInv'
  BY <1>17 DEF StreamEnds, At
<1>18. ASSUME NEW d \in Conn, Unbind(d) PROVE StopInv'
  BY <1>18 DEF Unbind, At
<1>19. ASSUME NEW d \in Conn, FlagFinished(d) PROVE StopInv'
  BY <1>19 DEF FlagFinished, At
<1>20. ASSUME NEW d \in Conn, ReturnMain(d) PROVE StopInv'
  BY <1>20 DEF ReturnMain, At, MainReturned
<1>21. CASE StopConnect
  BY <1>21 DEF StopConnect
<1>22. CASE StopWait
  BY <1>22 DEF StopWait, Delete, WaitSkips
<1>23. CASE StopJoin
  BY <1>23 DEF StopJoin, Delete, WaitJoins
<1>24. ASSUME NEW o \in Obj, EndStep(o) PROVE StopInv'
  BY <1>24 DEF EndStep, ThreadEnd, ClearRunning, UnlockSelf, ThreadExit
<1>25. CASE UNCHANGED vars
  BY <1>25
<1> QED
  BY <1>1, <1>2, <1>3, <1>4, <1>5, <1>6, <1>7, <1>8, <1>9, <1>10, <1>11, <1>12, <1>13,
     <1>14, <1>15, <1>16, <1>17, <1>18, <1>19, <1>20, <1>21, <1>22, <1>23, <1>24, <1>25
     DEF Next, ServerStep, StopStep, RenderStep

\* A rendering thread stays in the set the server will wait for.
LEMMA ThreadStep ==
  ASSUME IndInv, [Next]_vars, NEW c \in Conn
  PROVE  ThreadInv(c)'
<1> USE ServerAssumption DEF IndInv, TypeOK, ThreadTypeOK, Conn, Stream
<1> USE DEF ThreadInv, Rendering, MainInv
<1> USE DEF vars, threadVars, serverVars, clientVars, renderVars
<1>1. ASSUME NEW d \in Conn, Connect(d) PROVE ThreadInv(c)'
  BY <1>1 DEF Connect
<1>2. ASSUME NEW d \in Conn, SendFlags(d) PROVE ThreadInv(c)'
  BY <1>2 DEF SendFlags
<1>3. ASSUME NEW d \in Conn, HangUp(d) PROVE ThreadInv(c)'
  BY <1>3 DEF HangUp
<1>4. CASE Accept
  BY <1>4 DEF Accept
<1>5. CASE AcceptError
  BY <1>5 DEF AcceptError, LeaveLoop
<1>6. CASE FlagsMissing
  BY <1>6 DEF FlagsMissing
<1>7. CASE FlagsExit
  BY <1>7 DEF FlagsExit, LeaveLoop
<1>8. CASE FlagsRender
  BY <1>8 DEF FlagsRender, New
<1>9. CASE StartThread
  BY <1>9 DEF StartThread, StartCreate
<1>10. CASE StartReturns
  BY <1>10 DEF StartReturns, DeleteRT, Delete
<1>11. ASSUME NEW d \in Conn, Reap(d) PROVE ThreadInv(c)'
  BY <1>11 DEF Reap, DeleteRT, Delete
<1>12. CASE Insert
  BY <1>12 DEF Insert
<1>13. ASSUME NEW d \in Conn, WaitThread(d) PROVE ThreadInv(c)'
  BY <1>13 DEF WaitThread, DeleteRT, Delete, WaitSkips
<1>14. CASE JoinThread
  BY <1>14 DEF JoinThread, DeleteRT, Delete, WaitJoins
<1>15. CASE Finalize
  BY <1>15 DEF Finalize, MainReturned
<1>16. ASSUME NEW d \in Conn, Decode(d) PROVE ThreadInv(c)'
  BY <1>16 DEF Decode, At
<1>17. ASSUME NEW d \in Conn, StreamEnds(d) PROVE ThreadInv(c)'
  BY <1>17 DEF StreamEnds, At
<1>18. ASSUME NEW d \in Conn, Unbind(d) PROVE ThreadInv(c)'
  BY <1>18 DEF Unbind, At
<1>19. ASSUME NEW d \in Conn, FlagFinished(d) PROVE ThreadInv(c)'
  BY <1>19 DEF FlagFinished, At
<1>20. ASSUME NEW d \in Conn, ReturnMain(d) PROVE ThreadInv(c)'
  BY <1>20 DEF ReturnMain, At, MainReturned
<1>21. CASE StopConnect
  BY <1>21 DEF StopConnect
<1>22. CASE StopWait
  BY <1>22 DEF StopWait, Delete, WaitSkips
<1>23. CASE StopJoin
  BY <1>23 DEF StopJoin, Delete, WaitJoins
<1>24. ASSUME NEW o \in Obj, EndStep(o) PROVE ThreadInv(c)'
  BY <1>24 DEF EndStep, ThreadEnd, ClearRunning, UnlockSelf, ThreadExit
<1>25. CASE UNCHANGED vars
  BY <1>25
<1> QED
  BY <1>1, <1>2, <1>3, <1>4, <1>5, <1>6, <1>7, <1>8, <1>9, <1>10, <1>11, <1>12, <1>13,
     <1>14, <1>15, <1>16, <1>17, <1>18, <1>19, <1>20, <1>21, <1>22, <1>23, <1>24, <1>25
     DEF Next, ServerStep, StopStep, RenderStep

\* Every step keeps the inductive invariant.
LEMMA InvStep ==
  ASSUME IndInv, [Next]_vars
  PROVE  IndInv'
<1>1. \A c \in Conn : ThreadInv(c)'
  BY ThreadStep
<1> QED
  BY <1>1, TypeStep, QueueStep, MainStep, StopInvStep DEF IndInv, Conn

----------------------------------------------------------------------------
(* The theorems, for any set of connections.                                *)

\* The server keeps its inductive invariant, whatever fails to start or to release its context.
THEOREM ServerInvariance ==
  Spec => []IndInv
<1>1. Init => IndInv
  BY InitInv
<1>2. IndInv /\ [Next]_vars => IndInv'
  BY InvStep
<1> QED
  BY <1>1, <1>2, PTL DEF Spec

\* No render thread loses its object, its stream or the frame buffer to the
\* server's reaping loop, to its shutdown or to a failed start.
THEOREM RenderingSafe ==
  Spec => []RenderingProtected
<1>1. IndInv => RenderingProtected
  BY DEF IndInv, RenderingProtected, ThreadInv, Rendering, MainInv
<1> QED
  BY <1>1, ServerInvariance, PTL

\* stopOpenGLRenderer deletes the server only after Main has finalized the frame
\* buffer, with no thread rendering, unless Main never ran: a join it skips was not
\* needed for that.
THEOREM StopSafe ==
  Spec => []StopAfterFinalize
<1>1. IndInv => StopAfterFinalize
  BY DEF IndInv, StopAfterFinalize, ThreadInv, StopInv
<1> QED
  BY <1>1, ServerInvariance, PTL

\* The server's variables, the threads' and the list of threads keep their types.
THEOREM ServerTypes == Spec => []TypeOK
<1>1. IndInv => TypeOK
  BY DEF IndInv
<1> QED
  BY <1>1, ServerInvariance, PTL
=============================================================================
