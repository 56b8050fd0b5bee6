------------------------------ MODULE OsThread -------------------------------
(***************************************************************************)
(* osUtils::Thread, host-opengl-render/osThreadUnix.cpp: a C++ object and   *)
(* the POSIX thread it starts.  The two have separate lives: whoever owns   *)
(* the object may delete it while the thread still has statements of        *)
(* thread_main left that use it.                                            *)
(*                                                                          *)
(* The critical section of start() is one step: the only other user of      *)
(* m_lock is the end of thread_main, which it merely delays.                *)
(***************************************************************************)
EXTENDS FiniteSets

CONSTANT Obj                 \* the Thread objects

VARIABLES
  object,                    \* [Obj -> {"none", "live", "freed"}]
  isRunning,                 \* [Obj -> BOOLEAN]: m_isRunning
  pos                        \* [Obj -> where the POSIX thread is in thread_main]

threadVars == <<object, isRunning, pos>>

ThreadTypeOK ==
  /\ object \in [Obj -> {"none", "live", "freed"}]
  /\ isRunning \in [Obj -> BOOLEAN]
  /\ pos \in [Obj -> {"none", "main", "ending", "locked", "exiting", "gone"}]

----------------------------------------------------------------------------
(* The owner's operations.                                                  *)

New(o) == object' = [object EXCEPT ![o] = "live"]

Delete(o) == object' = [object EXCEPT ![o] = "freed"]

\* start() up to its unlock: m_isRunning and the POSIX thread, if it was created.
StartCreate(o, ok) ==
  /\ isRunning' = [isRunning EXCEPT ![o] = ok]
  /\ pos' = [pos EXCEPT ![o] = IF ok THEN "main" ELSE "none"]

\* wait() decides on a join by m_isRunning, read without m_lock.
WaitSkips(o) == ~isRunning[o]

WaitJoins(o) == pos[o] = "gone"

----------------------------------------------------------------------------
(* thread_main after the return of Main().                                  *)

MainReturned(o) == pos' = [pos EXCEPT ![o] = "ending"]

\* Lock m_lock and clear m_isRunning.
ClearRunning(o) ==
  /\ pos[o] = "ending"
  /\ pos' = [pos EXCEPT ![o] = "locked"]
  /\ isRunning' = [isRunning EXCEPT ![o] = FALSE]
  /\ UNCHANGED object

\* Store m_exitStatus and unlock m_lock: the last use of the object.
UnlockSelf(o) ==
  /\ pos[o] = "locked"
  /\ pos' = [pos EXCEPT ![o] = "exiting"]
  /\ UNCHANGED <<object, isRunning>>

\* ThreadStore::OnThreadExit and the return that lets a join succeed.
ThreadExit(o) ==
  /\ pos[o] = "exiting"
  /\ pos' = [pos EXCEPT ![o] = "gone"]
  /\ UNCHANGED <<object, isRunning>>

ThreadEnd(o) == ClearRunning(o) \/ UnlockSelf(o) \/ ThreadExit(o)
=============================================================================
