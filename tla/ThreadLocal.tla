----------------------------- MODULE ThreadLocal ------------------------------
(***************************************************************************)
(* What the renderer expects of RenderThreadInfo::get() (ThreadInfo.cpp): a *)
(* variable that each render thread has of its own.  The constructor of     *)
(* RenderThreadInfo sets it, its destructor resets it, and in between every *)
(* get() returns what the constructor stored.                               *)
(***************************************************************************)
CONSTANT Thread

VARIABLES
  job,                   \* [Thread -> Jobs]: the thread's current or last operation
  info,                  \* SUBSET Thread: those whose variable is set
  got                    \* [Thread -> {"none", "own", "NULL"}]: the last answer of get()

Jobs == {"none", "new", "live", "get", "delete", "gone"}

Init ==
  /\ job = [t \in Thread |-> "none"]
  /\ info = {}
  /\ got = [t \in Thread |-> "none"]

\* The life of a RenderThreadInfo: constructed, asked for, destroyed.
Starts(t, op) ==
  \/ job[t] = "none" /\ op = "new"
  \/ job[t] = "live" /\ op \in {"get", "delete"}

Ask(t, op) ==
  /\ Starts(t, op)
  /\ job' = [job EXCEPT ![t] = op]
  /\ UNCHANGED <<info, got>>

New(t) ==
  /\ job[t] = "new" /\ job' = [job EXCEPT ![t] = "live"]
  /\ info' = info \cup {t}
  /\ UNCHANGED got

Get(t) ==
  /\ job[t] = "get" /\ job' = [job EXCEPT ![t] = "live"]
  /\ got' = [got EXCEPT ![t] = IF t \in info THEN "own" ELSE "NULL"]
  /\ UNCHANGED info

Delete(t) ==
  /\ job[t] = "delete" /\ job' = [job EXCEPT ![t] = "gone"]
  /\ info' = info \ {t}
  /\ UNCHANGED got

Next ==
  \E t \in Thread :
    New(t) \/ Get(t) \/ Delete(t) \/ \E op \in Jobs : Ask(t, op)

Spec == Init /\ [][Next]_<<job, info, got>>
=============================================================================
