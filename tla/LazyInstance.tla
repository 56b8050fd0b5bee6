---------------------------- MODULE LazyInstance -----------------------------
(***************************************************************************)
(* The thread store of the render threads: s_tls of ThreadInfo.cpp, a       *)
(* LazyInstance (lazy_instance.h, lazy_instance.cpp) of a ThreadStore        *)
(* (thread_store.h, thread_store.cpp), all of host-opengl-render.           *)
(*                                                                          *)
(* There is no lock: whoever comes first creates the pthread key in the     *)
(* static storage, the others wait for the state to become DONE.  A thread   *)
(* that saw DONE reads the key with plain loads, and both barriers of the    *)
(* code are compiler barriers only.  On a processor that reorders loads or   *)
(* stores, as ARM does, the key read may then still be the zero that the     *)
(* storage started with; WeakMemory admits that.                            *)
(***************************************************************************)
EXTENDS Naturals

CONSTANTS
  Thread,                \* render threads
  WeakMemory             \* TRUE: the processor reorders plain loads or stores

ASSUME MemoryAssumption == WeakMemory \in BOOLEAN

VARIABLES
  mState,                \* LazyInstanceState::mState
  created,               \* number of pthread keys created so far
  storage,               \* the key in mStorage; 0 before the construction
  synced,                \* threads that wrote the key, or have read it
  pc,                    \* [Thread -> place in LazyInstance::ptr]
  job, got,              \* as in ThreadLocal
  tls                    \* pairs of a thread and a key under which it has stored a value

vars == <<mState, created, storage, synced, pc, job, got, tls>>

\* What all this is for: see ImplementsThreadLocal.
Abstract == INSTANCE ThreadLocal WITH info <- {t \in Thread : <<t, storage>> \in tls}

Places == {"out", "test", "swap", "construct", "publish", "spin", "use"}

TypeOK ==
  /\ mState \in {"INIT", "CONSTRUCTING", "DONE"}
  /\ created \in Nat /\ storage \in Nat
  /\ synced \in SUBSET Thread
  /\ pc \in [Thread -> Places]
  /\ job \in [Thread -> Abstract!Jobs]
  /\ got \in [Thread -> {"none", "own", "NULL"}]
  /\ tls \in SUBSET (Thread \X Nat)

Init ==
  /\ mState = "INIT" /\ created = 0 /\ storage = 0 /\ synced = {}
  /\ pc = [t \in Thread |-> "out"]
  /\ job = [t \in Thread |-> "none"]
  /\ got = [t \in Thread |-> "none"]
  /\ tls = {}

Goto(t, place) == pc' = [pc EXCEPT ![t] = place]

----------------------------------------------------------------------------
\* The thread constructs, asks for or destroys its RenderThreadInfo: s_tls->...
Access(t, op) ==
  /\ pc[t] = "out" /\ Abstract!Starts(t, op)
  /\ job' = [job EXCEPT ![t] = op]
  /\ Goto(t, "test")
  /\ UNCHANGED <<mState, created, storage, synced, got, tls>>

\* needConstruction: the test for STATE_DONE, on the second of two loads.
TestDone(t) ==
  /\ pc[t] = "test"
  /\ Goto(t, IF mState = "DONE" THEN "use" ELSE "swap")
  /\ UNCHANGED <<mState, created, storage, synced, job, got, tls>>

\* Mutant: a load and a store in place of the atomic operation.
SwapUnchecked(t) ==
  /\ pc[t] = "swap"
  /\ mState' = "CONSTRUCTING"
  /\ Goto(t, "construct")
  /\ UNCHANGED <<created, storage, synced, job, got, tls>>

\* atomicCompareAndSwap(&mState, STATE_INIT, STATE_CONSTRUCTING).
CompareAndSwap(t) ==
  /\ pc[t] = "swap"
  /\ mState' = IF mState = "INIT" THEN "CONSTRUCTING" ELSE mState
  /\ Goto(t, IF mState = "INIT" THEN "construct" ELSE "spin")
  /\ UNCHANGED <<created, storage, synced, job, got, tls>>

\* Mutant: the loop waits for the state to be reset.
SpinMissed(t) ==
  /\ pc[t] = "spin" /\ mState = "INIT"
  /\ Goto(t, "use")
  /\ UNCHANGED <<mState, created, storage, synced, job, got, tls>>

\* The loop that yields until the state is DONE.
Spin(t) ==
  /\ pc[t] = "spin" /\ mState = "DONE"
  /\ Goto(t, "use")
  /\ UNCHANGED <<mState, created, storage, synced, job, got, tls>>

\* new (mStorage) T(): the constructor of ThreadStore creates a key.
Construct(t) ==
  /\ pc[t] = "construct"
  /\ created' = created + 1 /\ storage' = created + 1
  /\ synced' = {t}
  /\ Goto(t, "publish")
  /\ UNCHANGED <<mState, job, got, tls>>

\* storeRelease(&mState, STATE_DONE).
DoneConstructing(t) ==
  /\ pc[t] = "publish"
  /\ mState' = "DONE"
  /\ Goto(t, "use")
  /\ UNCHANGED <<created, storage, synced, job, got, tls>>

\* The values a load of the key may have.
Loads(t) == IF WeakMemory /\ t \notin synced THEN {0, storage} ELSE {storage}

\* ThreadStore::set(this), get() and set(NULL), with the key k; pthread_setspecific
\* with a key that was not created (0) fails, and nobody looks.
SetInfo(t, k) ==
  /\ job[t] = "new" /\ job' = [job EXCEPT ![t] = "live"]
  /\ tls' = IF k = 0 THEN tls ELSE tls \cup {<<t, k>>}
  /\ UNCHANGED got

GetInfo(t, k) ==
  /\ job[t] = "get" /\ job' = [job EXCEPT ![t] = "live"]
  /\ got' = [got EXCEPT ![t] = IF <<t, k>> \in tls THEN "own" ELSE "NULL"]
  /\ UNCHANGED tls

\* Mutant: the destructor leaves its pointer in the store.
ResetInfoKept(t, k) ==
  /\ job[t] = "delete" /\ job' = [job EXCEPT ![t] = "gone"]
  /\ UNCHANGED <<got, tls>>

ResetInfo(t, k) ==
  /\ job[t] = "delete" /\ job' = [job EXCEPT ![t] = "gone"]
  /\ tls' = tls \ {<<t, k>>}
  /\ UNCHANGED got

Use(t) ==
  /\ pc[t] = "use"
  /\ \E k \in Loads(t) :
       /\ SetInfo(t, k) \/ GetInfo(t, k) \/ ResetInfo(t, k)
       /\ synced' = IF k = storage THEN synced \cup {t} ELSE synced
  /\ Goto(t, "out")
  /\ UNCHANGED <<mState, created, storage>>

Step(t) ==
  \/ TestDone(t) \/ CompareAndSwap(t) \/ Spin(t)
  \/ Construct(t) \/ DoneConstructing(t) \/ Use(t)

Next == \E t \in Thread : Step(t) \/ \E op \in Abstract!Jobs : Access(t, op)

Spec == Init /\ [][Next]_vars

\* A thread inside an access is scheduled again and again; sched_yield lets the
\* one that constructs run.
FairSpec == Spec /\ \A t \in Thread : WF_vars(Step(t))

----------------------------------------------------------------------------
\* The lazily created store behaves as a variable of each thread: whoever wins the
\* race for the construction, set() and get() of a thread use the same key.
ImplementsThreadLocal == Abstract!Spec

\* lazy_instance.h:28, "thread-safe lazy initialization of static C++ objects": a
\* thread that has its RenderThreadInfo gets it from RenderThreadInfo::get(), whose
\* answer bindContext dereferences unseen.
InfoFound == \A t \in Thread : got[t] # "NULL"

\* Every access returns: the spinning threads are released by the one that
\* constructs, whoever it is.
AccessReturns == \A t \in Thread : pc[t] # "out" ~> pc[t] = "out"

\* The invariant behind the first two.  One thread at most constructs, while nobody
\* uses the storage; whoever uses it finds the only key there is.
Building(t) == pc[t] \in {"construct", "publish"}

StoreInv ==
  /\ created = storage
  /\ mState = "INIT" => storage = 0
  /\ mState = "DONE" => storage # 0
  /\ storage = 0 => tls = {}
  /\ \A t, u \in Thread : Building(t) /\ Building(u) => t = u

ThreadInv(t) ==
  /\ Building(t) => mState = "CONSTRUCTING"
  /\ pc[t] = "construct" => storage = 0
  /\ pc[t] = "publish" => storage # 0
  /\ pc[t] = "use" => mState = "DONE"
  /\ pc[t] = "out" => job[t] \in {"none", "live", "gone"}
  /\ job[t] \in {"live", "get", "delete"} => <<t, storage>> \in tls
  /\ got[t] # "NULL"

\* IndInv is kept by every step of the access, of any thread.
IndInv == TypeOK /\ StoreInv /\ \A t \in Thread : ThreadInv(t)
=============================================================================
