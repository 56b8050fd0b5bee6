------------------------- MODULE LazyInstanceProofs --------------------------
(***************************************************************************)
(* Proof that the lazily constructed thread store implements a variable of  *)
(* each thread, for any number of threads, where memory is not reordered.   *)
(***************************************************************************)
EXTENDS LazyInstance, TLAPS

\* Initial states satisfy the invariant.
LEMMA InitInv == Init => IndInv
BY DEF Init, IndInv, TypeOK, StoreInv, ThreadInv, Places, Building, Abstract!Jobs

\* Every step keeps the types.
LEMMA TypeStep ==
  ASSUME TypeOK, [Next]_vars
  PROVE  TypeOK'
<1> USE DEF TypeOK, Places, Abstract!Jobs, Goto
<1>1. ASSUME NEW t \in Thread, NEW op \in Abstract!Jobs, Access(t, op) PROVE TypeOK'
  BY <1>1 DEF Access
<1>2. ASSUME NEW t \in Thread, TestDone(t) PROVE TypeOK'
  BY <1>2 DEF TestDone
<1>3. ASSUME NEW t \in Thread, CompareAndSwap(t) PROVE TypeOK'
  BY <1>3 DEF CompareAndSwap
<1>4. ASSUME NEW t \in Thread, Spin(t) PROVE TypeOK'
  BY <1>4 DEF Spin
<1>5. ASSUME NEW t \in Thread, Construct(t) PROVE TypeOK'
  BY <1>5 DEF Construct
<1>6. ASSUME NEW t \in Thread, DoneConstructing(t) PROVE TypeOK'
  BY <1>6 DEF DoneConstructing
<1>7. ASSUME NEW t \in Thread, Use(t) PROVE TypeOK'
  <2>1. PICK k \in Nat :
          /\ SetInfo(t, k) \/ GetInfo(t, k) \/ ResetInfo(t, k)
          /\ synced' = IF k = storage THEN synced \cup {t} ELSE synced
    BY <1>7 DEF Use, Loads
  <2> QED
    BY <1>7, <2>1 DEF Use, SetInfo, GetInfo, ResetInfo
<1>8. CASE UNCHANGED vars
  BY <1>8 DEF vars
<1> QED
  BY <1>1, <1>2, <1>3, <1>4, <1>5, <1>6, <1>7, <1>8 DEF Next, Step

\* In order, a thread that uses the store uses the key in it.
LEMMA UseLoads ==
  ASSUME WeakMemory = FALSE, NEW t \in Thread, Use(t)
  PROVE  SetInfo(t, storage) \/ GetInfo(t, storage) \/ ResetInfo(t, storage)
BY DEF Use, Loads

\* Every step keeps what the invariant says of the store.
LEMMA StoreStep ==
  ASSUME WeakMemory = FALSE, IndInv, [Next]_vars
  PROVE  StoreInv'
<1> USE DEF IndInv, TypeOK, StoreInv, ThreadInv, Building, Places, Abstract!Jobs, Goto
<1>1. ASSUME NEW t \in Thread, NEW op \in Abstract!Jobs, Access(t, op) PROVE StoreInv'
  BY <1>1 DEF Access, Abstract!Starts
<1>2. ASSUME NEW t \in Thread, TestDone(t) PROVE StoreInv'
  BY <1>2 DEF TestDone
<1>3. ASSUME NEW t \in Thread, CompareAndSwap(t) PROVE StoreInv'
  BY <1>3 DEF CompareAndSwap
<1>4. ASSUME NEW t \in Thread, Spin(t) PROVE StoreInv'
  BY <1>4 DEF Spin
<1>5. ASSUME NEW t \in Thread, Construct(t) PROVE StoreInv'
  BY <1>5 DEF Construct
<1>6. ASSUME NEW t \in Thread, DoneConstructing(t) PROVE StoreInv'
  BY <1>6 DEF DoneConstructing
<1>7. ASSUME NEW t \in Thread, Use(t) PROVE StoreInv'
  BY <1>7, UseLoads, ZenonT(60) DEF Use, SetInfo, GetInfo, ResetInfo
<1>8. CASE UNCHANGED vars
  BY <1>8 DEF vars
<1> QED
  BY <1>1, <1>2, <1>3, <1>4, <1>5, <1>6, <1>7, <1>8 DEF Next, Step

\* Every step keeps what it says of a thread.
LEMMA ThreadStep ==
  ASSUME WeakMemory = FALSE, IndInv, [Next]_vars,
         NEW u \in Thread
  PROVE  ThreadInv(u)'
<1> USE DEF IndInv, TypeOK, StoreInv, ThreadInv, Building, Places, Abstract!Jobs, Goto
<1>1. ASSUME NEW t \in Thread, NEW op \in Abstract!Jobs, Access(t, op) PROVE ThreadInv(u)'
  BY <1>1 DEF Access, Abstract!Starts
<1>2. ASSUME NEW t \in Thread, TestDone(t) PROVE ThreadInv(u)'
  BY <1>2 DEF TestDone
<1>3. ASSUME NEW t \in Thread, CompareAndSwap(t) PROVE ThreadInv(u)'
  BY <1>3 DEF CompareAndSwap
<1>4. ASSUME NEW t \in Thread, Spin(t) PROVE ThreadInv(u)'
  BY <1>4 DEF Spin
<1>5. ASSUME NEW t \in Thread, Construct(t) PROVE ThreadInv(u)'
  <2>1. storage = 0 /\ tls = {}
    BY <1>5 DEF Construct
  <2>2. /\ job[u] \notin {"live", "get", "delete"}
        /\ UNCHANGED <<mState, job, got, tls>>
    BY <1>5, <2>1 DEF Construct
  <2>3. pc'[u] = IF u = t THEN "publish" ELSE pc[u]
    BY <1>5 DEF Construct
  <2>4. u # t => pc[u] # "construct"
    BY <1>5 DEF Construct
  <2>5. storage' # 0
    BY <1>5 DEF Construct
  <2> QED
    BY <1>5, <2>1, <2>2, <2>3, <2>4, <2>5 DEF Construct
<1>6. ASSUME NEW t \in Thread, DoneConstructing(t) PROVE ThreadInv(u)'
  BY <1>6 DEF DoneConstructing
<1>7. ASSUME NEW t \in Thread, Use(t) PROVE ThreadInv(u)'
  <2>1. /\ UNCHANGED <<mState, storage>> /\ storage # 0
        /\ pc'[u] = IF u = t THEN "out" ELSE pc[u]
    BY <1>7 DEF Use
  <2>2. CASE SetInfo(t, storage)
    BY <2>1, <2>2 DEF SetInfo
  <2>3. CASE GetInfo(t, storage)
    BY <2>1, <2>3 DEF GetInfo
  <2>4. CASE ResetInfo(t, storage)
    BY <2>1, <2>4 DEF ResetInfo
  <2> QED
    BY <1>7, <2>2, <2>3, <2>4, UseLoads
<1>8. CASE UNCHANGED vars
  BY <1>8 DEF vars
<1> QED
  BY <1>1, <1>2, <1>3, <1>4, <1>5, <1>6, <1>7, <1>8 DEF Next, Step

\* Every step keeps the invariant.
LEMMA InvStep ==
  ASSUME WeakMemory = FALSE, IndInv, [Next]_vars
  PROVE  IndInv'
BY TypeStep, StoreStep, ThreadStep DEF IndInv

\* One thread constructs, and whoever uses the store finds the key in it.
THEOREM LazyInvariance ==
  ASSUME WeakMemory = FALSE
  PROVE  Spec => []IndInv
<1>1. Init => IndInv
  BY InitInv
<1>2. IndInv /\ [Next]_vars => IndInv'
  BY InvStep
<1> QED
  BY <1>1, <1>2, PTL DEF Spec

\* Every step of the lazy store is a step of the thread-local variable, or leaves
\* it alone: only the use of the key, at the end of an access, changes it.
LEMMA AbstractStep ==
  ASSUME WeakMemory = FALSE, IndInv, [Next]_vars
  PROVE  [Abstract!Next]_<<job, {t \in Thread : <<t, storage>> \in tls}, got>>
<1> DEFINE info == {t \in Thread : <<t, storage>> \in tls}
<1> USE DEF IndInv, TypeOK, StoreInv, ThreadInv, Building, Abstract!Jobs
<1>1. ASSUME NEW t \in Thread, NEW op \in Abstract!Jobs, Access(t, op) PROVE Abstract!Next
  <2>1. Abstract!Ask(t, op)
    BY <1>1 DEF Access, Abstract!Ask
  <2> QED
    BY <2>1 DEF Abstract!Next
<1>2. ASSUME NEW t \in Thread, TestDone(t) \/ CompareAndSwap(t) \/ Spin(t) \/ DoneConstructing(t)
      PROVE  UNCHANGED <<job, info, got>>
  BY <1>2 DEF TestDone, CompareAndSwap, Spin, DoneConstructing
<1>3. ASSUME NEW t \in Thread, Construct(t) PROVE UNCHANGED <<job, info, got>>
  BY <1>3 DEF Construct
<1>4. ASSUME NEW t \in Thread, Use(t) PROVE Abstract!Next
  <2>1. UNCHANGED storage /\ storage # 0
    BY <1>4 DEF Use
  <2>2. CASE SetInfo(t, storage)
    <3>1. info' = info \cup {t}
      BY <2>1, <2>2 DEF SetInfo
    <3>2. Abstract!New(t)
      BY <2>2, <3>1 DEF SetInfo, Abstract!New
    <3> QED
      BY <3>2 DEF Abstract!Next
  <2>3. CASE GetInfo(t, storage)
    <3>1. Abstract!Get(t)
      BY <2>1, <2>3 DEF GetInfo, Abstract!Get
    <3> QED
      BY <3>1 DEF Abstract!Next
  <2>4. CASE ResetInfo(t, storage)
    <3>1. info' = info \ {t}
      BY <2>1, <2>4 DEF ResetInfo
    <3>2. Abstract!Delete(t)
      BY <2>4, <3>1 DEF ResetInfo, Abstract!Delete
    <3> QED
      BY <3>2 DEF Abstract!Next
  <2> QED
    BY <1>4, <2>2, <2>3, <2>4, UseLoads
<1>5. CASE UNCHANGED vars
  BY <1>5 DEF vars
<1> QED
  BY <1>1, <1>2, <1>3, <1>4, <1>5 DEF Next, Step

\* The lazily created thread store implements a variable of each thread.
THEOREM StoreIsThreadLocal ==
  ASSUME WeakMemory = FALSE
  PROVE  Spec => ImplementsThreadLocal
<1>1. Init => Abstract!Init
  BY DEF Init, Abstract!Init
<1>2. IndInv /\ [Next]_vars => [Abstract!Next]_<<job, {t \in Thread : <<t, storage>> \in tls}, got>>
  BY AbstractStep
<1> QED
  BY <1>1, <1>2, LazyInvariance, PTL DEF Spec, ImplementsThreadLocal, Abstract!Spec

\* RenderThreadInfo::get() finds the info of a thread that has one.
THEOREM InfoIsFound ==
  ASSUME WeakMemory = FALSE
  PROVE  Spec => []InfoFound
<1>1. IndInv => InfoFound
  BY DEF IndInv, ThreadInv, InfoFound
<1> QED
  BY <1>1, LazyInvariance, PTL
=============================================================================
