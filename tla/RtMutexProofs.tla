--------------------------- MODULE RtMutexProofs ---------------------------
(* Theorems about RtMutex, for any threads, priorities and mutexes. *)
EXTENDS RtMutex, FiniteSetTheorems, SequenceTheorems, TLAPS

-----------------------------------------------------------------------------
(* Lists *)

\* A sequence of threads with one more in front of position i.
LEMMA InsertFacts ==
  ASSUME NEW list \in Seq(Threads), NEW i \in 1 .. Len(list) + 1, NEW t \in Threads
  PROVE  /\ InsertAt(list, i, t) \in Seq(Threads)
         /\ Len(InsertAt(list, i, t)) = Len(list) + 1
         /\ \A j \in 1 .. Len(list) + 1 :
              InsertAt(list, i, t)[j] =
                IF j < i THEN list[j] ELSE IF j = i THEN t ELSE list[j - 1]
<1> DEFINE n == Len(list) + 1
<1>1. n \in Nat /\ \A j \in 1 .. Len(list) : list[j] \in Threads
  BY LenProperties, ElementOfSeq
<1>2. InsertAt(list, i, t) \in [1 .. n -> Threads]
  BY <1>1 DEF InsertAt
<1>3. InsertAt(list, i, t) \in Seq(Threads)
  BY <1>1, <1>2, SeqDef
<1>4. Len(InsertAt(list, i, t)) = n
  BY <1>1, <1>2, <1>3, LenProperties
<1> QED
  BY <1>3, <1>4 DEF InsertAt

\* A sequence of threads without position i.
LEMMA RemoveFacts ==
  ASSUME NEW list \in Seq(Threads), NEW i \in 1 .. Len(list)
  PROVE  /\ RemoveAt(list, i) \in Seq(Threads)
         /\ Len(RemoveAt(list, i)) = Len(list) - 1
         /\ \A j \in 1 .. Len(list) - 1 :
              RemoveAt(list, i)[j] = IF j < i THEN list[j] ELSE list[j + 1]
<1> DEFINE n == Len(list) - 1
<1>1. n \in Nat /\ \A j \in 1 .. Len(list) : list[j] \in Threads
  BY LenProperties, ElementOfSeq
<1>2. RemoveAt(list, i) \in [1 .. n -> Threads]
  BY <1>1 DEF RemoveAt
<1>3. RemoveAt(list, i) \in Seq(Threads)
  BY <1>1, <1>2, SeqDef
<1>4. Len(RemoveAt(list, i)) = n
  BY <1>1, <1>2, <1>3, LenProperties
<1> QED
  BY <1>3, <1>4 DEF RemoveAt

\* Inserting a thread that is not there, and removing one, keep a list without
\* repetitions and change its members by that thread.
LEMMA InsertDistinct ==
  ASSUME NEW list \in Seq(Threads), NEW i \in 1 .. Len(list) + 1, NEW t \in Threads,
         Distinct(list), ~ Listed(list, t)
  PROVE  /\ Distinct(InsertAt(list, i, t))
         /\ \A u \in Threads : Listed(InsertAt(list, i, t), u) <=> u = t \/ Listed(list, u)
<1> DEFINE new == InsertAt(list, i, t)
<1>1. /\ Len(list) \in Nat /\ Len(new) = Len(list) + 1
      /\ \A j \in 1 .. Len(list) + 1 :
           new[j] = IF j < i THEN list[j] ELSE IF j = i THEN t ELSE list[j - 1]
  BY InsertFacts, LenProperties
<1>2. \A j \in 1 .. Len(list) : list[j] # t
  BY DEF Listed
<1> HIDE DEF new
<1>3. Distinct(new)
  <2> SUFFICES ASSUME NEW j \in 1 .. Len(new), NEW k \in 1 .. Len(new), new[j] = new[k], j < k
               PROVE  FALSE
    BY <1>1 DEF Distinct
  <2>1. \A p, q \in 1 .. Len(list) : list[p] = list[q] => p = q
    BY DEF Distinct
  <2>2. CASE k < i
    BY <1>1, <2>1, <2>2
  <2>3. CASE k = i
    BY <1>1, <1>2, <2>3
  <2>4. CASE k > i /\ j = i
    BY <1>1, <1>2, <2>4
  <2>5. CASE k > i /\ j > i
    <3>1. new[j] = list[j - 1] /\ new[k] = list[k - 1]
      BY <1>1, <2>5
    <3>2. j - 1 \in 1 .. Len(list) /\ k - 1 \in 1 .. Len(list) /\ j - 1 # k - 1
      BY <1>1, <2>5
    <3> QED
      BY <2>1, <3>1, <3>2
  <2>6. CASE k > i /\ j < i
    BY <1>1, <2>1, <2>6
  <2> QED
    BY <1>1, <2>2, <2>3, <2>4, <2>5, <2>6
<1>4. ASSUME NEW u \in Threads, Listed(new, u) PROVE u = t \/ Listed(list, u)
  BY <1>1, <1>4 DEF Listed
<1>5. new[i] = t /\ i \in 1 .. Len(new)
  BY <1>1
<1>6. ASSUME NEW u \in Threads, Listed(list, u) PROVE Listed(new, u)
  <2>1. PICK j \in 1 .. Len(list) : list[j] = u
    BY <1>6 DEF Listed
  <2>2. CASE j < i
    BY <1>1, <2>1, <2>2 DEF Listed
  <2>3. CASE j >= i
    <3>1. j + 1 \in 1 .. Len(new) /\ new[j + 1] = u
      BY <1>1, <2>1, <2>3
    <3> QED
      BY <3>1 DEF Listed
  <2> QED
    BY <2>2, <2>3
<1>7. Listed(new, t)
  BY <1>5 DEF Listed
<1> QED
  BY <1>3, <1>4, <1>6, <1>7 DEF new

LEMMA RemoveDistinct ==
  ASSUME NEW list \in Seq(Threads), NEW i \in 1 .. Len(list), Distinct(list)
  PROVE  /\ Distinct(RemoveAt(list, i))
         /\ \A u \in Threads : Listed(RemoveAt(list, i), u) <=> u # list[i] /\ Listed(list, u)
<1> DEFINE new == RemoveAt(list, i)
<1>1. /\ Len(list) \in Nat /\ Len(new) = Len(list) - 1
      /\ \A j \in 1 .. Len(list) - 1 : new[j] = IF j < i THEN list[j] ELSE list[j + 1]
  BY RemoveFacts, LenProperties
<1>2. \A j, k \in 1 .. Len(list) : list[j] = list[k] => j = k
  BY DEF Distinct
<1> HIDE DEF new
<1>3. Distinct(new)
  BY <1>1, <1>2 DEF Distinct
<1>4. ASSUME NEW u \in Threads, Listed(new, u) PROVE u # list[i] /\ Listed(list, u)
  BY <1>1, <1>2, <1>4 DEF Listed
<1>5. ASSUME NEW u \in Threads, u # list[i], Listed(list, u) PROVE Listed(new, u)
  <2>1. PICK j \in 1 .. Len(list) : list[j] = u
    BY <1>5 DEF Listed
  <2>2. CASE j < i
    BY <1>1, <2>1, <2>2 DEF Listed
  <2>3. CASE j > i
    <3>1. j - 1 \in 1 .. Len(new) /\ new[j - 1] = u
      BY <1>1, <2>1, <2>3
    <3> QED
      BY <3>1 DEF Listed
  <2>4. j # i
    BY <1>5, <2>1
  <2> QED
    BY <2>2, <2>3, <2>4
<1> QED
  BY <1>3, <1>4, <1>5 DEF new

-----------------------------------------------------------------------------
(* Owners and waiters, whatever the flag and however many mutexes are held *)

\* A mutex is free, with value 1 and hold 0, or owned.
MutexState ==
  \A m \in Mutexes : /\ value[m] = IF owner[m] = NULL THEN 1 ELSE 0
                     /\ hold[m] = 0 <=> owner[m] = NULL

\* The running thread is ready; a suspended one is in a call, and a waiter has
\* no error yet.
ThreadState ==
  /\ rt_current_thread # NULL => stat[rt_current_thread] = "READY"
  /\ \A t \in Threads :
       /\ stat[t] = "SUSPEND" => pc[t] # "run"
       /\ pc[t] = "take" => want[t] \in Mutexes
       /\ pc[t] = "take" /\ stat[t] = "SUSPEND" => error[t] = "EOK"

WaitInv == /\ TypeOK /\ MutexState /\ ThreadState
           /\ WaitersSound /\ TimerOfSuspended /\ TakeReturnsOwner

USE NullAssumption

\* rt_schedule leaves a ready thread running, or the idle thread.
LEMMA ScheduleFacts ==
  ASSUME rt_schedule
  PROVE  /\ rt_current_thread' \in Threads \cup {NULL}
         /\ rt_current_thread' # NULL => stat'[rt_current_thread'] = "READY"
BY DEF rt_schedule, MostUrgent

LEMMA WaitInit == Init => WaitInv
BY PriorityAssumption, EmptySeq
   DEF Init, WaitInv, TypeOK, MutexState, ThreadState, WaitersSound,
       TimerOfSuspended, TakeReturnsOwner, MostUrgent, Waiting, Listed, Distinct

LEMMA TypeStep == WaitInv /\ [Next]_vars => TypeOK'
<1> SUFFICES ASSUME WaitInv, [Next]_vars PROVE TypeOK'
  OBVIOUS
<1> USE DEF WaitInv, TypeOK
<1>1. ASSUME NEW t \in Threads, NEW m \in Mutexes, rt_current_thread = t,
             rt_mutex_take(t, m)
      PROVE  TypeOK'
  <2>1. CASE TakeAgain(t, m)
    BY <2>1 DEF TakeAgain
  <2>2. CASE TakeFree(t, m)
    BY <2>2 DEF TakeFree, NewOwner
  <2>3. CASE TakeNoWait(t, m)
    BY <2>3 DEF TakeNoWait, mutex
  <2>4. ASSUME NEW timed \in BOOLEAN, TakeWait(t, m, timed)
        PROVE  TypeOK'
    <3>1. PICK i \in 1 .. Len(suspend_thread[m]) + 1 :
            suspend_thread' = [suspend_thread EXCEPT ![m] = InsertAt(@, i, t)]
      BY <2>4 DEF TakeWait, rt_ipc_list_suspend
    <3>2. suspend_thread' \in [Mutexes -> Seq(Threads)]
      BY <3>1, InsertFacts
    <3>3. owner[m] \in Threads
      BY <2>4 DEF TakeWait, MutexState
    <3>4. current_priority' \in [Threads -> Nat]
      <4>1. CASE current_priority[t] < current_priority[owner[m]]
        BY <2>4, <3>3, <4>1 DEF TakeWait, Inherit, rt_thread_control
      <4>2. CASE ~(current_priority[t] < current_priority[owner[m]])
        BY <2>4, <4>2 DEF TakeWait, Inherit
      <4> QED
        BY <4>1, <4>2
    <3>5. timer' \in [Threads -> BOOLEAN]
      BY <2>4 DEF TakeWait, rt_ipc_list_suspend, rt_thread_suspend
    <3>6. rt_current_thread' \in Threads \cup {NULL}
      BY <2>4, ScheduleFacts DEF TakeWait
    <3> QED
      BY <2>4, <3>2, <3>4, <3>5, <3>6
         DEF TakeWait, rt_ipc_list_suspend, rt_thread_suspend
  <2> QED
    BY <1>1, <2>1, <2>2, <2>3, <2>4 DEF rt_mutex_take
<1>2. ASSUME NEW t \in Threads, NEW m \in Mutexes, rt_current_thread = t,
             rt_mutex_release(t, m)
      PROVE  TypeOK'
  <2>1. CASE ReleaseNotOwner(t, m)
    BY <2>1 DEF ReleaseNotOwner, mutex
  <2>2. CASE ReleaseOnce(t, m)
    BY <2>2 DEF ReleaseOnce, thread
  <2>3. CASE ReleaseFree(t, m)
    <3>1. value[m] = 0 /\ value' = [value EXCEPT ![m] = value[m] + 1]
      BY <2>3 DEF ReleaseFree, MutexState
    <3>2. current_priority' \in [Threads -> Nat]
      BY <2>3 DEF ReleaseFree, Restore, rt_thread_control
    <3> QED
      BY <2>3, <3>1, <3>2 DEF ReleaseFree
  <2>4. CASE ReleaseHandOver(t, m)
    <3>1. suspend_thread[m][1] \in Threads /\ 1 \in 1 .. Len(suspend_thread[m])
      BY <2>4 DEF ReleaseHandOver
    <3>2. suspend_thread' \in [Mutexes -> Seq(Threads)]
      BY <2>4, <3>1, RemoveFacts DEF ReleaseHandOver
    <3> QED
      BY <2>4, <3>1, <3>2, ScheduleFacts
         DEF ReleaseHandOver, Restore, rt_thread_control, NewOwner,
             rt_thread_resume
  <2> QED
    BY <1>2, <2>1, <2>2, <2>3, <2>4 DEF rt_mutex_release
<1>3. ASSUME NEW t \in Threads, rt_current_thread = t,
             rt_thread_sleep(t) \/ Return(t) \/ rt_thread_yield(t)
      PROVE  TypeOK'
  <2>1. CASE rt_thread_sleep(t)
    <3>1. timer' \in [Threads -> BOOLEAN]
      BY <2>1 DEF rt_thread_sleep, rt_thread_suspend
    <3> QED
      BY <2>1, <3>1, ScheduleFacts DEF rt_thread_sleep, rt_thread_suspend, mutex
  <2>2. CASE Return(t)
    BY <2>2 DEF Return, mutex
  <2>3. CASE rt_thread_yield(t)
    BY <2>3, ScheduleFacts DEF rt_thread_yield, mutex, thread
  <2> QED
    BY <1>3, <2>1, <2>2, <2>3
<1>4. ASSUME NEW t \in Threads, rt_thread_timeout(t)
      PROVE  TypeOK'
  <2>1. suspend_thread' \in [Mutexes -> Seq(Threads)]
    <3>1. CASE pc[t] # "take"
      BY <1>4, <3>1 DEF rt_thread_timeout
    <3>2. CASE pc[t] = "take"
      <4>1. want[t] \in Mutexes
        BY <3>2 DEF ThreadState
      <4>2. PICK i \in 1 .. Len(suspend_thread[want[t]]) :
              suspend_thread' = [suspend_thread EXCEPT ![want[t]] = RemoveAt(@, i)]
        BY <1>4, <3>2 DEF rt_thread_timeout
      <4> QED
        BY <4>1, <4>2, RemoveFacts
    <3> QED
      BY <3>1, <3>2
  <2> QED
    BY <1>4, <2>1, ScheduleFacts DEF rt_thread_timeout
<1>5. CASE UNCHANGED vars
  BY <1>5 DEF vars
<1> QED
  BY <1>1, <1>2, <1>3, <1>4, <1>5 DEF Next, Run

\* Only the thread that releases a mutex and those that join its list change
\* owner, value and hold.
LEMMA StateStep == WaitInv /\ [Next]_vars => MutexState' /\ ThreadState'
<1> SUFFICES ASSUME WaitInv, [Next]_vars PROVE MutexState' /\ ThreadState'
  OBVIOUS
<1>0. TypeOK'
  BY TypeStep
<1> USE DEF WaitInv, TypeOK, MutexState, ThreadState
<1>1. ASSUME NEW t \in Threads, NEW m \in Mutexes, rt_current_thread = t,
             rt_mutex_take(t, m)
      PROVE  MutexState' /\ ThreadState'
  <2>0. pc[t] = "run"
    BY <1>1 DEF rt_mutex_take
  <2>1. CASE TakeAgain(t, m)
    BY <2>1, <2>0, <1>1 DEF TakeAgain
  <2>2. CASE TakeFree(t, m)
    <3>1. value[m] = 1 /\ owner[m] = NULL /\ hold[m] = 0
      BY <2>2 DEF TakeFree
    <3>2. MutexState'
      BY <2>2, <3>1 DEF TakeFree, NewOwner
    <3>3. ThreadState'
      BY <2>2, <2>0, <1>1 DEF TakeFree
    <3> QED
      BY <3>2, <3>3
  <2>3. CASE TakeNoWait(t, m)
    BY <2>3, <2>0, <1>1 DEF TakeNoWait, mutex
  <2>4. ASSUME NEW timed \in BOOLEAN, TakeWait(t, m, timed)
        PROVE  MutexState' /\ ThreadState'
    <3>1. MutexState'
      BY <2>4 DEF TakeWait
    <3>2. rt_current_thread' # NULL => stat'[rt_current_thread'] = "READY"
      BY <2>4, ScheduleFacts DEF TakeWait
    <3>3. /\ stat' = [stat EXCEPT ![t] = "SUSPEND"]
          /\ pc' = [pc EXCEPT ![t] = "take"]
          /\ want' = [want EXCEPT ![t] = m]
          /\ error' = [error EXCEPT ![t] = "EOK"]
      BY <2>4 DEF TakeWait, rt_ipc_list_suspend, rt_thread_suspend
    <3> QED
      BY <3>1, <3>2, <3>3
  <2> QED
    BY <1>1, <2>1, <2>2, <2>3, <2>4 DEF rt_mutex_take
<1>2. ASSUME NEW t \in Threads, NEW m \in Mutexes, rt_current_thread = t,
             rt_mutex_release(t, m)
      PROVE  MutexState' /\ ThreadState'
  <2>0. pc[t] = "run"
    BY <1>2 DEF rt_mutex_release
  <2>1. CASE ReleaseNotOwner(t, m)
    BY <2>1, <2>0, <1>2 DEF ReleaseNotOwner, mutex
  <2>2. CASE ReleaseOnce(t, m)
    BY <2>2, <1>2 DEF ReleaseOnce, thread
  <2>3. CASE ReleaseFree(t, m)
    <3>1. value[m] = 0
      BY <2>3 DEF ReleaseFree
    <3>2. MutexState'
      BY <2>3, <3>1 DEF ReleaseFree
    <3>3. ThreadState'
      BY <2>3, <1>2 DEF ReleaseFree
    <3> QED
      BY <3>2, <3>3
  <2>4. CASE ReleaseHandOver(t, m)
    <3> DEFINE next == suspend_thread[m][1]
    <3>1. next \in Threads
      BY <2>4 DEF ReleaseHandOver
    <3>2. /\ owner' = [owner EXCEPT ![m] = next]
          /\ stat' = [stat EXCEPT ![next] = "READY"]
          /\ UNCHANGED <<error, pc, want, value, hold>>
      BY <2>4 DEF ReleaseHandOver, NewOwner, rt_thread_resume
    <3>3. owner[m] = t
      BY <2>4 DEF ReleaseHandOver
    <3>4. MutexState'
      BY <3>1, <3>2, <3>3
    <3>5. rt_current_thread' # NULL => stat'[rt_current_thread'] = "READY"
      BY <2>4, ScheduleFacts DEF ReleaseHandOver
    <3> QED
      BY <3>1, <3>2, <3>4, <3>5
  <2> QED
    BY <1>2, <2>1, <2>2, <2>3, <2>4 DEF rt_mutex_release
<1>3. ASSUME NEW t \in Threads, rt_current_thread = t,
             rt_thread_sleep(t) \/ Return(t) \/ rt_thread_yield(t)
      PROVE  MutexState' /\ ThreadState'
  <2>1. CASE rt_thread_sleep(t)
    BY <2>1, ScheduleFacts DEF rt_thread_sleep, rt_thread_suspend, mutex
  <2>2. CASE Return(t)
    BY <2>2, <1>3 DEF Return, mutex
  <2>3. CASE rt_thread_yield(t)
    BY <2>3, ScheduleFacts DEF rt_thread_yield, mutex, thread
  <2> QED
    BY <1>3, <2>1, <2>2, <2>3
<1>4. ASSUME NEW t \in Threads, rt_thread_timeout(t)
      PROVE  MutexState' /\ ThreadState'
  BY <1>4, ScheduleFacts DEF rt_thread_timeout
<1>5. CASE UNCHANGED vars
  BY <1>5 DEF vars
<1> QED
  BY <1>1, <1>2, <1>3, <1>4, <1>5 DEF Next, Run

\* The facts about the list of a mutex that the steps below use.
LEMMA NotListed ==
  ASSUME WaitInv, NEW m \in Mutexes
  PROVE  /\ suspend_thread[m] \in Seq(Threads)
         /\ suspend_thread[m] # << >> => /\ suspend_thread[m][1] \in Threads
                                         /\ Listed(suspend_thread[m], suspend_thread[m][1])
         /\ owner[m] = NULL => suspend_thread[m] = << >>
<1>1. suspend_thread[m] \in Seq(Threads)
  BY DEF WaitInv, TypeOK
<1>2. ASSUME suspend_thread[m] # << >>
      PROVE  /\ suspend_thread[m][1] \in Threads
             /\ Listed(suspend_thread[m], suspend_thread[m][1])
  BY <1>1, <1>2 DEF Listed
<1>3. ASSUME suspend_thread[m] # << >> PROVE owner[m] # NULL
  BY <1>2, <1>3 DEF WaitInv, WaitersSound
<1> QED
  BY <1>1, <1>2, <1>3

\* Whatever leaves the threads of the lists alone.
LEMMA SameWaiters ==
  ASSUME WaitInv, suspend_thread' = suspend_thread,
         \A t \in Threads, m \in Mutexes : Waiting(t, m)' <=> Waiting(t, m),
         \A m \in Mutexes : owner'[m] # owner[m] => suspend_thread[m] = << >>
  PROVE  WaitersSound'
<1> SUFFICES ASSUME NEW m \in Mutexes
             PROVE  /\ Distinct(suspend_thread'[m])
                    /\ \A t \in Threads : Listed(suspend_thread'[m], t) <=> Waiting(t, m)'
                    /\ \A t \in Threads : Waiting(t, m)' => owner'[m] \notin {NULL, t}
  BY DEF WaitersSound
<1>1. Distinct(suspend_thread'[m])
  BY DEF WaitInv, WaitersSound
<1>2. \A t \in Threads : Listed(suspend_thread'[m], t) <=> Waiting(t, m)'
  BY DEF WaitInv, WaitersSound
<1>3. CASE suspend_thread[m] = << >>
  <2>1. \A t \in Threads : ~ Listed(suspend_thread[m], t)
    BY <1>3, EmptySeq DEF Listed
  <2> QED
    BY <1>1, <1>2, <2>1
<1>4. CASE owner'[m] = owner[m]
  BY <1>1, <1>2, <1>4 DEF WaitInv, WaitersSound
<1> QED
  BY <1>3, <1>4

LEMMA WaitersStep == WaitInv /\ [Next]_vars => WaitersSound'
<1> SUFFICES ASSUME WaitInv, [Next]_vars PROVE WaitersSound'
  OBVIOUS
<1>0. /\ stat \in [Threads -> {"READY", "SUSPEND"}]
      /\ pc \in [Threads -> {"run", "take", "sleep"}]
      /\ want \in [Threads -> Mutexes \cup {NULL}]
      /\ owner \in [Mutexes -> Threads \cup {NULL}]
      /\ suspend_thread \in [Mutexes -> Seq(Threads)]
      /\ value \in [Mutexes -> {0, 1}]
  BY DEF WaitInv, TypeOK
<1>m. MutexState /\ ThreadState /\ WaitersSound
  BY DEF WaitInv
<1>a. ASSUME UNCHANGED <<stat, pc, want, owner, suspend_thread>>
      PROVE  WaitersSound'
  BY <1>a, SameWaiters DEF Waiting
<1>1. ASSUME NEW t \in Threads, NEW m \in Mutexes, rt_current_thread = t,
             rt_mutex_take(t, m)
      PROVE  WaitersSound'
  <2>0. pc[t] = "run" /\ stat[t] = "READY"
    BY <1>1, <1>m DEF rt_mutex_take, ThreadState
  <2>1. CASE TakeAgain(t, m)
    BY <2>1, <1>a DEF TakeAgain
  <2>2. CASE TakeFree(t, m)
    <3>1. suspend_thread[m] = << >>
      BY <2>2, <1>m, NotListed DEF TakeFree, MutexState
    <3>2. owner' = [owner EXCEPT ![m] = t] /\ UNCHANGED <<stat, pc, want, suspend_thread>>
      BY <2>2 DEF TakeFree, NewOwner
    <3>3. \A n \in Mutexes : owner'[n] # owner[n] => suspend_thread[n] = << >>
      BY <3>1, <3>2, <1>0
    <3> QED
      BY <3>2, <3>3, SameWaiters DEF Waiting
  <2>3. CASE TakeNoWait(t, m)
    BY <2>3, <1>a DEF TakeNoWait, mutex
  <2>4. ASSUME NEW timed \in BOOLEAN, TakeWait(t, m, timed)
        PROVE  WaitersSound'
    <3>1. PICK i \in 1 .. Len(suspend_thread[m]) + 1 :
            suspend_thread' = [suspend_thread EXCEPT ![m] = InsertAt(suspend_thread[m], i, t)]
      BY <2>4 DEF TakeWait, rt_ipc_list_suspend
    <3>2. /\ stat' = [stat EXCEPT ![t] = "SUSPEND"]
          /\ pc' = [pc EXCEPT ![t] = "take"]
          /\ want' = [want EXCEPT ![t] = m]
          /\ owner' = owner
      BY <2>4 DEF TakeWait, rt_ipc_list_suspend, rt_thread_suspend
    <3>3. owner[m] \notin {NULL, t}
      BY <2>4, <1>m DEF TakeWait, MutexState
    <3>4. /\ ~ Listed(suspend_thread[m], t)
          /\ Distinct(suspend_thread[m])
          /\ suspend_thread[m] \in Seq(Threads)
      BY <2>0, <1>0, <1>m DEF WaitersSound, Waiting
    <3>5. /\ Distinct(InsertAt(suspend_thread[m], i, t))
          /\ \A u \in Threads : Listed(InsertAt(suspend_thread[m], i, t), u)
                                  <=> u = t \/ Listed(suspend_thread[m], u)
      BY <3>4, InsertDistinct
    <3>6. \A u \in Threads, n \in Mutexes :
            Waiting(u, n)' <=> (u = t /\ n = m) \/ Waiting(u, n)
      BY <2>0, <3>2, <1>0 DEF Waiting
    <3>7. \A n \in Mutexes : ~ Waiting(t, n)
      BY <2>0 DEF Waiting
    <3> SUFFICES ASSUME NEW n \in Mutexes
                 PROVE  /\ Distinct(suspend_thread'[n])
                        /\ \A u \in Threads : Listed(suspend_thread'[n], u) <=> Waiting(u, n)'
                        /\ \A u \in Threads : Waiting(u, n)' => owner'[n] \notin {NULL, u}
      BY DEF WaitersSound
    <3>8. CASE n = m
      <4>1. suspend_thread'[m] = InsertAt(suspend_thread[m], i, t)
        BY <3>1, <1>0
      <4> QED
        BY <3>2, <3>3, <3>5, <3>6, <3>8, <4>1, <1>m DEF WaitersSound
    <3>9. CASE n # m
      <4>1. suspend_thread'[n] = suspend_thread[n]
        BY <3>1, <3>9, <1>0
      <4> QED
        BY <3>2, <3>6, <3>9, <4>1, <1>m DEF WaitersSound
    <3> QED
      BY <3>8, <3>9
  <2> QED
    BY <1>1, <2>1, <2>2, <2>3, <2>4 DEF rt_mutex_take
<1>r. ASSUME NEW t \in Threads, NEW m \in Mutexes,
             NEW i \in 1 .. Len(suspend_thread[m]), suspend_thread[m][i] = t,
             suspend_thread' = [suspend_thread EXCEPT ![m] = RemoveAt(suspend_thread[m], i)],
             stat' = [stat EXCEPT ![t] = "READY"],
             UNCHANGED <<pc, want>>,
             owner' = owner \/ owner' = [owner EXCEPT ![m] = t]
      PROVE  WaitersSound'
  <2>1. Distinct(suspend_thread[m]) /\ suspend_thread[m] \in Seq(Threads)
    BY <1>0, <1>m DEF WaitersSound
  <2>2. /\ Distinct(RemoveAt(suspend_thread[m], i))
        /\ \A u \in Threads : Listed(RemoveAt(suspend_thread[m], i), u)
                                <=> u # t /\ Listed(suspend_thread[m], u)
    BY <1>r, <2>1, RemoveDistinct
  <2>3. Waiting(t, m)
    <3>1. Listed(suspend_thread[m], t)
      BY <1>r DEF Listed
    <3> QED
      BY <3>1, <1>m DEF WaitersSound
  <2>4. \A u \in Threads, n \in Mutexes : Waiting(u, n)' <=> u # t /\ Waiting(u, n)
    BY <1>r, <1>0 DEF Waiting
  <2>5. \A n \in Mutexes : n # m => ~ Waiting(t, n)
    BY <2>3 DEF Waiting
  <2> SUFFICES ASSUME NEW n \in Mutexes
               PROVE  /\ Distinct(suspend_thread'[n])
                      /\ \A u \in Threads : Listed(suspend_thread'[n], u) <=> Waiting(u, n)'
                      /\ \A u \in Threads : Waiting(u, n)' => owner'[n] \notin {NULL, u}
    BY DEF WaitersSound
  <2>6. CASE n = m
    <3>1. suspend_thread'[m] = RemoveAt(suspend_thread[m], i)
      BY <1>r, <1>0
    <3>2. owner'[m] = owner[m] \/ owner'[m] = t
      BY <1>r, <1>0
    <3> QED
      BY <2>2, <2>4, <2>6, <3>1, <3>2, <1>m DEF WaitersSound
  <2>7. CASE n # m
    <3>1. suspend_thread'[n] = suspend_thread[n] /\ owner'[n] = owner[n]
      BY <1>r, <2>7, <1>0
    <3>2. \A u \in Threads : Waiting(u, n)' <=> Waiting(u, n)
      BY <2>4, <2>5, <2>7
    <3> QED
      BY <3>1, <3>2, <1>m DEF WaitersSound
  <2> QED
    BY <2>6, <2>7
<1>2. ASSUME NEW t \in Threads, NEW m \in Mutexes, rt_current_thread = t,
             rt_mutex_release(t, m)
      PROVE  WaitersSound'
  <2>1. CASE ReleaseNotOwner(t, m)
    BY <2>1, <1>a DEF ReleaseNotOwner, mutex
  <2>2. CASE ReleaseOnce(t, m)
    BY <2>2, <1>a DEF ReleaseOnce, thread
  <2>3. CASE ReleaseFree(t, m)
    <3>1. suspend_thread[m] = << >>
      BY <2>3 DEF ReleaseFree
    <3>2. owner' = [owner EXCEPT ![m] = NULL] /\ UNCHANGED <<stat, pc, want, suspend_thread>>
      BY <2>3 DEF ReleaseFree
    <3>3. \A n \in Mutexes : owner'[n] # owner[n] => suspend_thread[n] = << >>
      BY <3>1, <3>2, <1>0
    <3> QED
      BY <3>2, <3>3, SameWaiters DEF Waiting
  <2>4. CASE ReleaseHandOver(t, m)
    <3>1. suspend_thread[m][1] \in Threads /\ 1 \in 1 .. Len(suspend_thread[m])
      BY <2>4, <1>0 DEF ReleaseHandOver
    <3> QED
      BY <2>4, <3>1, <1>r DEF ReleaseHandOver, NewOwner, rt_thread_resume
  <2> QED
    BY <1>2, <2>1, <2>2, <2>3, <2>4 DEF rt_mutex_release
<1>3. ASSUME NEW t \in Threads, rt_current_thread = t,
             rt_thread_sleep(t) \/ Return(t) \/ rt_thread_yield(t)
      PROVE  WaitersSound'
  <2>0. stat[t] = "READY"
    BY <1>3, <1>m DEF ThreadState
  <2>1. CASE rt_thread_sleep(t)
    <3>1. \A u \in Threads, n \in Mutexes : Waiting(u, n)' <=> Waiting(u, n)
      BY <2>0, <2>1, <1>0 DEF rt_thread_sleep, rt_thread_suspend, Waiting
    <3> QED
      BY <2>1, <3>1, SameWaiters DEF rt_thread_sleep, mutex
  <2>2. CASE Return(t)
    <3>1. \A u \in Threads, n \in Mutexes : Waiting(u, n)' <=> Waiting(u, n)
      BY <2>0, <2>2, <1>0 DEF Return, Waiting
    <3> QED
      BY <2>2, <3>1, SameWaiters DEF Return, mutex
  <2>3. CASE rt_thread_yield(t)
    BY <2>3, <1>a DEF rt_thread_yield, mutex, thread
  <2> QED
    BY <1>3, <2>1, <2>2, <2>3
<1>4. ASSUME NEW t \in Threads, rt_thread_timeout(t)
      PROVE  WaitersSound'
  <2>1. CASE pc[t] # "take"
    <3>1. \A u \in Threads, n \in Mutexes : Waiting(u, n)' <=> Waiting(u, n)
      BY <1>4, <2>1, <1>0 DEF rt_thread_timeout, Waiting
    <3> QED
      BY <1>4, <2>1, <3>1, SameWaiters DEF rt_thread_timeout
  <2>2. CASE pc[t] = "take"
    <3>1. want[t] \in Mutexes
      BY <2>2, <1>m DEF ThreadState
    <3> QED
      BY <1>4, <2>2, <3>1, <1>r DEF rt_thread_timeout
  <2> QED
    BY <2>1, <2>2
<1>5. CASE UNCHANGED vars
  BY <1>5, <1>a DEF vars
<1> QED
  BY <1>1, <1>2, <1>3, <1>4, <1>5 DEF Next, Run

\* A hand-over stops the timer and a timeout leaves the list, so only one of
\* them ends a wait.
LEMMA ReturnStep == WaitInv /\ [Next]_vars => TimerOfSuspended' /\ TakeReturnsOwner'
<1> SUFFICES ASSUME WaitInv, [Next]_vars
             PROVE  TimerOfSuspended' /\ TakeReturnsOwner'
  OBVIOUS
<1>0. /\ stat \in [Threads -> {"READY", "SUSPEND"}]
      /\ error \in [Threads -> {"EOK", "ETIMEOUT", "ERROR"}]
      /\ timer \in [Threads -> BOOLEAN]
      /\ pc \in [Threads -> {"run", "take", "sleep"}]
      /\ want \in [Threads -> Mutexes \cup {NULL}]
      /\ owner \in [Mutexes -> Threads \cup {NULL}]
      /\ value \in [Mutexes -> {0, 1}]
  BY DEF WaitInv, TypeOK
<1>m. MutexState /\ ThreadState /\ WaitersSound /\ TimerOfSuspended /\ TakeReturnsOwner
  BY DEF WaitInv
<1>a. ASSUME NEW t \in Threads, pc[t] = "run" \/ error' = error,
             UNCHANGED <<stat, timer, pc, want>>,
             \A u \in Threads : u # t => error'[u] = error[u],
             \A n \in Mutexes : owner'[n] # owner[n] =>
               \A u \in Threads : pc[u] = "take" /\ stat[u] = "READY" /\ want[u] = n =>
                 owner[n] # u /\ owner'[n] # u
      PROVE  TimerOfSuspended' /\ TakeReturnsOwner'
  <2>1. TimerOfSuspended'
    BY <1>a, <1>m DEF TimerOfSuspended
  <2>2. ASSUME NEW u \in Threads, stat[u] = "READY", pc[u] = "take"
        PROVE  error'[u] = "EOK" <=> owner'[want[u]] = u
    <3>1. error'[u] = error[u] /\ want[u] \in Mutexes
      BY <1>a, <1>m, <2>2 DEF ThreadState
    <3>2. error[u] = "EOK" <=> owner[want[u]] = u
      BY <1>m, <2>2 DEF TakeReturnsOwner
    <3> QED
      BY <1>a, <2>2, <3>1, <3>2
  <2> QED
    BY <1>a, <2>1, <2>2 DEF TakeReturnsOwner
<1>1. ASSUME NEW t \in Threads, NEW m \in Mutexes, rt_current_thread = t,
             rt_mutex_take(t, m)
      PROVE  TimerOfSuspended' /\ TakeReturnsOwner'
  <2>0. pc[t] = "run" /\ stat[t] = "READY"
    BY <1>1, <1>m DEF rt_mutex_take, ThreadState
  <2>1. CASE TakeAgain(t, m)
    BY <2>0, <2>1, <1>0, <1>a DEF TakeAgain
  <2>2. CASE TakeFree(t, m)
    <3>1. owner[m] = NULL /\ owner' = [owner EXCEPT ![m] = t]
      BY <2>2, <1>m DEF TakeFree, MutexState, NewOwner
    <3>2. /\ error' = [error EXCEPT ![t] = "EOK"]
          /\ UNCHANGED <<stat, timer, pc, want>>
      BY <2>2 DEF TakeFree
    <3> QED
      BY <2>0, <3>1, <3>2, <1>0, <1>a
  <2>3. CASE TakeNoWait(t, m)
    BY <2>0, <2>3, <1>0, <1>a DEF TakeNoWait, mutex
  <2>4. ASSUME NEW timed \in BOOLEAN, TakeWait(t, m, timed)
        PROVE  TimerOfSuspended' /\ TakeReturnsOwner'
    <3>1. /\ stat' = [stat EXCEPT ![t] = "SUSPEND"]
          /\ timer' = [timer EXCEPT ![t] = timed]
          /\ pc' = [pc EXCEPT ![t] = "take"]
          /\ want' = [want EXCEPT ![t] = m]
          /\ error' = [error EXCEPT ![t] = "EOK"]
          /\ owner' = owner
      BY <2>4 DEF TakeWait, rt_ipc_list_suspend, rt_thread_suspend
    <3>2. TimerOfSuspended'
      BY <3>1, <1>0, <1>m DEF TimerOfSuspended
    <3>3. TakeReturnsOwner'
      BY <3>1, <1>0, <1>m DEF TakeReturnsOwner
    <3> QED
      BY <3>2, <3>3
  <2> QED
    BY <1>1, <2>1, <2>2, <2>3, <2>4 DEF rt_mutex_take
<1>2. ASSUME NEW t \in Threads, NEW m \in Mutexes, rt_current_thread = t,
             rt_mutex_release(t, m)
      PROVE  TimerOfSuspended' /\ TakeReturnsOwner'
  <2>0. pc[t] = "run" /\ stat[t] = "READY"
    BY <1>2, <1>m DEF rt_mutex_release, ThreadState
  <2>1. CASE ReleaseNotOwner(t, m)
    BY <2>0, <2>1, <1>0, <1>a DEF ReleaseNotOwner, mutex
  <2>2. CASE ReleaseOnce(t, m)
    BY <2>0, <2>2, <1>0, <1>a DEF ReleaseOnce, thread
  <2>3. CASE ReleaseFree(t, m)
    <3>1. owner[m] = t /\ owner' = [owner EXCEPT ![m] = NULL]
      BY <2>3 DEF ReleaseFree
    <3>2. UNCHANGED <<stat, timer, pc, want, error>>
      BY <2>3 DEF ReleaseFree
    <3> QED
      BY <2>0, <3>1, <3>2, <1>0, <1>a
  <2>4. CASE ReleaseHandOver(t, m)
    <3>0. suspend_thread[m] # << >>
      BY <2>4 DEF ReleaseHandOver
    <3>1. PICK u \in Threads : u = suspend_thread[m][1] /\ Listed(suspend_thread[m], u)
      BY <3>0, NotListed
    <3>2. Waiting(u, m)
      BY <3>1, <1>m DEF WaitersSound
    <3>3. /\ owner[m] = t /\ owner' = [owner EXCEPT ![m] = u]
          /\ stat' = [stat EXCEPT ![u] = "READY"]
          /\ timer' = [timer EXCEPT ![u] = FALSE]
          /\ UNCHANGED <<error, pc, want>>
      BY <2>4, <3>1 DEF ReleaseHandOver, NewOwner, rt_thread_resume
    <3>4. pc[u] = "take" /\ want[u] = m /\ error[u] = "EOK"
      BY <3>2, <1>m DEF Waiting, ThreadState
    <3>5. TimerOfSuspended'
      BY <3>3, <1>0, <1>m DEF TimerOfSuspended
    <3>6. ASSUME NEW v \in Threads, stat'[v] = "READY", pc[v] = "take"
          PROVE  error[v] = "EOK" <=> owner'[want[v]] = v
      <4>1. CASE v = u
        BY <3>3, <3>4, <4>1, <1>0
      <4>2. CASE v # u
        <5>1. stat[v] = "READY" /\ v # t /\ want[v] \in Mutexes
          BY <2>0, <3>3, <3>6, <4>2, <1>0, <1>m DEF ThreadState
        <5>2. error[v] = "EOK" <=> owner[want[v]] = v
          BY <3>6, <5>1, <1>m DEF TakeReturnsOwner
        <5>3. CASE want[v] = m
          BY <3>3, <4>2, <5>1, <5>2, <5>3, <1>0
        <5>4. CASE want[v] # m
          BY <3>3, <5>1, <5>2, <5>4, <1>0
        <5> QED
          BY <5>3, <5>4
      <4> QED
        BY <4>1, <4>2
    <3> QED
      BY <3>3, <3>5, <3>6 DEF TakeReturnsOwner
  <2> QED
    BY <1>2, <2>1, <2>2, <2>3, <2>4 DEF rt_mutex_release
<1>3. ASSUME NEW t \in Threads, rt_current_thread = t,
             rt_thread_sleep(t) \/ Return(t) \/ rt_thread_yield(t)
      PROVE  TimerOfSuspended' /\ TakeReturnsOwner'
  <2>0. stat[t] = "READY"
    BY <1>3, <1>m DEF ThreadState
  <2>1. CASE rt_thread_sleep(t)
    <3>1. /\ stat' = [stat EXCEPT ![t] = "SUSPEND"]
          /\ timer' = [timer EXCEPT ![t] = TRUE]
          /\ pc' = [pc EXCEPT ![t] = "sleep"]
          /\ want' = [want EXCEPT ![t] = NULL]
          /\ UNCHANGED <<error, owner>>
      BY <2>1 DEF rt_thread_sleep, rt_thread_suspend, mutex
    <3>2. TimerOfSuspended'
      BY <3>1, <1>0, <1>m DEF TimerOfSuspended
    <3>3. TakeReturnsOwner'
      BY <3>1, <1>0, <1>m DEF TakeReturnsOwner
    <3> QED
      BY <3>2, <3>3
  <2>2. CASE Return(t)
    <3>1. /\ pc' = [pc EXCEPT ![t] = "run"]
          /\ want' = [want EXCEPT ![t] = NULL]
          /\ UNCHANGED <<stat, timer, owner>>
          /\ \A u \in Threads : u # t => error'[u] = error[u]
      BY <2>2, <1>0 DEF Return, mutex
    <3>2. TimerOfSuspended'
      BY <3>1, <1>0, <1>m DEF TimerOfSuspended
    <3>3. TakeReturnsOwner'
      BY <3>1, <1>0, <1>m DEF TakeReturnsOwner
    <3> QED
      BY <3>2, <3>3
  <2>3. CASE rt_thread_yield(t)
    BY <2>3, <1>0, <1>a DEF rt_thread_yield, mutex, thread
  <2> QED
    BY <1>3, <2>1, <2>2, <2>3
<1>4. ASSUME NEW t \in Threads, rt_thread_timeout(t)
      PROVE  TimerOfSuspended' /\ TakeReturnsOwner'
  <2>1. /\ stat' = [stat EXCEPT ![t] = "READY"]
        /\ timer' = [timer EXCEPT ![t] = FALSE]
        /\ error' = [error EXCEPT ![t] = "ETIMEOUT"]
        /\ UNCHANGED <<pc, want, owner>>
        /\ stat[t] = "SUSPEND"
    BY <1>4, <1>m DEF rt_thread_timeout, TimerOfSuspended
  <2>2. TimerOfSuspended'
    BY <2>1, <1>0, <1>m DEF TimerOfSuspended
  <2>3. ASSUME pc[t] = "take" PROVE owner[want[t]] # t
    <3>1. want[t] \in Mutexes /\ Waiting(t, want[t])
      BY <2>1, <2>3, <1>m DEF ThreadState, Waiting
    <3> QED
      BY <3>1, <1>m DEF WaitersSound
  <2>4. TakeReturnsOwner'
    BY <2>1, <2>3, <1>0, <1>m DEF TakeReturnsOwner
  <2> QED
    BY <2>2, <2>4
<1>5. CASE UNCHANGED vars
  BY <1>5, <1>m DEF vars, TimerOfSuspended, TakeReturnsOwner
<1> QED
  BY <1>1, <1>2, <1>3, <1>4, <1>5 DEF Next, Run

LEMMA WaitInvariant == Spec => []WaitInv
<1>1. WaitInv /\ [Next]_vars => WaitInv'
  BY TypeStep, StateStep, WaitersStep, ReturnStep DEF WaitInv
<1> QED
  BY <1>1, WaitInit, PTL DEF Spec

\* Every variable keeps its type; in particular mutex->value is never above 1.
THEOREM MutexTypeCorrect == Spec => []TypeOK
<1>1. WaitInv => TypeOK
  BY DEF WaitInv
<1> QED
  BY <1>1, WaitInvariant, PTL

\* The lists of rt_ipc_list_suspend hold exactly the threads that wait.
THEOREM WaitersCorrect == Spec => []WaitersSound
<1>1. WaitInv => WaitersSound
  BY DEF WaitInv
<1> QED
  BY <1>1, WaitInvariant, PTL

\* The assertion of rt_thread_timeout never fails.
THEOREM TimerCorrect == Spec => []TimerOfSuspended
<1>1. WaitInv => TimerOfSuspended
  BY DEF WaitInv
<1> QED
  BY <1>1, WaitInvariant, PTL

\* What rt_mutex_take reports after a wait is true.
THEOREM TakeCorrect == Spec => []TakeReturnsOwner
<1>1. WaitInv => TakeReturnsOwner
  BY DEF WaitInv
<1> QED
  BY <1>1, WaitInvariant, PTL

-----------------------------------------------------------------------------
(* Priorities, when a thread holds one mutex at a time *)

\* One mutex per thread, none for a thread that waits; and the priority a mutex
\* remembers is its owner's own.
HeldOnce ==
  /\ \A m, n \in Mutexes : owner[m] # NULL /\ owner[m] = owner[n] => m = n
  /\ \A t \in Threads, m, n \in Mutexes : Waiting(t, m) => owner[n] # t
  /\ \A m \in Mutexes : owner[m] # NULL =>
       original_priority[m] = init_priority[owner[m]]

PriorityInv == WaitInv /\ HeldOnce /\ PriorityRestored

\* The check of how many mutexes a thread holds before it takes one.
LEMMA HoldsNone ==
  ASSUME MaxHeld = 1, NEW t \in Threads, Cardinality(Held(t)) < MaxHeld
  PROVE  Held(t) = {} /\ \A m \in Mutexes : owner[m] # t
<1>1. IsFiniteSet(Held(t))
  BY MutexAssumption, FS_Subset DEF Held
<1>2. Cardinality(Held(t)) = 0
  BY <1>1, FS_CardinalityType
<1>3. Held(t) = {}
  BY <1>1, <1>2, FS_EmptySet
<1> QED
  BY <1>3 DEF Held

\* A step that changes neither owners nor priorities.
LEMMA SameHolders ==
  ASSUME PriorityInv, UNCHANGED <<owner, original_priority, current_priority>>,
         \A t \in Threads, m \in Mutexes : Waiting(t, m)' => Waiting(t, m)
  PROVE  HeldOnce' /\ PriorityRestored'
<1>1. HeldOnce'
  BY DEF PriorityInv, HeldOnce
<1>2. PriorityRestored'
  BY DEF PriorityInv, PriorityRestored, Held
<1> QED
  BY <1>1, <1>2

LEMMA PriorityInit == Init => PriorityInv
<1>1. Init => HeldOnce /\ PriorityRestored
  BY PriorityAssumption DEF Init, HeldOnce, PriorityRestored, Waiting
<1> QED
  BY <1>1, WaitInit DEF PriorityInv

LEMMA PriorityStep ==
  ASSUME MaxHeld = 1, PriorityInv, [Next]_vars
  PROVE  HeldOnce' /\ PriorityRestored'
<1>0. /\ stat \in [Threads -> {"READY", "SUSPEND"}]
      /\ pc \in [Threads -> {"run", "take", "sleep"}]
      /\ want \in [Threads -> Mutexes \cup {NULL}]
      /\ owner \in [Mutexes -> Threads \cup {NULL}]
      /\ value \in [Mutexes -> {0, 1}]
      /\ current_priority \in [Threads -> Nat]
      /\ original_priority \in [Mutexes -> Nat]
      /\ init_priority \in [Threads -> Nat]
  BY PriorityAssumption DEF PriorityInv, WaitInv, TypeOK
<1>m. WaitInv /\ MutexState /\ ThreadState /\ WaitersSound /\ HeldOnce /\ PriorityRestored
  BY DEF PriorityInv, WaitInv
<1>h. \A t \in Threads : /\ current_priority[t] <= init_priority[t]
                         /\ (\A m \in Mutexes : owner[m] # t) =>
                              current_priority[t] = init_priority[t]
  BY <1>m DEF PriorityRestored, Held
<1>s. ASSUME \A t \in Threads : /\ current_priority'[t] <= init_priority[t]
                                /\ (\A m \in Mutexes : owner'[m] # t) =>
                                     current_priority'[t] = init_priority[t]
      PROVE  PriorityRestored'
  BY <1>s DEF PriorityRestored, Held
<1>1. ASSUME NEW t \in Threads, NEW m \in Mutexes, rt_current_thread = t,
             rt_mutex_take(t, m)
      PROVE  HeldOnce' /\ PriorityRestored'
  <2>0. pc[t] = "run" /\ stat[t] = "READY"
    BY <1>1, <1>m DEF rt_mutex_take, ThreadState
  <2>1. CASE TakeAgain(t, m)
    BY <2>1, SameHolders DEF TakeAgain, Waiting
  <2>2. CASE TakeFree(t, m)
    <3>1. \A n \in Mutexes : owner[n] # t
      BY <2>2, HoldsNone DEF TakeFree
    <3>2. /\ owner' = [owner EXCEPT ![m] = t]
          /\ original_priority' = [original_priority EXCEPT ![m] = current_priority[t]]
          /\ UNCHANGED <<stat, pc, want, current_priority>>
      BY <2>2 DEF TakeFree, NewOwner
    <3>3. current_priority[t] = init_priority[t]
      BY <3>1, <1>h
    <3>4. PriorityRestored'
      <4>1. owner[m] = NULL
        BY <2>2, <1>m DEF TakeFree, MutexState
      <4> QED
        BY <3>1, <3>2, <3>3, <4>1, <1>0, <1>h, <1>s
    <3>5. \A u \in Threads, n \in Mutexes : Waiting(u, n)' => u # t /\ Waiting(u, n)
      BY <2>0, <3>2 DEF Waiting
    <3>6. HeldOnce'
      BY <3>1, <3>2, <3>3, <3>5, <1>0, <1>m DEF HeldOnce
    <3> QED
      BY <3>4, <3>6
  <2>3. CASE TakeNoWait(t, m)
    BY <2>3, SameHolders DEF TakeNoWait, mutex, Waiting
  <2>4. ASSUME NEW timed \in BOOLEAN, TakeWait(t, m, timed)
        PROVE  HeldOnce' /\ PriorityRestored'
    <3>1. \A n \in Mutexes : owner[n] # t
      BY <2>4, HoldsNone DEF TakeWait
    <3>2. PICK o \in Threads : o = owner[m]
      BY <2>4, <1>0, <1>m DEF TakeWait, MutexState
    <3>3. /\ UNCHANGED <<owner, original_priority>>
          /\ stat' = [stat EXCEPT ![t] = "SUSPEND"]
          /\ pc' = [pc EXCEPT ![t] = "take"]
          /\ want' = [want EXCEPT ![t] = m]
      BY <2>4 DEF TakeWait, rt_ipc_list_suspend, rt_thread_suspend
    <3>4. \/ current_priority' = current_priority
          \/ /\ current_priority[t] < current_priority[o]
             /\ current_priority' = [current_priority EXCEPT ![o] = current_priority[t]]
      BY <2>4, <3>2 DEF TakeWait, Inherit, rt_thread_control
    <3>5. PriorityRestored'
      <4>1. CASE current_priority' = current_priority
        BY <3>3, <4>1, <1>h, <1>s
      <4>2. CASE current_priority' # current_priority
        <5>1. /\ current_priority[t] < current_priority[o]
              /\ current_priority' = [current_priority EXCEPT ![o] = current_priority[t]]
          BY <3>4, <4>2
        <5>2. current_priority'[o] <= init_priority[o]
          BY <5>1, <1>0, <1>h
        <5> QED
          BY <3>2, <3>3, <5>1, <5>2, <1>0, <1>h, <1>s
      <4> QED
        BY <4>1, <4>2
    <3>6. \A u \in Threads, n \in Mutexes : Waiting(u, n)' => u = t \/ Waiting(u, n)
      BY <3>3, <1>0 DEF Waiting
    <3>7. HeldOnce'
      BY <3>1, <3>3, <3>6, <1>m DEF HeldOnce
    <3> QED
      BY <3>5, <3>7
  <2> QED
    BY <1>1, <2>1, <2>2, <2>3, <2>4 DEF rt_mutex_take
<1>2. ASSUME NEW t \in Threads, NEW m \in Mutexes, rt_current_thread = t,
             rt_mutex_release(t, m)
      PROVE  HeldOnce' /\ PriorityRestored'
  <2>1. CASE ReleaseNotOwner(t, m)
    BY <2>1, SameHolders DEF ReleaseNotOwner, mutex, Waiting
  <2>2. CASE ReleaseOnce(t, m)
    BY <2>2, SameHolders DEF ReleaseOnce, thread, Waiting
  <2>r. ASSUME owner[m] = t, Restore(t, m) PROVE
          current_priority' = [current_priority EXCEPT ![t] = init_priority[t]]
    BY <2>r, <1>m DEF Restore, rt_thread_control, HeldOnce
  <2>3. CASE ReleaseFree(t, m)
    <3>1. /\ owner[m] = t /\ owner' = [owner EXCEPT ![m] = NULL]
          /\ original_priority' = [original_priority EXCEPT ![m] = 255]
          /\ UNCHANGED <<stat, pc, want>>
          /\ current_priority' = [current_priority EXCEPT ![t] = init_priority[t]]
      BY <2>3, <2>r DEF ReleaseFree
    <3>2. PriorityRestored'
      BY <3>1, <1>0, <1>h, <1>s
    <3>3. \A u \in Threads, n \in Mutexes : Waiting(u, n)' => Waiting(u, n)
      BY <3>1 DEF Waiting
    <3>4. HeldOnce'
      BY <3>1, <3>3, <1>0, <1>m DEF HeldOnce
    <3> QED
      BY <3>2, <3>4
  <2>4. CASE ReleaseHandOver(t, m)
    <3>0. suspend_thread[m] # << >>
      BY <2>4 DEF ReleaseHandOver
    <3>1. PICK u \in Threads : u = suspend_thread[m][1] /\ Listed(suspend_thread[m], u)
      BY <3>0, <1>m, NotListed
    <3>2. Waiting(u, m) /\ u # t
      BY <2>4, <3>1, <1>m DEF WaitersSound, ReleaseHandOver
    <3>3. /\ owner[m] = t /\ owner' = [owner EXCEPT ![m] = u]
          /\ original_priority' = [original_priority EXCEPT ![m] = current_priority[u]]
          /\ stat' = [stat EXCEPT ![u] = "READY"]
          /\ UNCHANGED <<pc, want>>
          /\ current_priority' = [current_priority EXCEPT ![t] = init_priority[t]]
      BY <2>4, <2>r, <3>1 DEF ReleaseHandOver, NewOwner, rt_thread_resume
    <3>4. \A n \in Mutexes : owner[n] # u
      BY <3>2, <1>m DEF HeldOnce
    <3>5. current_priority[u] = init_priority[u]
      BY <3>4, <1>h
    <3>6. PriorityRestored'
      BY <3>3, <3>4, <1>0, <1>h, <1>s
    <3>7. \A v \in Threads, n \in Mutexes : Waiting(v, n)' => v # u /\ Waiting(v, n)
      BY <3>3, <1>0 DEF Waiting
    <3>8. HeldOnce'
      BY <3>3, <3>4, <3>5, <3>7, <1>0, <1>m DEF HeldOnce
    <3> QED
      BY <3>6, <3>8
  <2> QED
    BY <1>2, <2>1, <2>2, <2>3, <2>4 DEF rt_mutex_release
<1>3. ASSUME NEW t \in Threads, rt_current_thread = t,
             rt_thread_sleep(t) \/ Return(t) \/ rt_thread_yield(t)
      PROVE  HeldOnce' /\ PriorityRestored'
  <2>1. CASE rt_thread_sleep(t)
    <3>1. \A u \in Threads, n \in Mutexes : Waiting(u, n)' => Waiting(u, n)
      BY <2>1, <1>0 DEF rt_thread_sleep, rt_thread_suspend, Waiting
    <3> QED
      BY <2>1, <3>1, SameHolders DEF rt_thread_sleep, mutex
  <2>2. CASE Return(t)
    <3>1. \A u \in Threads, n \in Mutexes : Waiting(u, n)' => Waiting(u, n)
      BY <2>2, <1>0 DEF Return, Waiting
    <3> QED
      BY <2>2, <3>1, SameHolders DEF Return, mutex
  <2>3. CASE rt_thread_yield(t)
    BY <2>3, SameHolders DEF rt_thread_yield, mutex, thread, Waiting
  <2> QED
    BY <1>3, <2>1, <2>2, <2>3
<1>4. ASSUME NEW t \in Threads, rt_thread_timeout(t)
      PROVE  HeldOnce' /\ PriorityRestored'
  <2>1. \A u \in Threads, n \in Mutexes : Waiting(u, n)' => Waiting(u, n)
    BY <1>4, <1>0 DEF rt_thread_timeout, Waiting
  <2> QED
    BY <1>4, <2>1, SameHolders DEF rt_thread_timeout
<1>5. CASE UNCHANGED vars
  BY <1>5, SameHolders DEF vars, Waiting
<1> QED
  BY <1>1, <1>2, <1>3, <1>4, <1>5 DEF Next, Run

LEMMA PriorityInvariant == ASSUME MaxHeld = 1 PROVE Spec => []PriorityInv
<1>1. PriorityInv /\ [Next]_vars => PriorityInv'
  BY PriorityStep, TypeStep, StateStep, WaitersStep, ReturnStep
     DEF PriorityInv, WaitInv
<1> QED
  BY <1>1, PriorityInit, PTL DEF Spec

\* With one mutex at a time, inheritance is always undone.
THEOREM PriorityCorrect == ASSUME MaxHeld = 1 PROVE Spec => []PriorityRestored
<1>1. PriorityInv => PriorityRestored
  BY DEF PriorityInv
<1> QED
  BY <1>1, PriorityInvariant, PTL

-----------------------------------------------------------------------------
(* RT_IPC_FLAG_PRIO *)

\* A list in the order of urgency, for priorities prio.
Sorted(list, prio) ==
  \A i, j \in 1 .. Len(list) : i <= j => prio[list[i]] <= prio[list[j]]

\* The list of a mutex is sorted, and its owner no less urgent than its members.
QueueOK(m) ==
  /\ Sorted(suspend_thread[m], current_priority)
  /\ \A t \in Threads : Listed(suspend_thread[m], t) =>
       current_priority[owner[m]] <= current_priority[t]

QueueInv == PriorityInv /\ \A m \in Mutexes : QueueOK(m)

LEMMA InsertSorted ==
  ASSUME Flag = "PRIO", NEW list \in Seq(Threads), NEW t \in Threads,
         NEW i \in 1 .. Len(list) + 1, Place(list, t, i),
         current_priority \in [Threads -> Nat], Sorted(list, current_priority)
  PROVE  Sorted(InsertAt(list, i, t), current_priority)
<1> DEFINE new == InsertAt(list, i, t)
           prio(u) == current_priority[u]
<1>1. /\ Len(list) \in Nat /\ Len(new) = Len(list) + 1
      /\ \A j \in 1 .. Len(list) + 1 :
           new[j] = IF j < i THEN list[j] ELSE IF j = i THEN t ELSE list[j - 1]
  BY InsertFacts, LenProperties
<1>2. \A j \in 1 .. Len(list) : j < i => prio(list[j]) <= prio(t)
  BY DEF Place
<1>3. i <= Len(list) => prio(t) < prio(list[i])
  BY DEF Place
<1>4. \A j, k \in 1 .. Len(list) : j <= k => prio(list[j]) <= prio(list[k])
  BY DEF Sorted
<1>5. prio(t) \in Nat /\ \A j \in 1 .. Len(list) : prio(list[j]) \in Nat
  BY ElementOfSeq
<1> HIDE DEF new, prio
<1>6. \A k \in 1 .. Len(list) : i <= k => prio(t) <= prio(list[k])
  BY <1>1, <1>3, <1>4, <1>5
<1>7. ASSUME NEW j \in 1 .. Len(new), NEW k \in 1 .. Len(new), j <= k
      PROVE  prio(new[j]) <= prio(new[k])
  <2>1. CASE k < i
    <3>1. new[j] = list[j] /\ new[k] = list[k] /\ j \in 1 .. Len(list) /\ k \in 1 .. Len(list)
      BY <1>1, <1>7, <2>1
    <3> QED
      BY <1>4, <1>7, <3>1
  <2>2. CASE k = i /\ j = i
    <3>1. new[j] = t /\ new[k] = t
      BY <1>1, <2>2
    <3>2. prio(t) <= prio(t)
      BY <1>5
    <3> QED
      BY <3>1, <3>2
  <2>3. CASE k = i /\ j < i
    <3>1. new[j] = list[j] /\ new[k] = t /\ j \in 1 .. Len(list)
      BY <1>1, <2>3
    <3>2. prio(list[j]) <= prio(t)
      BY <1>2, <2>3, <3>1
    <3> QED
      BY <3>1, <3>2
  <2>4. CASE k > i
    <3>1. new[k] = list[k - 1] /\ k - 1 \in 1 .. Len(list) /\ i <= k - 1
      BY <1>1, <2>4
    <3>2. CASE j < i
      <4>1. new[j] = list[j] /\ j \in 1 .. Len(list) /\ j <= k - 1
        BY <1>1, <3>1, <3>2
      <4>2. prio(list[j]) <= prio(list[k - 1])
        BY <1>4, <3>1, <4>1
      <4> QED
        BY <3>1, <4>1, <4>2
    <3>3. CASE j = i
      <4>1. new[j] = t
        BY <1>1, <3>3
      <4>2. prio(t) <= prio(list[k - 1])
        BY <1>6, <3>1
      <4> QED
        BY <3>1, <4>1, <4>2
    <3>4. CASE j > i
      <4>1. new[j] = list[j - 1] /\ j - 1 \in 1 .. Len(list) /\ j - 1 <= k - 1
        BY <1>1, <1>7, <3>4
      <4> QED
        BY <1>4, <3>1, <4>1
    <3> QED
      BY <3>2, <3>3, <3>4
  <2> QED
    BY <1>7, <2>1, <2>2, <2>3, <2>4
<1> QED
  BY <1>7 DEF Sorted, new, prio

LEMMA RemoveSorted ==
  ASSUME NEW list \in Seq(Threads), NEW i \in 1 .. Len(list), NEW prio, Sorted(list, prio)
  PROVE  Sorted(RemoveAt(list, i), prio)
<1> DEFINE new == RemoveAt(list, i)
<1>1. /\ Len(list) \in Nat /\ Len(new) = Len(list) - 1
      /\ \A j \in 1 .. Len(list) - 1 : new[j] = IF j < i THEN list[j] ELSE list[j + 1]
  BY RemoveFacts, LenProperties
<1>2. \A j, k \in 1 .. Len(list) : j <= k => prio[list[j]] <= prio[list[k]]
  BY DEF Sorted
<1> HIDE DEF new
<1>3. ASSUME NEW j \in 1 .. Len(new), NEW k \in 1 .. Len(new), j <= k
      PROVE  prio[new[j]] <= prio[new[k]]
  <2>1. PICK p, q \in 1 .. Len(list) : p <= q /\ new[j] = list[p] /\ new[k] = list[q]
    <3>1. CASE k < i
      BY <1>1, <1>3, <3>1
    <3>2. CASE k >= i /\ j < i
      <4>1. new[j] = list[j] /\ new[k] = list[k + 1]
        BY <1>1, <1>3, <3>2
      <4>2. j \in 1 .. Len(list) /\ k + 1 \in 1 .. Len(list) /\ j <= k + 1
        BY <1>1, <1>3
      <4> QED
        BY <4>1, <4>2
    <3>3. CASE j >= i
      <4>1. new[j] = list[j + 1] /\ new[k] = list[k + 1]
        BY <1>1, <1>3, <3>3
      <4>2. j + 1 \in 1 .. Len(list) /\ k + 1 \in 1 .. Len(list) /\ j + 1 <= k + 1
        BY <1>1, <1>3
      <4> QED
        BY <4>1, <4>2
    <3> QED
      BY <1>1, <1>3, <3>1, <3>2, <3>3
  <2> QED
    BY <1>2, <2>1
<1> QED
  BY <1>3 DEF Sorted, new

\* A list whose members keep their priorities stays sorted.
LEMMA SortedSame ==
  ASSUME NEW list \in Seq(Threads), NEW p, NEW q, Sorted(list, p),
         \A t \in Threads : Listed(list, t) => q[t] = p[t]
  PROVE  Sorted(list, q)
<1>1. \A i \in 1 .. Len(list) : list[i] \in Threads /\ Listed(list, list[i])
  BY ElementOfSeq DEF Listed
<1> QED
  BY <1>1 DEF Sorted

\* The first of a sorted list is the most urgent one.
LEMMA FirstMostUrgent ==
  ASSUME NEW list \in Seq(Threads), NEW p, Sorted(list, p), NEW t \in Threads,
         Listed(list, t)
  PROVE  p[list[1]] <= p[t]
BY DEF Sorted, Listed

\* What QueueInv says of one list.
LEMMA QueueFacts ==
  ASSUME QueueInv, NEW m \in Mutexes
  PROVE  /\ suspend_thread[m] \in Seq(Threads)
         /\ Sorted(suspend_thread[m], current_priority)
         /\ \A t \in Threads : Listed(suspend_thread[m], t) <=> Waiting(t, m)
         /\ \A t \in Threads : Listed(suspend_thread[m], t) =>
              /\ owner[m] \in Threads \ {t}
              /\ current_priority[owner[m]] <= current_priority[t]
              /\ \A n \in Mutexes : owner[n] # t
BY DEF QueueInv, QueueOK, PriorityInv, WaitInv, TypeOK, WaitersSound, HeldOnce

\* A list that stays, with the same members and no less urgent an owner.
LEMMA QueueSame ==
  ASSUME QueueInv, NEW m \in Mutexes, suspend_thread'[m] = suspend_thread[m],
         current_priority' \in [Threads -> Nat],
         \A t \in Threads : Listed(suspend_thread[m], t) =>
           /\ current_priority'[t] = current_priority[t]
           /\ owner'[m] = owner[m]
           /\ current_priority'[owner[m]] <= current_priority[owner[m]]
  PROVE  QueueOK(m)'
<1>1. Sorted(suspend_thread'[m], current_priority')
  BY QueueFacts, SortedSame
<1>2. current_priority \in [Threads -> Nat]
  BY DEF QueueInv, PriorityInv, WaitInv, TypeOK
<1>3. ASSUME NEW t \in Threads, Listed(suspend_thread[m], t)
      PROVE  current_priority'[owner'[m]] <= current_priority'[t]
  <2>1. owner[m] \in Threads /\ current_priority[owner[m]] <= current_priority[t]
    BY <1>3, QueueFacts
  <2>2. /\ current_priority'[owner[m]] \in Nat /\ current_priority[owner[m]] \in Nat
        /\ current_priority[t] \in Nat
    BY <1>2, <2>1
  <2>3. /\ current_priority'[t] = current_priority[t] /\ owner'[m] = owner[m]
        /\ current_priority'[owner[m]] <= current_priority[owner[m]]
    BY <1>3
  <2> QED
    BY <2>1, <2>2, <2>3
<1> QED
  BY <1>1, <1>3 DEF QueueOK

LEMMA QueueStep ==
  ASSUME MaxHeld = 1, Flag = "PRIO", QueueInv, [Next]_vars, NEW n \in Mutexes
  PROVE  QueueOK(n)'
<1>0. /\ stat \in [Threads -> {"READY", "SUSPEND"}]
      /\ pc \in [Threads -> {"run", "take", "sleep"}]
      /\ want \in [Threads -> Mutexes \cup {NULL}]
      /\ owner \in [Mutexes -> Threads \cup {NULL}]
      /\ value \in [Mutexes -> {0, 1}]
      /\ current_priority \in [Threads -> Nat]
      /\ suspend_thread \in [Mutexes -> Seq(Threads)]
  BY DEF QueueInv, PriorityInv, WaitInv, TypeOK
<1>m. PriorityInv /\ WaitInv /\ MutexState /\ ThreadState /\ WaitersSound /\ HeldOnce
  BY DEF QueueInv, PriorityInv, WaitInv
<1>t. current_priority' \in [Threads -> Nat]
  BY <1>m, TypeStep DEF TypeOK
<1>l. /\ suspend_thread[n] \in Seq(Threads)
      /\ Sorted(suspend_thread[n], current_priority)
      /\ \A u \in Threads : Listed(suspend_thread[n], u) <=> Waiting(u, n)
      /\ \A u \in Threads : Listed(suspend_thread[n], u) =>
           /\ owner[n] \in Threads \ {u}
           /\ current_priority[owner[n]] <= current_priority[u]
           /\ \A k \in Mutexes : owner[k] # u
  BY QueueFacts
<1>a. ASSUME UNCHANGED <<owner, suspend_thread, current_priority>>
      PROVE  QueueOK(n)'
  BY <1>a, <1>m DEF QueueInv, QueueOK
<1>1. ASSUME NEW t \in Threads, NEW m \in Mutexes, rt_current_thread = t,
             rt_mutex_take(t, m)
      PROVE  QueueOK(n)'
  <2>0. pc[t] = "run" /\ stat[t] = "READY"
    BY <1>1, <1>m DEF rt_mutex_take, ThreadState
  <2>1. CASE TakeAgain(t, m)
    BY <2>1, <1>a DEF TakeAgain
  <2>2. CASE TakeFree(t, m)
    <3>1. owner[m] = NULL
      BY <2>2, <1>m DEF TakeFree, MutexState
    <3>2. owner' = [owner EXCEPT ![m] = t] /\ UNCHANGED <<suspend_thread, current_priority>>
      BY <2>2 DEF TakeFree, NewOwner
    <3>3. ASSUME NEW u \in Threads, Listed(suspend_thread[n], u)
          PROVE  /\ owner'[n] = owner[n]
                 /\ current_priority[owner[n]] <= current_priority[owner[n]]
      <4>1. owner[n] \in Threads
        BY <3>3, <1>l
      <4>2. n # m /\ current_priority[owner[n]] \in Nat
        BY <3>1, <4>1, <1>0
      <4> QED
        BY <3>2, <4>2, <1>0
    <3> QED
      BY <3>2, <3>3, <1>t, QueueSame
  <2>3. CASE TakeNoWait(t, m)
    BY <2>3, <1>a DEF TakeNoWait, mutex
  <2>4. ASSUME NEW timed \in BOOLEAN, TakeWait(t, m, timed)
        PROVE  QueueOK(n)'
    <3>1. PICK i \in 1 .. Len(suspend_thread[m]) + 1 :
            /\ Place(suspend_thread[m], t, i)
            /\ suspend_thread' = [suspend_thread EXCEPT ![m] = InsertAt(suspend_thread[m], i, t)]
      BY <2>4 DEF TakeWait, rt_ipc_list_suspend
    <3>2. PICK o \in Threads : o = owner[m] /\ o # t
      BY <2>4, <1>0, <1>m DEF TakeWait, MutexState
    <3>3. owner' = owner
      BY <2>4 DEF TakeWait
    <3>4. IF current_priority[t] < current_priority[o]
            THEN current_priority' = [current_priority EXCEPT ![o] = current_priority[t]]
            ELSE current_priority' = current_priority
      BY <2>4, <3>2 DEF TakeWait, Inherit, rt_thread_control
    <3>5. /\ \A u \in Threads : u # o => current_priority'[u] = current_priority[u]
          /\ \A u \in Threads : current_priority'[u] <= current_priority[u]
          /\ current_priority'[o] <= current_priority[t]
      <4>1. CASE current_priority[t] < current_priority[o]
        <5>1. /\ current_priority'[o] = current_priority[t]
              /\ \A u \in Threads : u # o => current_priority'[u] = current_priority[u]
          BY <3>4, <4>1, <1>0
        <5>2. \A u \in Threads : current_priority[u] \in Nat
          BY <1>0
        <5>3. ASSUME NEW u \in Threads PROVE current_priority'[u] <= current_priority[u]
          BY <4>1, <5>1, <5>2
        <5> QED
          BY <5>1, <5>2, <5>3
      <4>2. CASE ~ (current_priority[t] < current_priority[o])
        BY <3>4, <4>2, <1>0
      <4> QED
        BY <4>1, <4>2
    <3>6. \A u \in Threads : Listed(suspend_thread[n], u) => u # o
      BY <3>2, <1>l
    <3>7. CASE n # m
      <4>1. suspend_thread'[n] = suspend_thread[n]
        BY <3>1, <3>7, <1>0
      <4> QED
        BY <3>3, <3>5, <3>6, <4>1, <1>l, <1>t, QueueSame
    <3>8. CASE n = m
      <4>1. suspend_thread'[m] = InsertAt(suspend_thread[m], i, t)
        BY <3>1, <1>0
      <4>2. Distinct(suspend_thread[m]) /\ ~ Listed(suspend_thread[m], t)
        BY <2>0, <3>8, <1>l, <1>m DEF WaitersSound, Waiting
      <4>3. \A u \in Threads : Listed(InsertAt(suspend_thread[m], i, t), u)
                                 <=> u = t \/ Listed(suspend_thread[m], u)
        BY <3>8, <4>2, <1>l, InsertDistinct
      <4>4. Sorted(InsertAt(suspend_thread[m], i, t), current_priority)
        BY <3>1, <3>8, <1>0, <1>l, InsertSorted
      <4>5. InsertAt(suspend_thread[m], i, t) \in Seq(Threads)
        BY <3>8, <1>l, InsertFacts
      <4>6. Sorted(InsertAt(suspend_thread[m], i, t), current_priority')
        BY <3>2, <3>5, <3>6, <3>8, <4>3, <4>4, <4>5, SortedSame
      <4>7. ASSUME NEW u \in Threads, Listed(InsertAt(suspend_thread[m], i, t), u)
            PROVE  current_priority'[o] <= current_priority'[u]
        <5>1. CASE u = t
          BY <3>2, <3>5, <5>1
        <5>2. CASE Listed(suspend_thread[m], u)
          <6>1. current_priority[o] <= current_priority[u] /\ u # o
            BY <3>2, <3>6, <3>8, <5>2, <1>l
          <6>2. current_priority'[o] <= current_priority[o] /\ current_priority'[u] = current_priority[u]
            BY <3>5, <6>1
          <6>3. /\ current_priority'[o] \in Nat /\ current_priority[o] \in Nat
                /\ current_priority[u] \in Nat
            BY <1>0, <1>t
          <6> QED
            BY <6>1, <6>2, <6>3
        <5> QED
          BY <4>3, <4>7, <5>1, <5>2
      <4> QED
        BY <3>2, <3>3, <3>8, <4>1, <4>6, <4>7 DEF QueueOK
    <3> QED
      BY <3>7, <3>8
  <2> QED
    BY <1>1, <2>1, <2>2, <2>3, <2>4 DEF rt_mutex_take
<1>2. ASSUME NEW t \in Threads, NEW m \in Mutexes, rt_current_thread = t,
             rt_mutex_release(t, m)
      PROVE  QueueOK(n)'
  <2>1. CASE ReleaseNotOwner(t, m)
    BY <2>1, <1>a DEF ReleaseNotOwner, mutex
  <2>2. CASE ReleaseOnce(t, m)
    BY <2>2, <1>a DEF ReleaseOnce, thread
  <2>o. ASSUME owner[m] = t, n # m, Restore(t, m), owner'[n] = owner[n],
               suspend_thread'[n] = suspend_thread[n]
        PROVE  QueueOK(n)'
    <3>1. \A u \in Threads : u # t => current_priority'[u] = current_priority[u]
      BY <2>o, <1>0 DEF Restore, rt_thread_control
    <3>2. ASSUME NEW u \in Threads, Listed(suspend_thread[n], u)
          PROVE  /\ current_priority'[u] = current_priority[u]
                 /\ current_priority'[owner[n]] <= current_priority[owner[n]]
      <4>1. owner[n] \in Threads /\ u # t
        BY <2>o, <3>2, <1>l
      <4>2. owner[n] # t
        BY <2>o, <1>m DEF HeldOnce
      <4>3. current_priority'[owner[n]] = current_priority[owner[n]]
        BY <3>1, <4>1, <4>2
      <4>4. current_priority[owner[n]] \in Nat
        BY <4>1, <1>0
      <4> QED
        BY <3>1, <4>1, <4>3, <4>4
    <3> QED
      BY <2>o, <3>2, <1>t, QueueSame
  <2>3. CASE ReleaseFree(t, m)
    <3>1. /\ owner[m] = t /\ Restore(t, m) /\ owner' = [owner EXCEPT ![m] = NULL]
          /\ suspend_thread[m] = << >> /\ suspend_thread' = suspend_thread
      BY <2>3 DEF ReleaseFree
    <3>2. CASE n = m
      <4>1. \A u \in Threads : ~ Listed(suspend_thread[n], u)
        BY <3>1, <3>2, EmptySeq DEF Listed
      <4> QED
        BY <3>1, <4>1, <1>t, QueueSame
    <3>3. CASE n # m
      BY <2>o, <3>1, <3>3, <1>0
    <3> QED
      BY <3>2, <3>3
  <2>4. CASE ReleaseHandOver(t, m)
    <3>0. suspend_thread[m] # << >>
      BY <2>4 DEF ReleaseHandOver
    <3>1. PICK u \in Threads : u = suspend_thread[m][1] /\ Listed(suspend_thread[m], u)
      BY <3>0, <1>m, NotListed
    <3>2. /\ owner[m] = t /\ Restore(t, m) /\ owner' = [owner EXCEPT ![m] = u]
          /\ suspend_thread' = [suspend_thread EXCEPT ![m] = RemoveAt(suspend_thread[m], 1)]
      BY <2>4, <3>1 DEF ReleaseHandOver, NewOwner
    <3>3. CASE n # m
      BY <2>o, <3>2, <3>3, <1>0
    <3>4. CASE n = m
      <4>1. /\ suspend_thread'[m] = RemoveAt(suspend_thread[m], 1)
            /\ owner'[m] = u /\ 1 \in 1 .. Len(suspend_thread[m])
        BY <3>0, <3>2, <1>0
      <4>2. \A v \in Threads : v # t => current_priority'[v] = current_priority[v]
        BY <3>2, <1>0 DEF Restore, rt_thread_control
      <4>3. Distinct(suspend_thread[m])
        BY <1>m DEF WaitersSound
      <4>4. \A v \in Threads : Listed(RemoveAt(suspend_thread[m], 1), v)
                                 => Listed(suspend_thread[m], v)
        BY <3>4, <4>1, <4>3, <1>l, RemoveDistinct
      <4>5. \A v \in Threads : Listed(suspend_thread[m], v) =>
              /\ current_priority'[v] = current_priority[v]
              /\ current_priority[u] <= current_priority[v]
        <5>1. \A v \in Threads : Listed(suspend_thread[m], v) => v # t
          BY <3>2, <3>4, <1>l
        <5>2. \A v \in Threads : Listed(suspend_thread[m], v) =>
                current_priority[u] <= current_priority[v]
          BY <3>1, <3>4, <1>l, FirstMostUrgent
        <5> QED
          BY <4>2, <5>1, <5>2
      <4>6. Sorted(RemoveAt(suspend_thread[m], 1), current_priority')
        <5>1. Sorted(RemoveAt(suspend_thread[m], 1), current_priority)
          BY <3>4, <4>1, <1>l, RemoveSorted
        <5>2. RemoveAt(suspend_thread[m], 1) \in Seq(Threads)
          BY <3>4, <4>1, <1>l, RemoveFacts
        <5> QED
          BY <4>4, <4>5, <5>1, <5>2, SortedSame
      <4> QED
        BY <3>1, <3>4, <4>1, <4>4, <4>5, <4>6 DEF QueueOK
    <3> QED
      BY <3>3, <3>4
  <2> QED
    BY <1>2, <2>1, <2>2, <2>3, <2>4 DEF rt_mutex_release
<1>3. ASSUME NEW t \in Threads,
             rt_thread_sleep(t) \/ Return(t) \/ rt_thread_yield(t)
      PROVE  QueueOK(n)'
  BY <1>3, <1>a DEF rt_thread_sleep, Return, rt_thread_yield, mutex, thread
<1>4. ASSUME NEW t \in Threads, rt_thread_timeout(t)
      PROVE  QueueOK(n)'
  <2>0. UNCHANGED <<owner, current_priority>>
    BY <1>4 DEF rt_thread_timeout
  <2>1. CASE suspend_thread' = suspend_thread
    BY <2>0, <2>1, <1>a
  <2>2. CASE suspend_thread' # suspend_thread
    <3>1. PICK i \in 1 .. Len(suspend_thread[want[t]]) :
            /\ pc[t] = "take"
            /\ suspend_thread' = [suspend_thread EXCEPT ![want[t]] = RemoveAt(suspend_thread[want[t]], i)]
      BY <1>4, <2>2 DEF rt_thread_timeout
    <3>2. want[t] \in Mutexes
      BY <3>1, <1>m DEF ThreadState
    <3>3. CASE n # want[t]
      <4>1. suspend_thread'[n] = suspend_thread[n]
        BY <3>1, <3>2, <3>3, <1>0
      <4> QED
        BY <2>0, <4>1 DEF QueueInv, QueueOK
    <3>4. CASE n = want[t]
      <4>1. suspend_thread'[n] = RemoveAt(suspend_thread[n], i) /\ i \in 1 .. Len(suspend_thread[n])
        BY <3>1, <3>2, <3>4, <1>0
      <4>2. Distinct(suspend_thread[n])
        BY <1>m DEF WaitersSound
      <4>3. \A v \in Threads : Listed(RemoveAt(suspend_thread[n], i), v)
                                 => Listed(suspend_thread[n], v)
        BY <4>1, <4>2, <1>l, RemoveDistinct
      <4>4. Sorted(RemoveAt(suspend_thread[n], i), current_priority)
        BY <4>1, <1>l, RemoveSorted
      <4> QED
        BY <2>0, <4>1, <4>3, <4>4, <1>l DEF QueueOK
    <3> QED
      BY <3>3, <3>4
  <2> QED
    BY <2>1, <2>2
<1>5. CASE UNCHANGED vars
  BY <1>5, <1>a DEF vars
<1> QED
  BY <1>1, <1>2, <1>3, <1>4, <1>5 DEF Next, Run

LEMMA QueueInvariant == ASSUME MaxHeld = 1, Flag = "PRIO" PROVE Spec => []QueueInv
<1>1. Init => QueueInv
  <2>1. Init => \A m \in Mutexes : QueueOK(m)
    BY EmptySeq DEF Init, QueueOK, Sorted, Listed
  <2> QED
    BY <2>1, PriorityInit DEF QueueInv
<1>2. QueueInv /\ [Next]_vars => QueueInv'
  <2> SUFFICES ASSUME QueueInv, [Next]_vars PROVE QueueInv'
    OBVIOUS
  <2>1. PriorityInv'
    BY PriorityStep, TypeStep, StateStep, WaitersStep, ReturnStep
       DEF QueueInv, PriorityInv, WaitInv
  <2>2. \A m \in Mutexes : QueueOK(m)'
    BY QueueStep
  <2> QED
    BY <2>1, <2>2 DEF QueueInv
<1> QED
  BY <1>1, <1>2, PTL DEF Spec

\* With RT_IPC_FLAG_PRIO and one mutex at a time there is no priority reversion.
THEOREM InheritsCorrect == ASSUME MaxHeld = 1, Flag = "PRIO" PROVE Spec => []Inherits
<1>1. QueueInv => Inherits
  <2> SUFFICES ASSUME QueueInv, NEW m \in Mutexes, NEW i \in 1 .. Len(suspend_thread[m])
               PROVE  current_priority[owner[m]] <= current_priority[suspend_thread[m][i]]
    BY DEF Inherits
  <2>1. suspend_thread[m][i] \in Threads /\ Listed(suspend_thread[m], suspend_thread[m][i])
    BY QueueFacts, ElementOfSeq DEF Listed
  <2> QED
    BY <2>1, QueueFacts
<1> QED
  BY <1>1, QueueInvariant, PTL

\* A mutex others wait for goes to the most urgent of them.
THEOREM MostUrgentCorrect == ASSUME MaxHeld = 1, Flag = "PRIO" PROVE Spec => MostUrgentGets
<1>1. QueueInv /\ [Next]_vars => [GoesToMostUrgent]_vars
  <2> SUFFICES ASSUME QueueInv, [Next]_vars, NEW m \in Mutexes, owner'[m] # owner[m],
                      NEW i \in 1 .. Len(suspend_thread[m])
               PROVE  current_priority[owner'[m]] <= current_priority[suspend_thread[m][i]]
    BY DEF GoesToMostUrgent
  <2>e. suspend_thread[m] # << >>
    BY EmptySeq
  <2>0. /\ WaitInv /\ MutexState /\ owner \in [Mutexes -> Threads \cup {NULL}]
        /\ value \in [Mutexes -> {0, 1}]
    BY DEF QueueInv, PriorityInv, WaitInv, TypeOK
  <2>1. owner'[m] = suspend_thread[m][1]
    <3>1. ASSUME NEW t \in Threads, NEW n \in Mutexes, rt_mutex_take(t, n)
          PROVE  FALSE
      <4>1. PICK k \in Mutexes : TakeFree(t, k) /\ owner' = [owner EXCEPT ![k] = t]
        BY <3>1 DEF rt_mutex_take, TakeAgain, TakeFree, TakeNoWait, TakeWait, mutex, NewOwner
      <4>2. k = m
        BY <4>1, <2>0
      <4>3. owner[m] = NULL
        BY <4>1, <4>2, <2>0 DEF TakeFree, MutexState
      <4> QED
        BY <4>3, <2>0, <2>e, NotListed
    <3>2. ASSUME NEW t \in Threads, NEW n \in Mutexes, rt_mutex_release(t, n)
          PROVE  owner'[m] = suspend_thread[m][1]
      <4>1. CASE ReleaseNotOwner(t, n) \/ ReleaseOnce(t, n)
        BY <4>1 DEF ReleaseNotOwner, ReleaseOnce, mutex
      <4>2. CASE ReleaseFree(t, n)
        <5>1. n = m
          BY <4>2, <2>0 DEF ReleaseFree
        <5> QED
          BY <4>2, <5>1, <2>e DEF ReleaseFree
      <4>3. CASE ReleaseHandOver(t, n)
        <5>1. owner' = [owner EXCEPT ![n] = suspend_thread[n][1]]
          BY <4>3 DEF ReleaseHandOver, NewOwner
        <5>2. n = m
          BY <5>1, <2>0
        <5> QED
          BY <5>1, <5>2, <2>0
      <4> QED
        BY <3>2, <4>1, <4>2, <4>3 DEF rt_mutex_release
    <3>3. ASSUME NEW t \in Threads,
                 \/ rt_thread_sleep(t) \/ Return(t) \/ rt_thread_yield(t)
                 \/ rt_thread_timeout(t)
          PROVE  FALSE
      BY <3>3 DEF rt_thread_sleep, Return, rt_thread_yield, rt_thread_timeout, mutex
    <3>4. CASE UNCHANGED vars
      BY <3>4 DEF vars
    <3> QED
      BY <3>1, <3>2, <3>3, <3>4 DEF Next, Run
  <2>2. suspend_thread[m][i] \in Threads /\ Listed(suspend_thread[m], suspend_thread[m][i])
    BY QueueFacts, ElementOfSeq DEF Listed
  <2>3. current_priority[suspend_thread[m][1]] <= current_priority[suspend_thread[m][i]]
    BY <2>2, QueueFacts, FirstMostUrgent
  <2> QED
    BY <2>1, <2>3
<1> QED
  BY <1>1, QueueInvariant, PTL DEF MostUrgentGets, Spec
=============================================================================
