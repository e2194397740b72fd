------------------------------ MODULE RtMutex ------------------------------
(***************************************************************************)
(* Mutexes of the RT-Thread kernel (src/ipc.c) with the parts of thread.c, *)
(* timer.c, clock.c and scheduler.c they rest on.  at_client.c serialises  *)
(* its callers with such a mutex, at_socket.c its receive lists.           *)
(*                                                                         *)
(* Every kernel call masks interrupts while it changes kernel state, so it *)
(* is one step.  Threads call the kernel while they run; thread timers     *)
(* expire in the clock interrupt, at any moment.  A smaller priority       *)
(* number is more urgent.                                                  *)
(*                                                                         *)
(* The ready lists are abstracted to the set of ready threads: rt_schedule *)
(* switches to any of the most urgent ones, where the code takes the first *)
(* of their list.  Mutexes are not detached or deleted, and threads do not *)
(* end or change their own priority.                                       *)
(***************************************************************************)
EXTENDS Integers, Sequences, FiniteSets

CONSTANTS
  Threads,
  Mutexes,
  NULL,           \* RT_NULL; as the running thread, the idle thread
  init_priority,  \* thread->init_priority of each thread
  Flag,           \* RT_IPC_FLAG_FIFO or RT_IPC_FLAG_PRIO
  MaxHeld,        \* how many mutexes a thread holds at a time
  MaxHold         \* bound: how often a thread takes the same mutex

ASSUME NullAssumption     == NULL \notin Threads
ASSUME PriorityAssumption == init_priority \in [Threads -> Nat]
ASSUME MutexAssumption    == IsFiniteSet(Mutexes)
ASSUME FlagAssumption     == Flag \in {"FIFO", "PRIO"}
ASSUME BoundAssumption    == MaxHeld \in Nat /\ MaxHold \in Nat

VARIABLES
  stat, current_priority, error,   \* of each struct rt_thread
  timer,                           \* thread_timer is activated
  pc, want,                        \* the call a thread is in, and its mutex
  value, owner, hold, original_priority, suspend_thread,  \* struct rt_mutex
  rt_current_thread

thread == <<stat, current_priority, error, timer, pc, want>>
mutex  == <<value, owner, hold, original_priority, suspend_thread>>
vars == <<stat, current_priority, error, timer, pc, want, value, owner, hold,
          original_priority, suspend_thread, rt_current_thread>>

Held(t) == {m \in Mutexes : owner[m] = t}

-----------------------------------------------------------------------------
(* thread.c, scheduler.c *)

\* The ready threads no other ready thread is more urgent than.
MostUrgent(st, prio) ==
  {t \in Threads : /\ st[t] = "READY"
                   /\ \A u \in Threads : st[u] = "READY" => prio[t] <= prio[u]}

\* Run after the other variables have their new values.
rt_schedule ==
  LET best == MostUrgent(stat', current_priority')
  IN rt_current_thread' \in IF best = {} THEN {NULL} ELSE best

\* Mutant: the thread's timer goes on running.
ResumeKeepsTimer(t) ==
  /\ stat' = [stat EXCEPT ![t] = "READY"]
  /\ UNCHANGED timer

\* Out of the list it waits in, and its timer stopped; the caller takes it out.
rt_thread_resume(t) ==
  /\ stat' = [stat EXCEPT ![t] = "READY"]
  /\ timer' = [timer EXCEPT ![t] = FALSE]

\* rt_thread_suspend in call c; timed waits start the thread timer.
rt_thread_suspend(t, c, m, timed) ==
  /\ stat' = [stat EXCEPT ![t] = "SUSPEND"]
  /\ timer' = [timer EXCEPT ![t] = timed]
  /\ pc' = [pc EXCEPT ![t] = c]
  /\ want' = [want EXCEPT ![t] = m]

\* RT_THREAD_CTRL_CHANGE_PRIORITY
rt_thread_control(t, prio) ==
  current_priority' = [current_priority EXCEPT ![t] = prio]

\* list with t in front of position i, and without position i
InsertAt(list, i, t) ==
  [j \in 1 .. Len(list) + 1 |->
     IF j < i THEN list[j] ELSE IF j = i THEN t ELSE list[j - 1]]
RemoveAt(list, i) ==
  [j \in 1 .. Len(list) - 1 |-> IF j < i THEN list[j] ELSE list[j + 1]]

\* Mutant: a thread goes behind the first one that is not more urgent.
PlaceBehind(list, t, i) ==
  IF Flag = "FIFO"
    THEN i = Len(list) + 1
    ELSE IF list = << >> THEN i = 1 ELSE i = 2

\* Where rt_ipc_list_suspend puts a thread: at the end, or in front of the
\* first thread it is more urgent than.
Place(list, t, i) ==
  IF Flag = "FIFO"
    THEN i = Len(list) + 1
    ELSE /\ \A j \in 1 .. Len(list) :
              j < i => current_priority[list[j]] <= current_priority[t]
         /\ i <= Len(list) => current_priority[t] < current_priority[list[i]]

rt_ipc_list_suspend(t, m, timed) ==
  /\ \E i \in 1 .. Len(suspend_thread[m]) + 1 :
       /\ Place(suspend_thread[m], t, i)
       /\ suspend_thread' = [suspend_thread EXCEPT ![m] = InsertAt(@, i, t)]
  /\ rt_thread_suspend(t, "take", m, timed)

-----------------------------------------------------------------------------
(* rt_mutex_take *)

\* The owner takes the mutex once more.
TakeAgain(t, m) ==
  /\ owner[m] = t
  /\ hold[m] < MaxHold
  /\ hold' = [hold EXCEPT ![m] = @ + 1]
  /\ error' = [error EXCEPT ![t] = "EOK"]
  /\ UNCHANGED <<stat, current_priority, timer, pc, want, value, owner,
                 original_priority, suspend_thread, rt_current_thread>>

\* Set the owner, and the priority to go back to when it lets go.
NewOwner(m, t) ==
  /\ owner' = [owner EXCEPT ![m] = t]
  /\ original_priority' = [original_priority EXCEPT ![m] = current_priority[t]]

\* mutex->value > 0
TakeFree(t, m) ==
  /\ owner[m] # t
  /\ value[m] > 0
  /\ Cardinality(Held(t)) < MaxHeld
  /\ value' = [value EXCEPT ![m] = @ - 1]
  /\ NewOwner(m, t)
  /\ hold' = [hold EXCEPT ![m] = @ + 1]
  /\ error' = [error EXCEPT ![t] = "EOK"]
  /\ UNCHANGED <<stat, current_priority, timer, pc, want, suspend_thread,
                 rt_current_thread>>

\* time == 0
TakeNoWait(t, m) ==
  /\ owner[m] # t
  /\ value[m] = 0
  /\ error' = [error EXCEPT ![t] = "ETIMEOUT"]
  /\ UNCHANGED <<stat, current_priority, timer, pc, want, mutex,
                 rt_current_thread>>

\* Mutant: the owner keeps its priority.
NoInherit(t, m) == UNCHANGED current_priority

\* The owner's priority is raised to that of a thread that comes to wait.
Inherit(t, m) ==
  IF current_priority[t] < current_priority[owner[m]]
    THEN rt_thread_control(owner[m], current_priority[t])
    ELSE UNCHANGED current_priority

\* time != 0: wait in the list and let another thread run.
TakeWait(t, m, timed) ==
  /\ owner[m] # t
  /\ value[m] = 0
  /\ Cardinality(Held(t)) < MaxHeld
  /\ error' = [error EXCEPT ![t] = "EOK"]
  /\ Inherit(t, m)
  /\ rt_ipc_list_suspend(t, m, timed)
  /\ UNCHANGED <<value, owner, hold, original_priority>>
  /\ rt_schedule

rt_mutex_take(t, m) ==
  /\ pc[t] = "run"
  /\ \/ TakeAgain(t, m) \/ TakeFree(t, m) \/ TakeNoWait(t, m)
     \/ \E timed \in BOOLEAN : TakeWait(t, m, timed)

-----------------------------------------------------------------------------
(* rt_mutex_release *)

\* A thread that is not the owner is turned away.
ReleaseNotOwner(t, m) ==
  /\ owner[m] # t
  /\ error' = [error EXCEPT ![t] = "ERROR"]
  /\ UNCHANGED <<stat, current_priority, timer, pc, want, mutex,
                 rt_current_thread>>

\* The owner has taken it more often.
ReleaseOnce(t, m) ==
  /\ owner[m] = t
  /\ hold[m] > 1
  /\ hold' = [hold EXCEPT ![m] = @ - 1]
  /\ UNCHANGED <<thread, value, owner, original_priority, suspend_thread,
                 rt_current_thread>>

\* Mutant: the priority stays as it was raised.
KeepPriority(t, m) == UNCHANGED current_priority

\* Back to the priority the thread had when it took the mutex.
Restore(t, m) == rt_thread_control(t, original_priority[m])

\* The last release with nobody waiting.  There is no rt_schedule here.
ReleaseFree(t, m) ==
  /\ owner[m] = t
  /\ hold[m] = 1
  /\ suspend_thread[m] = << >>
  /\ Restore(t, m)
  /\ hold' = [hold EXCEPT ![m] = 0]
  /\ value' = [value EXCEPT ![m] = @ + 1]
  /\ owner' = [owner EXCEPT ![m] = NULL]
  /\ original_priority' = [original_priority EXCEPT ![m] = 255]
  /\ UNCHANGED <<stat, error, timer, pc, want, suspend_thread,
                 rt_current_thread>>

\* Mutant: the value is increased as well, as in rt_sem_release without waiters.
HandOverFrees(t, m) ==
  /\ owner[m] = t
  /\ hold[m] = 1
  /\ suspend_thread[m] # << >>
  /\ Restore(t, m)
  /\ value' = [value EXCEPT ![m] = @ + 1]
  /\ NewOwner(m, suspend_thread[m][1])
  /\ rt_thread_resume(suspend_thread[m][1])
  /\ suspend_thread' = [suspend_thread EXCEPT ![m] = RemoveAt(@, 1)]
  /\ UNCHANGED <<error, pc, want, hold>>
  /\ rt_schedule

\* The last release with threads waiting: the first of the list is the owner
\* before it runs; hold goes to 0 and back to 1.
ReleaseHandOver(t, m) ==
  /\ owner[m] = t
  /\ hold[m] = 1
  /\ suspend_thread[m] # << >>
  /\ Restore(t, m)
  /\ NewOwner(m, suspend_thread[m][1])
  /\ rt_thread_resume(suspend_thread[m][1])
  /\ suspend_thread' = [suspend_thread EXCEPT ![m] = RemoveAt(@, 1)]
  /\ UNCHANGED <<error, pc, want, value, hold>>
  /\ rt_schedule

rt_mutex_release(t, m) ==
  /\ pc[t] = "run"
  /\ \/ ReleaseNotOwner(t, m) \/ ReleaseOnce(t, m)
     \/ ReleaseFree(t, m) \/ ReleaseHandOver(t, m)

-----------------------------------------------------------------------------
(* Delays, time slices and timers *)

rt_thread_sleep(t) ==
  /\ pc[t] = "run"
  /\ rt_thread_suspend(t, "sleep", NULL, TRUE)
  /\ UNCHANGED <<current_priority, error, mutex>>
  /\ rt_schedule

\* The call returns: rt_mutex_take with the error, rt_thread_sleep after it has
\* cleared it.
Return(t) ==
  /\ pc[t] # "run"
  /\ pc' = [pc EXCEPT ![t] = "run"]
  /\ error' = [error EXCEPT ![t] = IF pc[t] = "sleep" /\ @ = "ETIMEOUT"
                                     THEN "EOK" ELSE @]
  /\ want' = [want EXCEPT ![t] = NULL]
  /\ UNCHANGED <<stat, current_priority, timer, mutex, rt_current_thread>>

\* The end of a time slice, or a call: another thread of the same priority runs.
rt_thread_yield(t) ==
  /\ \E u \in Threads \ {t} :
       stat[u] = "READY" /\ current_priority[u] = current_priority[t]
  /\ UNCHANGED <<thread, mutex>>
  /\ rt_schedule

\* Mutant: the thread is made ready and stays in the list of the mutex.
TimeoutStaysListed(t) ==
  /\ timer[t]
  /\ timer' = [timer EXCEPT ![t] = FALSE]
  /\ error' = [error EXCEPT ![t] = "ETIMEOUT"]
  /\ stat' = [stat EXCEPT ![t] = "READY"]
  /\ UNCHANGED <<current_priority, pc, want, mutex>>
  /\ rt_schedule

\* The thread timer expires: out of the list it waits in, if any, and ready.
\* The priority it lent to the owner is not taken back.
rt_thread_timeout(t) ==
  /\ timer[t]
  /\ timer' = [timer EXCEPT ![t] = FALSE]
  /\ error' = [error EXCEPT ![t] = "ETIMEOUT"]
  /\ stat' = [stat EXCEPT ![t] = "READY"]
  /\ \/ /\ pc[t] # "take"
        /\ UNCHANGED suspend_thread
     \/ /\ pc[t] = "take"
        /\ \E i \in 1 .. Len(suspend_thread[want[t]]) :
             /\ suspend_thread[want[t]][i] = t
             /\ suspend_thread' = [suspend_thread EXCEPT ![want[t]] = RemoveAt(@, i)]
  /\ UNCHANGED <<current_priority, pc, want, value, owner, hold, original_priority>>
  /\ rt_schedule

-----------------------------------------------------------------------------
Init ==
  /\ stat = [t \in Threads |-> "READY"]
  /\ current_priority = init_priority
  /\ error = [t \in Threads |-> "EOK"]
  /\ timer = [t \in Threads |-> FALSE]
  /\ pc = [t \in Threads |-> "run"]
  /\ want = [t \in Threads |-> NULL]
  /\ value = [m \in Mutexes |-> 1]
  /\ owner = [m \in Mutexes |-> NULL]
  /\ hold = [m \in Mutexes |-> 0]
  /\ original_priority = [m \in Mutexes |-> 255]
  /\ suspend_thread = [m \in Mutexes |-> << >>]
  /\ rt_current_thread \in MostUrgent(stat, current_priority)

\* What the running thread may do.
Run(t) ==
  /\ rt_current_thread = t
  /\ \/ \E m \in Mutexes : rt_mutex_take(t, m) \/ rt_mutex_release(t, m)
     \/ rt_thread_sleep(t) \/ Return(t) \/ rt_thread_yield(t)

Next ==
  \/ \E t \in Threads : Run(t)
  \/ \E t \in Threads : rt_thread_timeout(t)

Spec == Init /\ [][Next]_vars

-----------------------------------------------------------------------------
(* Properties *)

TypeOK ==
  /\ stat \in [Threads -> {"READY", "SUSPEND"}]
  /\ current_priority \in [Threads -> Nat]
  /\ error \in [Threads -> {"EOK", "ETIMEOUT", "ERROR"}]
  /\ timer \in [Threads -> BOOLEAN]
  /\ pc \in [Threads -> {"run", "take", "sleep"}]
  /\ want \in [Threads -> Mutexes \cup {NULL}]
  /\ value \in [Mutexes -> {0, 1}]
  /\ owner \in [Mutexes -> Threads \cup {NULL}]
  /\ hold \in [Mutexes -> Nat]
  /\ original_priority \in [Mutexes -> Nat]
  /\ suspend_thread \in [Mutexes -> Seq(Threads)]
  /\ rt_current_thread \in Threads \cup {NULL}

Listed(list, t) == \E i \in 1 .. Len(list) : list[i] = t
Distinct(list)  == \A i, j \in 1 .. Len(list) : list[i] = list[j] => i = j
Waiting(t, m)   == stat[t] = "SUSPEND" /\ pc[t] = "take" /\ want[t] = m

\* A thread's list node is in one list at a time: it waits for a mutex exactly
\* when it is suspended in rt_mutex_take, and then once, in that mutex's list,
\* whatever releases and timeouts do; and nobody waits for a free mutex or for
\* itself.
WaitersSound ==
  \A m \in Mutexes :
    /\ Distinct(suspend_thread[m])
    /\ \A t \in Threads : Listed(suspend_thread[m], t) <=> Waiting(t, m)
    /\ \A t \in Threads : Waiting(t, m) => owner[m] \notin {NULL, t}

\* RT_ASSERT in rt_thread_timeout: a thread whose timer expires is suspended.
\* A hand-over that leaves the timer running would break it.
TimerOfSuspended == \A t \in Threads : timer[t] => stat[t] = "SUSPEND"

\* When a wait is over the caller has the mutex exactly if rt_mutex_take
\* reports success: the hand-over and the timeout never both happen.
TakeReturnsOwner ==
  \A t \in Threads : stat[t] = "READY" /\ pc[t] = "take" =>
    (error[t] = "EOK" <=> owner[want[t]] = t)

\* A thread that holds no mutex runs at its own priority again, however waiters
\* came and went; a thread that holds one is never below its own.
PriorityRestored ==
  \A t \in Threads :
    /\ current_priority[t] <= init_priority[t]
    /\ Held(t) = {} => current_priority[t] = init_priority[t]

\* "Mutex objects use inherited priority to prevent priority reversion"
\* (documentation/doxygen/kernel.h): no thread waits for one less urgent than
\* itself.  So it is with RT_IPC_FLAG_PRIO.  With RT_IPC_FLAG_FIFO, which the AT
\* client and the AT sockets use, rt_mutex_release hands the mutex to the first
\* waiter at that waiter's own priority, and more urgent ones wait behind it.
Inherits ==
  \A m \in Mutexes : \A i \in 1 .. Len(suspend_thread[m]) :
    current_priority[owner[m]] <= current_priority[suspend_thread[m][i]]

\* "thread pended on this resource who had the most high priority would get the
\* resource" (the same, RT_IPC_FLAG_PRIO)
GoesToMostUrgent ==
  \A m \in Mutexes : owner'[m] # owner[m] =>
    \A i \in 1 .. Len(suspend_thread[m]) :
      current_priority[owner'[m]] <= current_priority[suspend_thread[m][i]]
MostUrgentGets == [][GoesToMostUrgent]_vars
=============================================================================
