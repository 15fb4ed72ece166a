-------------------------------- MODULE Sched --------------------------------
(***************************************************************************)
(* The priority-FIFO scheduler of spec 4.4 and 5 (its source is not in the *)
(* repository) together with what the kernel tests of                      *)
(* src/tests/proc/test_proc.c do to it: post freshly created threads with  *)
(* interrupts disabled, then stop them by writing                          *)
(* thread->state = STATE_TERMINATED from the running test thread, without  *)
(* telling the scheduler.                                                  *)
(*                                                                         *)
(* The timer ISR's tick -> pick-next -> switch is one critical section     *)
(* (spec 4.4.3), so it is one action; so is a post bracketed by cli/sti.   *)
(***************************************************************************)
EXTENDS Naturals, Sequences, SequencesExt

CONSTANTS
    Threads,     \* the threads the tests create
    Prio,        \* Threads -> PRI_MIN .. PRI_MAX, the priority of each thread's process
    PRI_MAX,     \* PROCESS_PRI_MAX
    TIMESLICE,   \* TIMESLICE_DEFAULT
    MAIN,        \* the boot thread, which runs the tests and is scheduled like the rest
    IDLE         \* the idle thread, run when no thread is ready

Priorities == 0 .. PRI_MAX

VARIABLES
    state,     \* thread -> "new" | "ready" | "running" | "terminated"
    queue,     \* priority -> the ready queue of that priority
    current,   \* the running thread, or IDLE
    slice      \* what is left of the current thread's time slice

vars == <<state, queue, current, slice>>

Queued == {t \in Threads : \E p \in Priorities : t \in ToSet(queue[p])}

-----------------------------------------------------------------------------
(* A plausible bug in the pick: the chosen thread stays in its queue.      *)
Pick_NoDequeue(q, st) ==
    LET live(p) == SelectSeq(q[p], LAMBDA t : st[t] # "terminated")
        ps      == {p \in Priorities : live(p) # <<>>}
        p       == IF ps = {} THEN 0 ELSE CHOOSE x \in ps : \A y \in ps : x >= y
    IN IF ps = {} THEN [next |-> IDLE, queue |-> [r \in Priorities |-> <<>>]]
       ELSE [next |-> Head(live(p)), queue |-> [r \in Priorities |-> live(r)]]

(* Picking the next thread: the head of the highest non-empty priority     *)
(* queue, after dropping the entries of threads that were terminated while *)
(* queued; IDLE when every queue is empty.                                 *)
Pick(q, st) ==
    LET live(p) == SelectSeq(q[p], LAMBDA t : st[t] # "terminated")
        ps      == {p \in Priorities : live(p) # <<>>}
        p       == IF ps = {} THEN 0 ELSE CHOOSE x \in ps : \A y \in ps : x >= y
    IN IF ps = {} THEN [next |-> IDLE, queue |-> [r \in Priorities |-> <<>>]]
       ELSE [next |-> Head(live(p)),
             queue |-> [r \in Priorities |-> IF r = p THEN Tail(live(r)) ELSE live(r)]]

(* A plausible bug in the repost: the preempted thread goes to the front.  *)
Repost_AtFront(q, t) == [q EXCEPT ![Prio[t]] = <<t>> \o @]

(* Reposting the preempted thread at the tail of its priority's queue.    *)
Repost(q, t) == [q EXCEPT ![Prio[t]] = Append(@, t)]

(* Switching to the picked thread, which starts a fresh time slice.        *)
SwitchTo(pk, st) ==
    /\ current' = pk.next
    /\ queue' = pk.queue
    /\ state' = IF pk.next = IDLE THEN st ELSE [st EXCEPT ![pk.next] = "running"]
    /\ slice' = TIMESLICE

-----------------------------------------------------------------------------
(* scheduler_init: the boot thread is running, every queue empty; the      *)
(* other threads have been created by thread_create and not posted.        *)
Init ==
    /\ state = [t \in Threads |-> IF t = MAIN THEN "running" ELSE "new"]
    /\ queue = [p \in Priorities |-> <<>>]
    /\ current = MAIN
    /\ slice = TIMESLICE

(* The test thread's cli(); scheduler_post(t); sti(): a created thread     *)
(* becomes Ready at the tail of its priority's queue.                      *)
scheduler_post(t) ==
    /\ current = MAIN
    /\ state[t] = "new"
    /\ state' = [state EXCEPT ![t] = "ready"]
    /\ queue' = [queue EXCEPT ![Prio[t]] = Append(@, t)]
    /\ UNCHANGED <<current, slice>>

(* A plausible bug in scheduler_tick: the slice counts one tick too many. *)
Expired_OffByOne(s) == s <= 0

(* The tick that decrements the slice to zero ends it.                     *)
Expired(s) == s <= 1

Preempts(t, cur, st) == st[t] = "ready" /\ (cur = IDLE \/ Prio[t] > Prio[cur])

(* scheduler_tick: the current thread's slice is decremented; when it runs *)
(* out, when a thread of higher priority is ready, or when the idle thread *)
(* is running, the current thread (if still running) is reposted and the   *)
(* next one picked.                                                        *)
scheduler_tick ==
    LET cur     == current
        higher  == \E t \in Threads : Preempts(t, cur, state)
        expired == cur # IDLE /\ Expired(slice)
    IN
    IF expired \/ higher \/ cur = IDLE
    THEN LET running == cur # IDLE /\ state[cur] = "running"
             st == IF running THEN [state EXCEPT ![cur] = "ready"] ELSE state
             q  == IF running THEN Repost(queue, cur) ELSE queue
         IN SwitchTo(Pick(q, st), st)
    ELSE /\ slice' = slice - 1
         /\ UNCHANGED <<state, queue, current>>

(* thread_exit by a running test thread: it is Terminated and the CPU     *)
(* goes to the next thread at once.                                        *)
thread_exit ==
    /\ current \notin {IDLE, MAIN}
    /\ LET st == [state EXCEPT ![current] = "terminated"]
       IN SwitchTo(Pick(queue, st), st)

(* test_proc.c: after its busy-wait the test thread writes                 *)
(* thread->state = STATE_TERMINATED to a thread it posted, which is still  *)
(* in a ready queue, with interrupts enabled.                              *)
TestTerminate(t) ==
    /\ current = MAIN
    /\ state[t] = "ready"
    /\ state' = [state EXCEPT ![t] = "terminated"]
    /\ UNCHANGED <<queue, current, slice>>

Next ==
    \/ scheduler_tick
    \/ thread_exit
    \/ \E t \in Threads : scheduler_post(t) \/ TestTerminate(t)

(* The PIT keeps interrupting: every tick eventually happens.             *)
Spec == Init /\ [][Next]_vars /\ WF_vars(scheduler_tick)

-----------------------------------------------------------------------------
TypeOK ==
    /\ state \in [Threads -> {"new", "ready", "running", "terminated"}]
    /\ queue \in [Priorities -> Seq(Threads)]
    /\ current \in Threads \cup {IDLE}
    /\ slice \in 1 .. TIMESLICE

(* Exactly one thread runs (the current one, unless IDLE runs), and every *)
(* Ready thread waits exactly once in the queue of its own priority, so    *)
(* that no post, repost or pick loses or duplicates a thread.              *)
SchedConsistent ==
    /\ \A t \in Threads : state[t] = "running" <=> t = current
    /\ \A t \in Threads : state[t] = "ready" =>
          \A p \in Priorities :
             Cardinality({i \in 1 .. Len(queue[p]) : queue[p][i] = t})
                = IF p = Prio[t] THEN 1 ELSE 0
    /\ current \notin Queued

NoStarvationAmongEquals ==
    \A t \in Threads :
        state[t] = "ready" ~>
            \/ state[t] # "ready"
            \/ \E u \in Threads : Prio[u] > Prio[t] /\ state[u] \in {"ready", "running"}
=============================================================================
