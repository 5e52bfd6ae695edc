------------------------------- MODULE Tasks -------------------------------
(***************************************************************************)
(* The kernel's task table and scheduler (aegis-kernel/src/tasks.rs) with  *)
(* the two interrupts that drive it: the LAPIC timer (cpu.rs) and the page *)
(* fault of a ring-3 task (cpu.rs, idt.rs), which goes through the         *)
(* kernel-resident supervisor (supervisor.rs).                             *)
(*                                                                         *)
(* One CPU, and interrupts are off in every handler: a handler is one      *)
(* action.  A switch saves the context that is executing into the frame of *)
(* the task it leaves and resumes the frame of the one it picks, so what   *)
(* matters of a frame is where it resumes.                                 *)
(***************************************************************************)
EXTENDS Integers, FiniteSets, FiniteSetsExt

CONSTANTS
    MaxTasks,     \* MAX_TASKS
    Boot,         \* how many tasks boot spawns
    Ring3,        \* the slots of ring-3 tasks
    Armed,        \* the tasks boot holds back with an arm_* hook
    Budget,       \* restarts the kernel supervisor allows each task; -1: not
                  \* supervised
    Controllers,  \* the tasks that may kill or restart others
    MaxGen        \* bound: occupants of one slot

TaskIdx == 0..(MaxTasks - 1)
Idle == -1        \* usize::MAX: the idle loop
TaskState == {"Ready", "Blocked", "Zombie"}

(* Where a saved frame resumes: at the entry point, in the task's own code, *)
(* inside a blocked ipc_call or ipc_serve, at the faulting instruction, or  *)
(* behind an exit.                                                          *)
Frame == {"entry", "user", "call", "serve", "fault", "exit"}

ASSUME TasksAssumption ==
    /\ MaxTasks \in Nat /\ Boot \in 1..MaxTasks /\ MaxGen \in Nat
    /\ Ring3 \subseteq TaskIdx /\ Controllers \subseteq TaskIdx
    /\ Armed \subseteq 0..(Boot - 1)
    /\ Budget \in [TaskIdx -> Nat \cup {-1}]

VARIABLES
    spawned,     \* SPAWNED: the high-water mark of the table
    state,       \* Task.state; "Free" for a slot never spawned
    generation,  \* Task.generation
    frame,       \* Task.frame: where the saved context resumes
    current,     \* CURRENT
    armed,       \* the hooks whose tick is still to come
    budget,      \* Child.budget_left of the kernel supervisor
    reborn,      \* history: restarted and not yet dispatched
    waited       \* history: switches that passed over a Ready task in a row

taskVars == <<spawned, state, generation, frame, current, armed, budget, reborn,
              waited>>

Init ==
    /\ spawned = Boot
    /\ state = [i \in TaskIdx |-> IF i >= Boot THEN "Free"
                                  ELSE IF i \in Armed THEN "Blocked" ELSE "Ready"]
    /\ generation = [i \in TaskIdx |-> 0]
    /\ frame = [i \in TaskIdx |-> "entry"]
    /\ current = Idle
    /\ armed = Armed
    /\ budget = Budget
    /\ reborn = [i \in TaskIdx |-> FALSE]
    /\ waited = [i \in TaskIdx |-> 0]

-----------------------------------------------------------------------------
(* Mutant: the search always starts at slot 0.                              *)
LowestReady(cur, st) ==
    LET ready == {i \in 0..(spawned - 1) : st[i] = "Ready"}
    IN IF ready = {} THEN Idle ELSE Min(ready)

(* schedule_next: the first Ready task after cur in slot order, cur itself  *)
(* last; the idle loop when no task is Ready.                               *)
ScheduleNext(cur, st) ==
    LET at(k) == IF cur + k < spawned THEN cur + k ELSE cur + k - spawned
        ready == {k \in 1..spawned : st[at(k)] = "Ready"}
    IN IF ready = {} THEN Idle ELSE at(Min(ready))

(* The switch: `live` is where the code being left will resume, st and fr    *)
(* the tables as the handler has left them.  Nothing is saved when the pick *)
(* is the context that is already running.                                  *)
Switch(live, st, fr, rb) ==
    LET next == ScheduleNext(current, st) IN
    /\ current' = next
    /\ frame' = IF next # current /\ current # Idle
                THEN [fr EXCEPT ![current] = live] ELSE fr
    /\ reborn' = IF next \notin {current, Idle} THEN [rb EXCEPT ![next] = FALSE] ELSE rb
    /\ waited' = [i \in TaskIdx |-> IF st[i] = "Ready" /\ i # next THEN waited[i] + 1
                                                                   ELSE 0]

Unblocked(st, S) == [i \in TaskIdx |-> IF i \in S THEN "Ready" ELSE st[i]]
Killed(st, i) == [st EXCEPT ![i] = "Zombie"]

(* timer_preempt: the hooks whose tick has come unblock their task, whatever *)
(* its state, once; then the switch.                                        *)
TimerPreempt(live, st, fr, rb) ==
    \E due \in SUBSET armed :
        /\ armed' = armed \ due
        /\ state' = Unblocked(st, due)
        /\ Switch(live, Unblocked(st, due), fr, rb)

(* timer_stub.                                                              *)
Tick ==
    /\ TimerPreempt("user", state, frame, reborn)
    /\ UNCHANGED <<spawned, generation, budget>>

(* restart_task, of a Zombie.                                               *)
Restarted(st, i) == [st EXCEPT ![i] = "Ready"]
FreshFrame(fr, i) == [fr EXCEPT ![i] = "entry"]

(* Mutants: a crash costs nothing; it costs even what is not there.         *)
BudgetKept(i) == budget
BudgetUnderflow(i) == [budget EXCEPT ![i] = @ - 1]

BudgetAfterCrash(i) == [budget EXCEPT ![i] = IF @ > 0 THEN @ - 1 ELSE @]

(* The page fault of the running ring-3 task: handle_crash restarts it while *)
(* it has budget; otherwise it is killed, and the notification of its death  *)
(* wakes the tasks of `wake`.  The stub then falls into timer_preempt, which *)
(* saves the fault handler's own context.                                   *)
Fault(wake) ==
    /\ current \in Ring3
    /\ budget' = BudgetAfterCrash(current)
    /\ IF budget[current] > 0
       THEN TimerPreempt("fault", Restarted(state, current), FreshFrame(frame, current),
                         [reborn EXCEPT ![current] = TRUE])
       ELSE TimerPreempt("fault", Unblocked(Killed(state, current), wake), frame, reborn)
    /\ UNCHANGED <<spawned, generation>>

(* exit of the Linux task: kill_current and switch_away_from.               *)
Exit ==
    /\ current \in Ring3
    /\ state' = Killed(state, current)
    /\ Switch("exit", Killed(state, current), frame, reborn)
    /\ UNCHANGED <<spawned, generation, armed, budget>>

Kill(i) ==
    /\ i < spawned
    /\ state' = Killed(state, i)
    /\ UNCHANGED <<spawned, generation, frame, current, armed, budget, reborn, waited>>

Restart(i) ==
    /\ i < spawned /\ state[i] = "Zombie"
    /\ state' = Restarted(state, i)
    /\ frame' = FreshFrame(frame, i)
    /\ reborn' = [reborn EXCEPT ![i] = TRUE]
    /\ UNCHANGED <<spawned, generation, current, armed, budget, waited>>

(* Where spawn_impl puts a task: behind the last one, or, with the table     *)
(* full, into the lowest Zombie slot.                                       *)
SpawnSlots == IF spawned < MaxTasks THEN {spawned}
              ELSE LET dead == {i \in TaskIdx : state[i] = "Zombie"}
                   IN IF dead = {} THEN {} ELSE {Min(dead)}

(* spawn_impl; a full table without a Zombie refuses.                       *)
Spawn ==
    \E i \in SpawnSlots :
        /\ generation[i] < MaxGen
        /\ spawned' = IF i = spawned THEN spawned + 1 ELSE spawned
        /\ generation' = [generation EXCEPT ![i] = IF i = spawned THEN 0 ELSE @ + 1]
        /\ state' = [state EXCEPT ![i] = "Ready"]
        /\ frame' = FreshFrame(frame, i)
        /\ reborn' = [reborn EXCEPT ![i] = FALSE]
        /\ waited' = [waited EXCEPT ![i] = 0]
        /\ UNCHANGED <<current, armed, budget>>

TaskNext ==
    \/ Tick
    \/ Fault({})
    \/ Exit
    \/ current \in Controllers /\ \E i \in TaskIdx : Kill(i) \/ Restart(i)
    \/ current \notin Ring3 /\ Spawn       \* called by kernel code only

(* The timer keeps firing, and a task that keeps getting the CPU with a      *)
(* faulting instruction ahead of it faults.                                 *)
TaskSpec == Init /\ [][TaskNext]_taskVars /\ WF_taskVars(Tick)
CrashingSpec ==
    TaskSpec /\ \A i \in Ring3 : SF_taskVars(current = i /\ Fault({}))

-----------------------------------------------------------------------------
(* Properties.                                                              *)

TypeOK ==
    /\ spawned \in 1..MaxTasks
    /\ state \in [TaskIdx -> TaskState \cup {"Free"}]
    /\ generation \in [TaskIdx -> 0..MaxGen]
    /\ frame \in [TaskIdx -> Frame]
    /\ current \in TaskIdx \cup {Idle}
    /\ armed \subseteq TaskIdx
    /\ budget \in [TaskIdx -> Nat \cup {-1}]
    /\ reborn \in [TaskIdx -> BOOLEAN]
    /\ waited \in [TaskIdx -> Nat]

(* schedule_next is a round robin, whatever the mix of timer ticks, faults,  *)
(* exits, kills, restarts and spawns: a Ready task is passed over by fewer  *)
(* switches than there are spawned tasks.                                   *)
BoundedWait ==
    \A i \in TaskIdx : i < spawned /\ state[i] = "Ready" => waited[i] < spawned

(* "never silently retried forever" (supervisor.rs): a task that faults      *)
(* every time it runs ends up dead, its restart budget spent.               *)
CrashLoopEnds == \A i \in Ring3 : <>[](state[i] = "Zombie")

(* "Rebuild a Zombie task's frame to its original entry point and stack so   *)
(* a supervised restart can re-run it" (restart_task): until a restarted    *)
(* task is dispatched, its frame is the one restart_task built.             *)
RestartReentersEntry == \A i \in TaskIdx : reborn[i] => frame[i] = "entry"
=============================================================================
