------------------------------ MODULE TaskIpc ------------------------------
(***************************************************************************)
(* Synchronous IPC and the capability tables of ring-3 tasks on top of the *)
(* task table: aegis-kernel/src/ipc.rs (endpoints, call/serve/reply, grant *)
(* and revoke, the kill notification), the task syscalls of supervisor.rs, *)
(* and the dispatch of syscall.rs.  Every task may issue any syscall its   *)
(* Ops allow, with any slots and arguments.                                *)
(*                                                                         *)
(* A syscall runs with interrupts off, so it is one action; a blocking one *)
(* ends in the switch and its return value is written into the blocked     *)
(* task's saved frame by whoever completes it.                             *)
(***************************************************************************)
EXTENDS Tasks

CONSTANTS
    MaxEps,       \* MAX_ENDPOINTS
    MaxCaps,      \* MAX_CAPS
    MaxEpGen,     \* bound: incarnations of one endpoint slot
    Msgs,         \* message payloads
    BootCaps,     \* the capability tables boot installs
    Ops,          \* Ops[t]: the syscalls of task t's program
    Suspendable,  \* the tasks the anomaly monitor may suspend
    BadPointers   \* may a program pass a buffer that fails validation?

Ep == 0..(MaxEps - 1)
NotifyEp == MaxEps - 1
CapSlot == 0..(MaxCaps - 1)
NoTask == -1      \* usize::MAX in Endpoint.caller and Endpoint.server

Right == {"SEND", "RECV", "GRANT", "READ", "CONTROL"}
EndpointRights == {"SEND", "RECV", "GRANT"}
NoCap == [kind |-> "None", index |-> 0, gen |-> 0, rights |-> {}]
Cap == [kind: {"Endpoint"}, index: Ep, gen: 0..MaxEpGen, rights: SUBSET Right]
       \cup [kind: {"Task"}, index: TaskIdx, gen: 0..MaxGen, rights: SUBSET Right]
       \cup {NoCap}
Pointers == IF BadPointers THEN BOOLEAN ELSE {TRUE}

(* The kernel's death record, as a payload.                                 *)
Death == "death"

(* Mutant: the endpoint is not marked in use.                               *)
NotInUse(gen, isActive) ==
    [active |-> FALSE, generation |-> gen, state |-> "Idle", msg |-> Death,
     caller |-> NoTask, server |-> NoTask]

NewEndpoint(gen, isActive) ==
    [active |-> isActive, generation |-> gen, state |-> "Idle", msg |-> Death,
     caller |-> NoTask, server |-> NoTask]

(* What a syscall returns: an error, a success, a request with its sender    *)
(* (ipc_serve) or the server's reply (ipc_call).                            *)
Err == <<"err">>
Ok == <<"ok">>
Request(from, m) == <<"req", from, m>>
Reply(m) == <<"reply", m>>

ASSUME IpcAssumption ==
    /\ MaxEps \in Nat \ {0} /\ MaxCaps \in Nat \ {0} /\ MaxEpGen \in Nat
    /\ BootCaps \in [TaskIdx -> [CapSlot -> Cap]]
    /\ \A t \in TaskIdx, s \in CapSlot :
          /\ BootCaps[t][s].kind = "Endpoint" => BootCaps[t][s].index = NotifyEp
          /\ BootCaps[t][s].kind = "Task" => BootCaps[t][s].index < Boot
          /\ BootCaps[t][s].gen = 0
    /\ Suspendable \subseteq TaskIdx
    /\ BadPointers \in BOOLEAN

VARIABLES
    caps,        \* Task.caps
    ep,          \* ENDPOINTS
    ret,         \* the return register of each task, live or in its frame
    blocked_ep,  \* Task.blocked_ep
    suspended,   \* GrantLedger: the agents whose grants are frozen
    lives        \* history: how many tasks have occupied each slot

ipcVars == <<caps, ep, ret, blocked_ep, suspended, lives>>
allVars == <<taskVars, ipcVars>>

IpcInit ==
    /\ Init
    /\ caps = BootCaps
    /\ ep = [e \in Ep |-> NewEndpoint(0, e = NotifyEp)]
    /\ ret = [t \in TaskIdx |-> Ok]
    /\ blocked_ep = [t \in TaskIdx |-> NoTask]
    /\ suspended = {}
    /\ lives = [t \in TaskIdx |-> IF t < Boot THEN 1 ELSE 0]

-----------------------------------------------------------------------------
(* The identity check of caps_endpoint and caps_task.                       *)
Resolves(c) == IF c.kind = "Endpoint" THEN ep[c.index].generation = c.gen
                                      ELSE generation[c.index] = c.gen

CapsEndpoint(t, s, need) ==
    caps[t][s].kind = "Endpoint" /\ need \in caps[t][s].rights /\ Resolves(caps[t][s])
CapsTask(t, s, need) ==
    caps[t][s].kind = "Task" /\ need \in caps[t][s].rights /\ Resolves(caps[t][s])

Does(op) == current \in Ring3 /\ op \in Ops[current]
Return(v) == ret' = [ret EXCEPT ![current] = v]

(* unblock_task and restart_task also clear blocked_ep.                     *)
Unwaited(S) == blocked_ep' = [t \in TaskIdx |-> IF t \in S THEN NoTask ELSE blocked_ep[t]]

(* A refused syscall.                                                       *)
Refuse ==
    /\ Return(Err)
    /\ UNCHANGED <<taskVars, caps, ep, blocked_ep, suspended, lives>>

(* ipc_endpoint_create: the lowest inactive endpoint gets a new generation   *)
(* before the caller's table is searched; without a free slot it is         *)
(* deactivated again.                                                       *)
EndpointCreate ==
    /\ Does("create")
    /\ LET free == {e \in Ep : ~ ep[e].active}
           slots == {s \in CapSlot : caps[current][s].kind = "None"}
           id == Min(free)
           gen == ep[id].generation + 1
       IN \/ free = {} /\ Refuse
          \/ /\ free # {} /\ gen <= MaxEpGen
             /\ ep' = [ep EXCEPT ![id] = NewEndpoint(gen, slots # {})]
             /\ IF slots = {}
                THEN Return(Err) /\ UNCHANGED caps
                ELSE /\ Return(Ok)
                     /\ caps' = [caps EXCEPT ![current][Min(slots)] =
                                   [kind |-> "Endpoint", index |-> id, gen |-> gen,
                                    rights |-> EndpointRights]]
             /\ UNCHANGED <<taskVars, blocked_ep, suspended, lives>>

(* Mutant: GRANT is not asked for.                                          *)
AnyCap(s) == current \notin suspended /\ caps[current][s].kind # "None"

MayDelegate(s) ==
    /\ current \notin suspended
    /\ caps[current][s].kind # "None" /\ "GRANT" \in caps[current][s].rights

(* ipc_cap_grant: the caller's slot is copied as it is over the             *)
(* recipient's slot.                                                        *)
CapGrant(dst, src, slot) ==
    /\ Does("grant")
    /\ \/ ~ MayDelegate(src) /\ Refuse
       \/ /\ MayDelegate(src)
          /\ caps' = [caps EXCEPT ![dst][slot] = caps[current][src]]
          /\ Return(Ok)
          /\ UNCHANGED <<taskVars, ep, blocked_ep, suspended, lives>>

SameObject(c, d) == c.kind = d.kind /\ c.index = d.index /\ c.gen = d.gen

(* ipc_cap_revoke: the recipient's slot must name the same object.          *)
CapRevoke(dst, slot, src) ==
    LET mine == caps[current][src]
        allowed == /\ mine.kind # "None" /\ "GRANT" \in mine.rights
                   /\ SameObject(caps[dst][slot], mine)
    IN /\ Does("revoke")
       /\ \/ ~ allowed /\ Refuse
          \/ /\ allowed
             /\ caps' = [caps EXCEPT ![dst][slot] = NoCap]
             /\ Return(Ok)
             /\ UNCHANGED <<taskVars, ep, blocked_ep, suspended, lives>>

-----------------------------------------------------------------------------
(* block_current and switch_away_from, with st the table after the handler's *)
(* own wake-ups.                                                            *)
BlockAndSwitch(e, where, st) ==
    LET after == [st EXCEPT ![current] = "Blocked"] IN
    /\ state' = after
    /\ Switch(where, after, frame, reborn)
    /\ UNCHANGED <<spawned, generation, armed, budget, caps, suspended, lives>>

(* Mutant: the caller is not recorded.                                      *)
EpForgetsCaller(e, m) ==
    [ep EXCEPT ![e].msg = m, ![e].server = NoTask, ![e].state = "Idle"]

EpDelivered(e, m) ==
    [ep EXCEPT ![e].msg = m, ![e].server = NoTask, ![e].state = "Idle",
               ![e].caller = current]

(* ipc_call on an endpoint where a server waits.  A message the server's      *)
(* buffer no longer takes (recvOk) is left in the endpoint and the call     *)
(* refused.  Else the server is taken off the endpoint and the caller put   *)
(* on it, and only then is the caller's reply buffer validated.             *)
CallWaiting(e, m, replyOk, recvOk) ==
    LET srv == ep[e].server IN
    /\ ep' = IF recvOk THEN EpDelivered(e, m) ELSE [ep EXCEPT ![e].msg = m]
    /\ IF recvOk /\ replyOk
       THEN /\ ret' = [ret EXCEPT ![srv] = Request(current, m)]
            /\ blocked_ep' = [blocked_ep EXCEPT ![srv] = NoTask, ![current] = e]
            /\ BlockAndSwitch(e, "call", [state EXCEPT ![srv] = "Ready"])
       ELSE Return(Err) /\ UNCHANGED <<taskVars, caps, blocked_ep, suspended, lives>>

(* ipc_call with no server waiting: the message is parked, over whatever was *)
(* parked before.                                                           *)
CallParked(e, m, replyOk) ==
    /\ ep' = [ep EXCEPT ![e].msg = m, ![e].state = "SendWaiting", ![e].caller = current]
    /\ IF replyOk
       THEN /\ blocked_ep' = [blocked_ep EXCEPT ![current] = e]
            /\ BlockAndSwitch(e, "call", state)
            /\ UNCHANGED ret
       ELSE Return(Err) /\ UNCHANGED <<taskVars, caps, blocked_ep, suspended, lives>>

IpcCall(s, m, msgOk) ==
    LET e == caps[current][s].index IN
    /\ Does("call")
    /\ \/ ~ (CapsEndpoint(current, s, "SEND") /\ msgOk) /\ Refuse
       \/ /\ CapsEndpoint(current, s, "SEND") /\ msgOk
          /\ \E replyOk \in Pointers :
                IF ep[e].state = "RecvWaiting"
                THEN \E recvOk \in Pointers : CallWaiting(e, m, replyOk, recvOk)
                ELSE CallParked(e, m, replyOk)

ServeParked(e) ==
    /\ Return(Request(ep[e].caller, ep[e].msg))
    /\ ep' = [ep EXCEPT ![e].state = "Idle"]
    /\ UNCHANGED <<taskVars, caps, blocked_ep, suspended, lives>>

(* Mutant: the endpoint does not learn that a server waits.                 *)
EpIgnoresServer(e) == [ep EXCEPT ![e].server = current]

EpServing(e) == [ep EXCEPT ![e].state = "RecvWaiting", ![e].server = current]

ServeWait(e) ==
    /\ ep' = EpServing(e)
    /\ blocked_ep' = [blocked_ep EXCEPT ![current] = e]
    /\ BlockAndSwitch(e, "serve", state)
    /\ UNCHANGED ret

(* ipc_serve: a parked call is taken at once, otherwise the server waits.   *)
IpcServe(s, bufOk) ==
    LET e == caps[current][s].index IN
    /\ Does("serve")
    /\ \/ ~ (CapsEndpoint(current, s, "RECV") /\ bufOk) /\ Refuse
       \/ /\ CapsEndpoint(current, s, "RECV") /\ bufOk
          /\ IF ep[e].state = "SendWaiting" THEN ServeParked(e) ELSE ServeWait(e)

(* Mutant: the endpoint keeps its state.                                     *)
EpKeepsState(e) == [ep EXCEPT ![e].caller = NoTask]

AwaitsReply(e, caller) == ep[e].caller = caller
EpAnswered(e) == [ep EXCEPT ![e].caller = NoTask, ![e].state = "Idle"]

(* ipc_reply: `caller` must be the one recorded on the endpoint.            *)
IpcReply(s, caller, m, buffersOk) ==
    LET e == caps[current][s].index
        allowed == CapsEndpoint(current, s, "RECV") /\ AwaitsReply(e, caller) /\ buffersOk
    IN /\ Does("reply")
       /\ \/ ~ allowed /\ Refuse
          \/ /\ allowed
             /\ ret' = [ret EXCEPT ![caller] = Reply(m), ![current] = Ok]
             /\ ep' = EpAnswered(e)
             /\ state' = [state EXCEPT ![caller] = "Ready"]
             /\ blocked_ep' = [blocked_ep EXCEPT ![caller] = NoTask]
             /\ UNCHANGED <<spawned, generation, frame, current, armed, budget, reborn,
                            waited, caps, suspended, lives>>

-----------------------------------------------------------------------------
(* Task control, faults and the scheduler.                                 *)

(* notify_task_kill for the death of `child`: delivered to a waiting server  *)
(* whose buffer still takes it (recvOk), else parked over whatever record   *)
(* was parked before.  A waiting server is taken off either way.            *)
Notify(child, recvOk) ==
    LET e == ep[NotifyEp]
        waiting == e.state = "RecvWaiting"
        delivered == waiting /\ recvOk
    IN /\ ep' = [ep EXCEPT ![NotifyEp].msg = Death, ![NotifyEp].caller = child,
                           ![NotifyEp].state = IF delivered THEN "Idle" ELSE "SendWaiting",
                           ![NotifyEp].server = IF waiting THEN NoTask ELSE @]
       /\ ret' = IF delivered THEN [ret EXCEPT ![e.server] = Request(child, Death)] ELSE ret

NotifyWakes(recvOk) ==
    IF ep[NotifyEp].state = "RecvWaiting" /\ recvOk THEN {ep[NotifyEp].server} ELSE {}

(* The page fault of the running task, with the notification of a death.    *)
IpcFault(recvOk) ==
    /\ Does("fault")
    /\ Fault(NotifyWakes(recvOk))
    /\ IF budget[current] > 0 THEN UNCHANGED <<ep, ret>> ELSE Notify(current, recvOk)
    /\ Unwaited((armed \ armed')
                \cup IF budget[current] > 0 THEN {current} ELSE NotifyWakes(recvOk))
    /\ UNCHANGED <<caps, suspended, lives>>

IpcExit == Does("exit") /\ Exit /\ UNCHANGED ipcVars

IpcTick ==
    /\ Tick
    /\ Unwaited(armed \ armed')
    /\ UNCHANGED <<caps, ep, ret, suspended, lives>>

(* supervisor::task_kill and task_restart.                                  *)
TaskKill(s) ==
    /\ Does("kill")
    /\ \/ ~ CapsTask(current, s, "CONTROL") /\ Refuse
       \/ /\ CapsTask(current, s, "CONTROL")
          /\ Kill(caps[current][s].index)
          /\ Return(Ok)
          /\ UNCHANGED <<caps, ep, blocked_ep, suspended, lives>>

TaskRestart(s) ==
    LET i == caps[current][s].index
        allowed == CapsTask(current, s, "CONTROL") /\ state[i] = "Zombie"
    IN /\ Does("restart")
       /\ \/ ~ allowed /\ Refuse
          \/ /\ allowed
             /\ Restart(i)
             /\ Return(Ok) /\ Unwaited({i})
             /\ UNCHANGED <<caps, ep, suspended, lives>>

(* Mutant: the table of the previous occupant is kept.                      *)
TableKept(i) == caps

(* Task::new: a task is born with an empty table.                           *)
BirthTable(i) == [caps EXCEPT ![i] = [s \in CapSlot |-> NoCap]]

(* spawn_impl is called by kernel code, never by a syscall.                 *)
IpcSpawn ==
    /\ current \notin Ring3
    /\ Spawn
    /\ \E i \in SpawnSlots :
          /\ caps' = BirthTable(i)
          /\ ret' = [ret EXCEPT ![i] = Ok]
          /\ Unwaited({i})
          /\ lives' = [lives EXCEPT ![i] = @ + 1]
    /\ UNCHANGED <<ep, suspended>>

(* The anomaly monitor freezes an agent's grants; a human resumes them.     *)
SuspendOrResume(t) ==
    /\ suspended' = IF t \in suspended THEN suspended \ {t} ELSE suspended \cup {t}
    /\ UNCHANGED <<taskVars, caps, ep, ret, blocked_ep, lives>>

-----------------------------------------------------------------------------
CapSyscall ==
    \/ EndpointCreate
    \/ \E dst \in TaskIdx, a, b \in CapSlot : CapGrant(dst, a, b) \/ CapRevoke(dst, a, b)
    \/ \E s \in CapSlot : TaskKill(s) \/ TaskRestart(s)

MsgSyscall ==
    \E s \in CapSlot :
        \/ \E m \in Msgs, msgOk \in Pointers : IpcCall(s, m, msgOk)
        \/ \E bufOk \in Pointers : IpcServe(s, bufOk)
        \/ \E c \in TaskIdx, m \in Msgs, ok \in Pointers : IpcReply(s, c, m, ok)

IpcNext ==
    \/ IpcTick
    \/ \E recvOk \in Pointers : IpcFault(recvOk)
    \/ IpcExit
    \/ IpcSpawn
    \/ CapSyscall
    \/ MsgSyscall
    \/ \E t \in Suspendable : SuspendOrResume(t)

IpcSpec == IpcInit /\ [][IpcNext]_allVars

-----------------------------------------------------------------------------
(* Properties.                                                             *)

Endpoint == [active: BOOLEAN, generation: 0..MaxEpGen,
             state: {"Idle", "SendWaiting", "RecvWaiting"}, msg: Msgs \cup {Death},
             caller: TaskIdx \cup {NoTask}, server: TaskIdx \cup {NoTask}]

IpcTypeOK ==
    /\ TypeOK
    /\ caps \in [TaskIdx -> [CapSlot -> Cap]]
    /\ ep \in [Ep -> Endpoint]
    /\ \A t \in TaskIdx : \/ ret[t] \in {Err, Ok}
                          \/ \E c \in TaskIdx, m \in Msgs \cup {Death} :
                                ret[t] \in {Reply(m), Request(c, m)}
    /\ blocked_ep \in [TaskIdx -> Ep \cup {NoTask}]
    /\ suspended \subseteq TaskIdx

(* An endpoint is never taken from its holders: a capability that resolves   *)
(* keeps resolving for as long as it stays in its slot, whatever endpoints  *)
(* other tasks create, with a full table too (ipc_endpoint_create recycles  *)
(* only an index that is not active).                                       *)
EndpointNameStays ==
    [][\A t \in TaskIdx, s \in CapSlot :
         LET c == caps[t][s] IN
         c.kind = "Endpoint" /\ Resolves(c) /\ caps'[t][s] = c =>
           ep'[c.index].generation = c.gen]_allVars

(* Authority moves only by delegation: a capability that appears in a slot   *)
(* names an endpoint the running task has just created for itself, or is a  *)
(* copy of one the running task holds with GRANT while it is not suspended. *)
AuthorityMovesByGrant ==
    [][\A t \in TaskIdx, s \in CapSlot :
         caps'[t][s] \notin {caps[t][s], NoCap} =>
           \/ /\ t = current /\ caps'[t][s].kind = "Endpoint"
              /\ ep[caps'[t][s].index].generation < caps'[t][s].gen
           \/ /\ current \notin suspended
              /\ \E r \in CapSlot : /\ caps[current][r] = caps'[t][s]
                                    /\ "GRANT" \in caps[current][r].rights]_allVars

(* A new occupant of a slot inherits nothing: its own table is empty, and no *)
(* capability to the previous occupant resolves to it (spawn_impl: "fails   *)
(* resolution from here on ... instead of silently re-targeting this task").*)
NoInheritedAuthority ==
    [][\A i \in TaskIdx : lives'[i] # lives[i] =>
         /\ \A s \in CapSlot : caps'[i][s] = NoCap
         /\ \A t \in TaskIdx, s \in CapSlot :
               ~ /\ caps'[t][s].kind = "Task" /\ caps'[t][s].index = i
                 /\ caps'[t][s].gen = generation'[i]]_allVars

(* "Blocks the caller until the server replies" (ipc_call): a task blocked   *)
(* in a call is the caller its endpoint will answer.                        *)
CallerKeepsWaiting ==
    \A t \in TaskIdx : state[t] = "Blocked" /\ frame[t] = "call" =>
        ep[blocked_ep[t]].caller = t

(* "Blocks the server until a call arrives" (ipc_serve): a task blocked in   *)
(* ipc_serve is the server its endpoint will deliver to.                    *)
ServerKeepsWaiting ==
    \A t \in TaskIdx : state[t] = "Blocked" /\ frame[t] = "serve" =>
        ep[blocked_ep[t]].state = "RecvWaiting" /\ ep[blocked_ep[t]].server = t

(* "It must be the task actually blocked awaiting a reply on this endpoint"    *)
(* (ipc_reply): the caller an endpoint answers and forgets is blocked in a   *)
(* call on that endpoint, not running, dead or waiting on another one.       *)
ReplyReachesAWaitingCaller ==
    [][\A e \in Ep :
         ep[e].caller # NoTask /\ ep'[e].caller = NoTask =>
           LET t == ep[e].caller IN
           state[t] = "Blocked" /\ frame[t] = "call" /\ blocked_ep[t] = e]_allVars
=============================================================================
