-------------------------- MODULE CapabilityKernel --------------------------
(***************************************************************************)
(* The capability kernel of aegis/crates/capability-core (kernel.rs,       *)
(* cspace.rs, objects.rs, rights.rs, batch.rs): per-task tables of         *)
(* capability slots, the derivation graph between capability instances,    *)
(* expiry, and every kernel operation that reads or changes them.          *)
(*                                                                         *)
(* A call holds `&mut Kernel`, so each public operation is one atomic      *)
(* action.  A refused call returns before it changes anything but the      *)
(* audit log, except where the code says otherwise (see CreateRefused).    *)
(***************************************************************************)
EXTENDS Integers, FiniteSets, Sequences, FiniteSetsExt

CONSTANTS
    MaxObj,         \* bound: objects ever created
    MaxCap,         \* bound: capability instances ever minted
    NumSlots,       \* CSpace::SLOTS
    MaxTime,        \* bound: the kernel clock
    MaxQueue,       \* bound: messages waiting in one endpoint
    RegionLen,      \* bytes of a memory region
    CreatableKinds, \* the kinds of object an instance creates
    RightsArgs,     \* rights a caller may ask for in copy/grant
    ExpiryArgs,     \* expiries a caller may ask for in grant
    Messages,       \* message payloads
    Bytes,          \* byte values written to regions
    RunningArgs,    \* what task_spawn (TRUE) and task_kill (FALSE) set
    Batches         \* the submissions given to batch_submit

Rights == {"READ", "WRITE", "CONTROL", "SEND", "RECV", "GRANT", "RECEIVE"}
ObjectKind == {"Task", "Endpoint", "MemRegion", "GrantRoot", "Creator"}
ObjectId == 1..MaxObj
CapId == 1..MaxCap
Slot == 0..(NumSlots - 1)
Place == ObjectId \X Slot
Never == MaxTime + 1     \* expires_at = None: later than any time
Expiry == 0..Never
Root == 0                \* parent = None: minted fresh
Absent == -1             \* no entry in the map
CapInstance == [obj: ObjectId, rights: SUBSET Rights,
                parent: CapId \cup {Root}, expires_at: Expiry]
Empty == [obj |-> 0, rights |-> {}, parent |-> Root, expires_at |-> 0]
Nowhere == <<0, 0>>

(* An entry of a submission: a read or a write of `len` bytes at `offset`.  *)
BatchEntry == [op: {"MemRead", "MemWrite"}, region: Slot, offset: Nat,
               len: Nat, byte: Bytes]

ASSUME Bounds ==
    /\ MaxObj \in Nat /\ MaxObj >= 2
    /\ MaxCap \in Nat /\ MaxCap >= 2
    /\ NumSlots \in Nat /\ NumSlots >= 2
    /\ MaxTime \in Nat
    /\ MaxQueue \in Nat
    /\ RegionLen \in Nat
ASSUME Arguments ==
    /\ CreatableKinds \subseteq ObjectKind \ {"Creator"}
    /\ RightsArgs \subseteq SUBSET Rights
    /\ ExpiryArgs \subseteq Expiry
    /\ 0 \in Bytes /\ RunningArgs \subseteq BOOLEAN
    /\ Batches \subseteq Seq(BatchEntry)

VARIABLES
    now,        \* the kernel clock
    next_obj,   \* last object id handed out
    next_cap,   \* last capability id handed out
    kind,       \* objects: the kind of each object, "none" if it does not exist
    running,    \* TaskObj.running
    queue,      \* EndpointObj.queue
    data,       \* MemRegionObj.data
    cspaces,    \* the instance in each slot of each task's table
    parents,    \* CapId -> the capability it was derived from
    capids,     \* (task, slot) -> CapId
    locations,  \* CapId -> (task, slot)
    audit,      \* how many audit records the last operation appended
    lineage,    \* history: every capability each one was ever derived from
    revoked,    \* history: the capabilities that revoke removed
    minter      \* history: the caller of the last operation that minted

objectVars == <<kind, running, queue, data, next_obj>>
capVars == <<next_cap, cspaces, parents, capids, locations, lineage, revoked,
             minter>>
vars == <<now, objectVars, capVars, audit>>

-----------------------------------------------------------------------------
(* Internals.                                                              *)

Live == {c \in CapId : locations[c] # Nowhere}
Occupied(t, s) == cspaces[<<t, s>>] # Empty
FreeSlots(t) == {s \in Slot : ~ Occupied(t, s)}
FirstFree(t) == CHOOSE s \in FreeSlots(t) : \A r \in FreeSlots(t) : s <= r
Task(t) == kind[t] = "Task"

(* lookup: the slot is occupied and its deadline has not passed.  It stays  *)
(* usable in the tick of the deadline itself.                               *)
Lookup(t, s) == Occupied(t, s) /\ now <= cspaces[<<t, s>>].expires_at

(* lookup, then require_right for each right of `need`.                     *)
Usable(t, s, need) == Lookup(t, s) /\ need \subseteq cspaces[<<t, s>>].rights

Names(t, s, k) == kind[cspaces[<<t, s>>].obj] = k

(* Mutants: the request counted from the parent's deadline; no clamp.       *)
RelativeExpiry(requested, parent) == requested + parent
UnclampedExpiry(requested, parent) == requested

ClampExpiry(requested, parent) == IF requested <= parent THEN requested ELSE parent

(* mint_into, once a free slot s of dst is known to exist.                  *)
MintInto(dst, s, obj, rights, parent, parent_exp, requested) ==
    LET cid == next_cap + 1 IN
    /\ cspaces' = [cspaces EXCEPT ![<<dst, s>>] =
                     [obj |-> obj, rights |-> rights, parent |-> parent,
                      expires_at |-> ClampExpiry(requested, parent_exp)]]
    /\ next_cap' = cid
    /\ parents' = [parents EXCEPT ![cid] = parent]
    /\ capids' = [capids EXCEPT ![<<dst, s>>] = cid]
    /\ locations' = [locations EXCEPT ![cid] = <<dst, s>>]
    /\ lineage' = [lineage EXCEPT ![cid] =
                     IF parent = Root THEN {} ELSE lineage[parent] \cup {parent}]
    /\ UNCHANGED revoked

(* Mutant: the entry in `parents` is forgotten.                             *)
RemoveCapsKeepParents(doomed) ==
    /\ cspaces' = [p \in Place |->
                     IF capids[p] \in doomed THEN Empty ELSE cspaces[p]]
    /\ capids' = [p \in Place |->
                     IF capids[p] \in doomed THEN Absent ELSE capids[p]]
    /\ locations' = [c \in CapId |->
                     IF c \in doomed THEN Nowhere ELSE locations[c]]
    /\ UNCHANGED <<parents, next_cap, lineage, minter>>

(* remove_cap for every capability of the set.                              *)
RemoveCaps(doomed) ==
    /\ cspaces' = [p \in Place |->
                     IF capids[p] \in doomed THEN Empty ELSE cspaces[p]]
    /\ capids' = [p \in Place |->
                     IF capids[p] \in doomed THEN Absent ELSE capids[p]]
    /\ locations' = [c \in CapId |->
                     IF c \in doomed THEN Nowhere ELSE locations[c]]
    /\ parents' = [c \in CapId |-> IF c \in doomed THEN Absent ELSE parents[c]]
    /\ UNCHANGED <<next_cap, lineage, minter>>

(* The records one operation appends to the audit log.                      *)
Audited(n) == audit' = n

(* guarded: an error is recorded and nothing else has changed.              *)
Refused == Audited(1) /\ UNCHANGED <<now, objectVars, capVars>>

-----------------------------------------------------------------------------
(* Boot and creation.                                                      *)

(* boot: the root task (object 1) with its self-cap and the only Creator.   *)
Init ==
    /\ now = 0 /\ next_obj = 2 /\ next_cap = 2
    /\ kind = [o \in ObjectId |-> CASE o = 1 -> "Task" [] o = 2 -> "Creator"
                                    [] OTHER -> "none"]
    /\ running = [o \in ObjectId |-> o = 1]
    /\ queue = [o \in ObjectId |-> <<>>]
    /\ data = [o \in ObjectId |-> [i \in 1..RegionLen |-> 0]]
    /\ cspaces = [p \in Place |->
                    IF p \in {<<1, 0>>, <<1, 1>>}
                    THEN [obj |-> p[2] + 1, rights |-> Rights, parent |-> Root,
                          expires_at |-> Never]
                    ELSE Empty]
    /\ parents = [c \in CapId |-> IF c \in {1, 2} THEN Root ELSE Absent]
    /\ capids = [p \in Place |-> IF p \in {<<1, 0>>, <<1, 1>>} THEN p[2] + 1
                                                              ELSE Absent]
    /\ locations = [c \in CapId |-> IF c \in {1, 2} THEN <<1, c - 1>> ELSE Nowhere]
    /\ lineage = [c \in CapId |-> {}]
    /\ audit = 1 /\ revoked = {} /\ minter = 1

(* Mutant: the clock is set rather than advanced.                           *)
SetClock ==
    /\ now' \in 0..MaxTime
    /\ UNCHANGED <<objectVars, capVars, audit>>

(* advance: the clock, which kills capabilities without needing one.        *)
Advance ==
    /\ now < MaxTime
    /\ now' = now + 1
    /\ UNCHANGED <<objectVars, capVars, audit>>

RequireCreator(t, s) == Lookup(t, s) /\ Names(t, s, "Creator")

(* fresh_obj and objects.insert, shared by the create_* operations.         *)
NewObject(k) ==
    /\ next_obj < MaxObj
    /\ next_obj' = next_obj + 1
    /\ kind' = [kind EXCEPT ![next_obj + 1] = k]
    /\ UNCHANGED <<now, running, queue, data>>

(* The caller's table is full: mint_into fails after objects.insert, so the *)
(* object stays behind, with no capability to it anywhere.                  *)
CreateRefused(t, s, k) ==
    /\ RequireCreator(t, s) /\ FreeSlots(t) = {}
    /\ NewObject(k)
    /\ Audited(1)
    /\ UNCHANGED capVars

(* create_task: a stopped task.  The caller gets a fresh cap with all       *)
(* rights, and the child's self-cap is derived from that cap.               *)
CreateTask(t, s) ==
    /\ RequireCreator(t, s) /\ FreeSlots(t) # {}
    /\ next_cap + 2 <= MaxCap
    /\ NewObject("Task")
    /\ LET u == next_obj + 1
           mine == <<t, FirstFree(t)>>
           self == <<u, 0>>
           c == next_cap + 1
           cap(p) == [obj |-> u, rights |-> Rights, parent |-> p,
                      expires_at |-> Never]
       IN /\ cspaces' = [cspaces EXCEPT ![mine] = cap(Root), ![self] = cap(c)]
          /\ capids' = [capids EXCEPT ![mine] = c, ![self] = c + 1]
          /\ locations' = [locations EXCEPT ![c] = mine, ![c + 1] = self]
          /\ parents' = [parents EXCEPT ![c] = Root, ![c + 1] = c]
          /\ lineage' = [lineage EXCEPT ![c] = {}, ![c + 1] = {c}]
          /\ next_cap' = c + 1
    /\ minter' = t /\ UNCHANGED revoked
    /\ Audited(1)

CreationRights(k) == CASE k = "Endpoint" -> {"SEND", "RECV", "GRANT"}
                       [] k = "MemRegion" -> {"READ", "WRITE", "GRANT"}
                       [] k = "GrantRoot" -> {"GRANT"}
                       [] OTHER -> Rights

(* create_endpoint, create_mem and create_grant_root.                       *)
CreateObject(t, s, k) ==
    /\ RequireCreator(t, s) /\ FreeSlots(t) # {}
    /\ next_cap < MaxCap
    /\ NewObject(k)
    /\ MintInto(t, FirstFree(t), next_obj + 1, CreationRights(k), Root, Never, Never)
    /\ minter' = t
    /\ Audited(1)

Create(t, s) ==
    \E k \in CreatableKinds :
        \/ CreateRefused(t, s, k)
        \/ k = "Task" /\ CreateTask(t, s)
        \/ k # "Task" /\ CreateObject(t, s, k)

-----------------------------------------------------------------------------
(* Derivation.                                                             *)

(* Mutant: the rights asked for are not masked by the source's.             *)
DeriveUnmasked(t, s, dst, rights, parent, requested) ==
    /\ FreeSlots(dst) # {} /\ next_cap < MaxCap
    /\ MintInto(dst, FirstFree(dst), cspaces[<<t, s>>].obj, rights, parent,
                cspaces[<<t, s>>].expires_at, requested)
    /\ minter' = t
    /\ Audited(1)
    /\ UNCHANGED <<now, objectVars>>

(* The common end of copy, grant and grant_mint: mint what slot s of t      *)
(* holds, narrowed, into dst, as a child of the capability `parent`.  A     *)
(* full table refuses the call.                                             *)
Derive(t, s, dst, rights, parent, requested) ==
    LET src == cspaces[<<t, s>>] IN
    \/ /\ FreeSlots(dst) = {}
       /\ Refused
    \/ /\ FreeSlots(dst) # {} /\ next_cap < MaxCap
       /\ MintInto(dst, FirstFree(dst), src.obj, rights \cap src.rights, parent,
                   src.expires_at, requested)
       /\ minter' = t
       /\ Audited(1)
       /\ UNCHANGED <<now, objectVars>>

Copy(t, s, rights) ==
    /\ Usable(t, s, {"GRANT"})
    /\ Derive(t, s, t, rights, capids[<<t, s>>], Never)

(* The slot d of t names a task that consents to receive capabilities.      *)
Consents(t, d) == Lookup(t, d) /\ Names(t, d, "Task") /\ Usable(t, d, {"RECEIVE"})

Grant(t, s, d, rights, requested) ==
    /\ Usable(t, s, {"GRANT"}) /\ Consents(t, d)
    /\ Derive(t, s, cspaces[<<t, d>>].obj, rights, capids[<<t, s>>], requested)

(* grant_mint: the child of the grant root g, clamped by the source s.      *)
GrantMint(t, g, s, d, rights, requested) ==
    /\ Lookup(t, g) /\ Names(t, g, "GrantRoot") /\ Usable(t, g, {"GRANT"})
    /\ Usable(t, s, {"GRANT"}) /\ Consents(t, d)
    /\ Derive(t, s, cspaces[<<t, d>>].obj, rights, capids[<<t, g>>], requested)

(* destroy: this instance only.  It asks for no right.                      *)
Destroy(t, s) ==
    /\ Lookup(t, s)
    /\ RemoveCaps({capids[<<t, s>>]})
    /\ Audited(1)
    /\ UNCHANGED <<now, objectVars, revoked>>

(* The capabilities the walk over `parents` reaches from c: the least set    *)
(* that holds c and is closed under "derived from a member".                *)
Closed(S) == \A d \in Live : parents[d] \in S => d \in S

(* Mutant: the walk stays in the caller's table.                            *)
SameTable(c) ==
    {d \in Live : /\ locations[d][1] = locations[c][1]
                  /\ \A S \in SUBSET Live : c \in S /\ Closed(S) => d \in S}

Subtree(c) == {d \in Live : \A S \in SUBSET Live : c \in S /\ Closed(S) => d \in S}

Revoke(t, s) ==
    /\ Usable(t, s, {"GRANT"})
    /\ LET doomed == Subtree(capids[<<t, s>>]) IN
       /\ RemoveCaps(doomed)
       /\ revoked' = revoked \cup doomed
    /\ Audited(1)
    /\ UNCHANGED <<now, objectVars>>

-----------------------------------------------------------------------------
(* Endpoints, memory regions, batches and task control.                    *)

EpSend(t, s, m) ==
    /\ Usable(t, s, {"SEND"}) /\ Names(t, s, "Endpoint")
    /\ LET o == cspaces[<<t, s>>].obj IN
       /\ Len(queue[o]) < MaxQueue
       /\ queue' = [queue EXCEPT ![o] = Append(@, m)]
    /\ Audited(1)
    /\ UNCHANGED <<now, next_obj, kind, running, data, capVars>>

(* An empty queue is a success that receives nothing.                       *)
EpRecv(t, s) ==
    /\ Usable(t, s, {"RECV"}) /\ Names(t, s, "Endpoint")
    /\ LET o == cspaces[<<t, s>>].obj IN
       queue' = [queue EXCEPT ![o] = IF @ = <<>> THEN @ ELSE Tail(@)]
    /\ Audited(1)
    /\ UNCHANGED <<now, next_obj, kind, running, data, capVars>>

(* Mutant: the right is not checked.                                        *)
MemOkNoRight(t, s, right, offset, len) ==
    Lookup(t, s) /\ Names(t, s, "MemRegion") /\ offset + len <= RegionLen

(* The checks of mem_read, mem_write and of a batch entry.                  *)
MemOk(t, s, right, offset, len) ==
    /\ Usable(t, s, {right}) /\ Names(t, s, "MemRegion")
    /\ offset + len <= RegionLen

(* mem_read and mem_len: a success appends no record.                       *)
MemRead(t, s, offset, len) ==
    /\ MemOk(t, s, "READ", offset, len)
    /\ Audited(0)
    /\ UNCHANGED <<now, objectVars, capVars>>

Written(region, offset, len, byte) ==
    [i \in 1..RegionLen |-> IF i \in (offset + 1)..(offset + len) THEN byte
                                                                 ELSE region[i]]

MemWrite(t, s, offset, len, byte) ==
    /\ MemOk(t, s, "WRITE", offset, len)
    /\ data' = [data EXCEPT ![cspaces[<<t, s>>].obj] =
                  Written(@, offset, len, byte)]
    /\ Audited(1)
    /\ UNCHANGED <<now, next_obj, kind, running, queue, capVars>>

EntryOk(t, e) ==
    MemOk(t, e.region, IF e.op = "MemRead" THEN "READ" ELSE "WRITE", e.offset, e.len)

(* Mutant: each entry starts from the region as the batch found it.         *)
BatchOneStale(t, d, e) ==
    IF e.op = "MemWrite" /\ EntryOk(t, e)
    THEN [d EXCEPT ![cspaces[<<t, e.region>>].obj] =
            Written(data[cspaces[<<t, e.region>>].obj], e.offset, e.len, e.byte)]
    ELSE d

(* batch_one, applied to the regions as the earlier entries left them.      *)
BatchOne(t, d, e) ==
    IF e.op = "MemWrite" /\ EntryOk(t, e)
    THEN [d EXCEPT ![cspaces[<<t, e.region>>].obj] =
            Written(@, e.offset, e.len, e.byte)]
    ELSE d

(* batch_submit: the entries in order, a failed one skipped with a record   *)
(* of its own, and one Batch record at the end.                             *)
BatchSubmit(t, entries) ==
    /\ LET after[n \in 0..Len(entries)] ==
             IF n = 0 THEN data ELSE BatchOne(t, after[n - 1], entries[n])
       IN data' = after[Len(entries)]
    /\ Audited(1 + Cardinality({n \in DOMAIN entries : ~ EntryOk(t, entries[n])}))
    /\ UNCHANGED <<now, next_obj, kind, running, queue, capVars>>

(* task_kill and task_spawn.                                                *)
SetRunning(t, s, value) ==
    /\ Usable(t, s, {"CONTROL"}) /\ Names(t, s, "Task")
    /\ running' = [running EXCEPT ![cspaces[<<t, s>>].obj] = value]
    /\ Audited(1)
    /\ UNCHANGED <<now, next_obj, kind, queue, data, capVars>>

(* task_running: a read of the state, and every call whose checks fail.     *)
ObserveOrRefuse == Refused

-----------------------------------------------------------------------------
Derivation(t) ==
    \E s \in Slot :
        \/ \E r \in RightsArgs : Copy(t, s, r)
        \/ \E d \in Slot, r \in RightsArgs, e \in ExpiryArgs :
               \/ Grant(t, s, d, r, e)
               \/ \E g \in Slot : GrantMint(t, g, s, d, r, e)
        \/ Destroy(t, s)
        \/ Revoke(t, s)

Use(t) ==
    \/ \E s \in Slot :
        \/ \E m \in Messages : EpSend(t, s, m)
        \/ EpRecv(t, s)
        \/ \E offset, len \in 0..RegionLen :
               \/ MemRead(t, s, offset, len)
               \/ \E b \in Bytes : MemWrite(t, s, offset, len, b)
        \/ \E value \in RunningArgs : SetRunning(t, s, value)
    \/ \E entries \in Batches : BatchSubmit(t, entries)

Next ==
    \/ Advance
    \/ ObserveOrRefuse
    \/ \E t \in {o \in ObjectId : Task(o)} :
        \/ \E s \in Slot : Create(t, s)
        \/ Derivation(t)
        \/ Use(t)

Spec == Init /\ [][Next]_vars

-----------------------------------------------------------------------------
(* Properties.                                                             *)

(* The type of the kernel's state.  The bytes of the regions are pinned      *)
(* down by BatchLastWriteWins and EffectsNeedAuthority.                     *)
ObjectType ==
    /\ now \in 0..MaxTime
    /\ next_obj \in ObjectId
    /\ kind \in [ObjectId -> ObjectKind \cup {"none"}]
    /\ running \in [ObjectId -> BOOLEAN]
    /\ queue \in [ObjectId -> Seq(Messages)]
    /\ audit \in Nat
CapType ==
    /\ next_cap \in CapId
    /\ cspaces \in [Place -> CapInstance \cup {Empty}]
    /\ parents \in [CapId -> CapId \cup {Root, Absent}]
    /\ capids \in [Place -> CapId \cup {Absent}]
    /\ locations \in [CapId -> Place \cup {Nowhere}]
    /\ lineage \in [CapId -> SUBSET CapId]
    /\ revoked \subseteq CapId /\ minter \in ObjectId
TypeOK == ObjectType /\ CapType

(* mint_into and remove_cap keep four maps in step: a slot is occupied      *)
(* exactly when (task, slot) has a CapId, that CapId's location is the      *)
(* slot, and its entry in `parents` is the parent the instance carries.     *)
(* "No dangling cap can ever survive a removal" (kernel.rs, remove_cap).    *)
Bookkeeping ==
    /\ \A p \in Place : (cspaces[p] = Empty) <=> (capids[p] = Absent)
    /\ \A p \in Place : capids[p] # Absent =>
          /\ locations[capids[p]] = p
          /\ parents[capids[p]] = cspaces[p].parent
    /\ \A c \in CapId : locations[c] # Nowhere => capids[locations[c]] = c
    /\ \A c \in CapId : locations[c] = Nowhere => parents[c] = Absent

(* Only tasks hold capabilities, and every capability names an object that  *)
(* exists, with no right beyond those the object was created with: however   *)
(* long the chain of copies and grants, a mem region's cap never gains      *)
(* CONTROL or SEND, a grant root's cap nothing but GRANT.                   *)
AuthorityWithinCreation ==
    \A p \in Place : cspaces[p] # Empty =>
        /\ Task(p[1])
        /\ kind[cspaces[p].obj] # "none"
        /\ cspaces[p].rights \subseteq CreationRights(kind[cspaces[p].obj])

Destroyed == (1..next_cap) \ (Live \cup revoked)

(* revoke reaches any depth, in tables the caller cannot name: a capability  *)
(* with a revoked ancestor survives only when an ancestor of it was         *)
(* destroyed by its owner.                                                  *)
RevocationReaches ==
    \A c \in Live : lineage[c] \cap revoked # {} => lineage[c] \cap Destroyed # {}

NewCap(p) == cspaces[p] = Empty /\ cspaces'[p] # Empty
Narrows(p) ==
    \E s \in Slot :
        LET src == cspaces[<<minter', s>>] IN
        /\ Usable(minter', s, {"GRANT"})
        /\ src.obj = cspaces'[p].obj
        /\ cspaces'[p].rights \subseteq src.rights
        /\ cspaces'[p].expires_at <= src.expires_at
Consented(p) ==
    \E s \in Slot : /\ Usable(minter', s, {"RECEIVE"})
                    /\ cspaces[<<minter', s>>].obj = p[1]

(* I2, I3 and I5 of the capability model: when a capability to an object     *)
(* that already existed appears, the caller itself held a usable cap to the *)
(* same object that carried GRANT, all the new rights, and lived as long.   *)
DerivationNarrows ==
    [][\A p \in Place : NewCap(p) /\ kind[cspaces'[p].obj] # "none" => Narrows(p)]_vars

(* I6: the table of a task is written only by the task itself or by a        *)
(* caller that held a usable cap naming it with RECEIVE.                    *)
GrantConsent ==
    [][\A p \in Place : NewCap(p) /\ Task(p[1]) /\ minter' # p[1] => Consented(p)]_vars

Delegable(o) ==
    \E t \in ObjectId, s \in Slot : Usable(t, s, {"GRANT"}) /\ cspaces[<<t, s>>].obj = o

(* Authority that died stays dead: once no task holds a usable cap with      *)
(* GRANT on an object, by expiry, destroy or revoke, none ever does again.  *)
DeadAuthorityStaysDead ==
    [][\A o \in ObjectId : kind[o] # "none" /\ ~ Delegable(o) => ~ Delegable(o)']_vars

(* The kernel mediates every effect: a region's bytes, an endpoint's queue    *)
(* or a task's running flag change only while some task holds a usable cap  *)
(* to that object with WRITE, SEND or RECV, or CONTROL.                     *)
EffectsNeedAuthority ==
    [][\A o \in ObjectId :
         LET held(right) == \E t \in ObjectId, s \in Slot :
                                Usable(t, s, {right}) /\ cspaces[<<t, s>>].obj = o
         IN /\ data'[o] # data[o] => held("WRITE")
            /\ Len(queue'[o]) > Len(queue[o]) => held("SEND")
            /\ Len(queue'[o]) < Len(queue[o]) => held("RECV")
            /\ running'[o] # running[o] => held("CONTROL")]_vars

(* batch_submit runs its entries in submission order and "the rest of the    *)
(* batch completes regardless" of a failed one: every byte ends as the last *)
(* entry that was allowed to write it left it, and is untouched otherwise.  *)
BatchLastWriteWins ==
    [][\A t \in ObjectId, b \in Batches :
         Task(t) /\ BatchSubmit(t, b) =>
           \A o \in ObjectId, i \in 1..RegionLen :
             LET writers == {n \in DOMAIN b :
                               /\ b[n].op = "MemWrite" /\ EntryOk(t, b[n])
                               /\ cspaces[<<t, b[n].region>>].obj = o
                               /\ b[n].offset < i /\ i <= b[n].offset + b[n].len}
             IN data'[o][i] = IF writers = {} THEN data[o][i]
                                              ELSE b[Max(writers)].byte]_vars

(* I4 as the specification states it, "there is no 'escape hatch' copy that  *)
(* survives a revoke": no live capability has a revoked ancestor.           *)
NoEscapeFromRevoke == \A c \in Live : lineage[c] \cap revoked = {}
=============================================================================
