----------------------- MODULE CapabilityKernelProofs -----------------------
(***************************************************************************)
(* Proofs about CapabilityKernel for every number of objects, slots and    *)
(* capabilities: the bookkeeping of the derivation graph stays consistent, *)
(* no chain of derivations exceeds the rights an object was created with,  *)
(* a revoke reaches descendants at any depth, and every derivation narrows *)
(* authority its caller holds.                                             *)
(***************************************************************************)
EXTENDS CapabilityKernel, NatLemmas, FiniteSetTheorems

(* Ids are handed out once: an id above the counter is unused, and a        *)
(* revoked capability never comes back.                                     *)
FreshCaps ==
    /\ \A c \in CapId : c > next_cap => locations[c] = Nowhere
    /\ \A c \in revoked : c <= next_cap /\ locations[c] = Nowhere
FreshObjects == \A o \in ObjectId : o > next_obj => kind[o] = "none"

(* revoke takes the children of everything it takes: no capability that is  *)
(* still in a slot was derived directly from a revoked one.                 *)
NoChildOfRevoked == \A c \in Live : parents[c] \notin revoked

(* `parents` is the last link of the history each capability carries.       *)
LineageInv ==
    \A c \in Live :
        \/ parents[c] = Root /\ lineage[c] = {}
        \/ /\ parents[c] \in CapId /\ parents[c] < c
           /\ lineage[c] = lineage[parents[c]] \cup {parents[c]}

CapInv == CapType /\ Bookkeeping /\ NoChildOfRevoked /\ LineageInv /\ FreshCaps
IInv == ObjectType /\ CapInv /\ FreshObjects /\ AuthorityWithinCreation

-----------------------------------------------------------------------------
(* Facts about the constants and helpers.                                  *)

LEMMA Sentinels ==
    /\ Absent \notin CapId /\ Root \notin CapId /\ Root # Absent
    /\ Nowhere \notin Place /\ Empty \notin CapInstance
  BY Bounds DEF Absent, Root, CapId, Nowhere, Place, ObjectId, Empty, CapInstance

(* insert puts the instance in a slot of the table that was free.          *)
LEMMA FirstFreeIsFree ==
    ASSUME NEW t, FreeSlots(t) # {}
    PROVE  FirstFree(t) \in Slot /\ cspaces[<<t, FirstFree(t)>>] = Empty
  <1>1. FreeSlots(t) \in SUBSET Nat
    BY Bounds DEF FreeSlots, Slot
  <1>2. \E s \in FreeSlots(t) : \A r \in FreeSlots(t) : s <= r
    BY <1>1, LeastNat
  <1>3. FirstFree(t) \in FreeSlots(t)
    BY <1>2 DEF FirstFree
  <1> QED BY <1>3 DEF FreeSlots, Occupied

(* A slot that passes lookup has a capability id, and it lives there.      *)
LEMMA LookupIsLive ==
    ASSUME CapInv, NEW t \in ObjectId, NEW s \in Slot, Lookup(t, s)
    PROVE  /\ capids[<<t, s>>] \in Live
           /\ cspaces[<<t, s>>] \in CapInstance
           /\ locations[capids[<<t, s>>]] = <<t, s>>
  <1>1. <<t, s>> \in Place
    BY DEF Place
  <1>2. capids[<<t, s>>] # Absent
    BY <1>1 DEF CapInv, Bookkeeping, Lookup, Occupied
  <1> QED BY <1>1, <1>2, Sentinels DEF CapInv, CapType, Bookkeeping, Lookup, Occupied, Live

(* The walk of revoke: what it dooms is live, holds its start, and is      *)
(* closed under "derived from".                                            *)
LEMMA SubtreeFacts ==
    ASSUME NEW c \in Live
    PROVE  Subtree(c) \subseteq Live /\ c \in Subtree(c) /\ Closed(Subtree(c))
  <1>1. Subtree(c) \subseteq Live /\ c \in Subtree(c)
    BY DEF Subtree
  <1>2. ASSUME NEW d \in Live, parents[d] \in Subtree(c) PROVE d \in Subtree(c)
    <2>1. ASSUME NEW S \in SUBSET Live, c \in S, Closed(S) PROVE d \in S
      <3>1. parents[d] \in S
        BY <1>2, <2>1 DEF Subtree
      <3> QED BY <2>1, <3>1 DEF Closed
    <2> QED BY <2>1 DEF Subtree
  <1> QED BY <1>1, <1>2 DEF Closed
-----------------------------------------------------------------------------
(* The two ways the derivation graph changes.                              *)

(* mint_into keeps the graph consistent: the new capability sits in a slot  *)
(* that was free, under an id never used, as a child of a live capability.  *)
LEMMA MintKeepsCapInv ==
    ASSUME CapInv, NEW dst \in ObjectId, NEW s \in Slot, cspaces[<<dst, s>>] = Empty,
           NEW obj \in ObjectId, NEW rights \in SUBSET Rights,
           NEW parent \in Live \cup {Root},
           NEW pexp \in Expiry, NEW req \in Expiry, next_cap < MaxCap,
           MintInto(dst, s, obj, rights, parent, pexp, req), minter' \in ObjectId
    PROVE  CapInv'
  <1> DEFINE cid == next_cap + 1
             place == <<dst, s>>
             inst == [obj |-> obj, rights |-> rights, parent |-> parent,
                      expires_at |-> ClampExpiry(req, pexp)]
  <1>1. /\ cid \in CapId /\ cid > next_cap /\ place \in Place /\ inst \in CapInstance
        /\ locations[cid] = Nowhere /\ capids[place] = Absent /\ parent # cid
    BY Sentinels, Bounds
    DEF CapInv, CapType, CapId, FreshCaps, Place, CapInstance, ClampExpiry, Live,
        Bookkeeping, Root
  <1>2. /\ cspaces' = [cspaces EXCEPT ![place] = inst]
        /\ next_cap' = cid
        /\ parents' = [parents EXCEPT ![cid] = parent]
        /\ capids' = [capids EXCEPT ![place] = cid]
        /\ locations' = [locations EXCEPT ![cid] = place]
        /\ lineage' = [lineage EXCEPT ![cid] =
                         IF parent = Root THEN {} ELSE lineage[parent] \cup {parent}]
        /\ revoked' = revoked
    BY DEF MintInto
  <1>3. inst # Empty /\ place # Nowhere /\ inst.parent = parent
    BY <1>1, Sentinels
  <1>4. parent \in CapId \cup {Root}
    BY DEF Live
  <1> HIDE DEF cid, place, inst
  <1>5. CapType'
    BY <1>1, <1>2, <1>4 DEF CapInv, CapType
  <1>6. Bookkeeping'
    BY <1>1, <1>2, <1>3, Sentinels DEF CapInv, CapType, Bookkeeping
  <1>7. Live' = Live \cup {cid}
    BY <1>1, <1>2, <1>3 DEF Live, CapInv, CapType
  <1>8. NoChildOfRevoked'
    BY <1>1, <1>2, <1>7, Sentinels DEF CapInv, CapType, NoChildOfRevoked, FreshCaps, Live
  <1>9. LineageInv'
    <2>1. ASSUME NEW c \in Live
          PROVE  /\ c # cid /\ parents'[c] = parents[c] /\ lineage'[c] = lineage[c]
                 /\ parents[c] \in CapId => parents[c] # cid
      <3>1. c # cid /\ parents'[c] = parents[c] /\ lineage'[c] = lineage[c]
        BY <1>1, <1>2 DEF Live, CapInv, CapType
      <3>2. c \in CapId /\ c <= next_cap /\ next_cap \in CapId
        BY DEF Live, CapInv, CapType, FreshCaps, CapId
      <3>3. parents[c] \in CapId => parents[c] < c
        BY Sentinels DEF CapInv, LineageInv
      <3> QED BY <1>1, <3>1, <3>2, <3>3 DEF CapId
    <2>2. ASSUME NEW c \in Live
          PROVE  \/ parents'[c] = Root /\ lineage'[c] = {}
                 \/ /\ parents'[c] \in CapId /\ parents'[c] < c
                    /\ lineage'[c] = lineage'[parents'[c]] \cup {parents'[c]}
      BY <1>1, <1>2, <2>1 DEF CapInv, CapType, LineageInv
    <2>3. \/ parents'[cid] = Root /\ lineage'[cid] = {}
          \/ /\ parents'[cid] \in CapId /\ parents'[cid] < cid
             /\ lineage'[cid] = lineage'[parents'[cid]] \cup {parents'[cid]}
      <3>1. parents'[cid] = parent
        BY <1>1, <1>2 DEF CapInv, CapType
      <3>2. CASE parent = Root
        BY <1>1, <1>2, <3>1, <3>2 DEF CapInv, CapType
      <3>3. CASE parent # Root
        <4>1. parent \in Live /\ parent \in CapId /\ parent < cid
          BY <1>1, <3>3 DEF CapInv, FreshCaps, Live, CapType, CapId
        <4> QED BY <1>1, <1>2, <3>1, <3>3, <4>1 DEF CapInv, CapType
      <3> QED BY <3>2, <3>3
    <2> QED BY <1>7, <2>2, <2>3 DEF LineageInv
  <1>10. FreshCaps'
    BY <1>1, <1>2 DEF CapInv, CapType, FreshCaps, CapId
  <1> QED BY <1>5, <1>6, <1>8, <1>9, <1>10 DEF CapInv

(* remove_cap keeps it consistent for any set of live capabilities, when    *)
(* the set counted as revoked takes its children with it.                   *)
LEMMA RemoveKeepsCapInv ==
    ASSUME CapInv, NEW doomed \in SUBSET Live, RemoveCaps(doomed),
           \/ revoked' = revoked
           \/ revoked' = revoked \cup doomed /\ Closed(doomed)
    PROVE  CapInv'
  <1>1. /\ cspaces' = [p \in Place |-> IF capids[p] \in doomed THEN Empty ELSE cspaces[p]]
        /\ capids' = [p \in Place |-> IF capids[p] \in doomed THEN Absent ELSE capids[p]]
        /\ locations' = [c \in CapId |-> IF c \in doomed THEN Nowhere ELSE locations[c]]
        /\ parents' = [c \in CapId |-> IF c \in doomed THEN Absent ELSE parents[c]]
        /\ next_cap' = next_cap /\ lineage' = lineage /\ minter' = minter
    BY DEF RemoveCaps
  <1>2. doomed \subseteq CapId
    BY DEF Live
  <1>3. CapType'
    BY <1>1, <1>2 DEF CapInv, CapType
  <1>4. Bookkeeping'
    BY <1>1, <1>2, Sentinels DEF CapInv, CapType, Bookkeeping
  <1>5. Live' = Live \ doomed
    BY <1>1, <1>2 DEF Live
  <1>6. \A c \in Live' : parents'[c] = parents[c] /\ c \in Live
    BY <1>1, <1>5 DEF Live
  <1>7. NoChildOfRevoked'
    BY <1>5, <1>6 DEF CapInv, NoChildOfRevoked, Closed
  <1>8. LineageInv'
    BY <1>1, <1>6 DEF CapInv, LineageInv
  <1>9. FreshCaps'
    <2>1. \A c \in doomed : c \in CapId /\ c <= next_cap
      BY <1>2 DEF CapInv, CapType, FreshCaps, Live, CapId
    <2> QED BY <1>1, <1>2, <2>1 DEF CapInv, CapType, FreshCaps
  <1> QED BY <1>3, <1>4, <1>7, <1>8, <1>9 DEF CapInv

-----------------------------------------------------------------------------
(* Each action preserves the inductive invariant.                          *)

(* The state boot leaves: the root task, its self-cap and the Creator.     *)
LEMMA InitIInv == Init => IInv
  <1> SUFFICES ASSUME Init PROVE IInv
    OBVIOUS
  <1>1. ObjectType
    BY Bounds DEF Init, ObjectType, ObjectId, ObjectKind
  <1>2. CapType
    <2>1. ASSUME NEW p \in Place, p \in {<<1, 0>>, <<1, 1>>}
          PROVE  /\ [obj |-> p[2] + 1, rights |-> Rights, parent |-> Root,
                     expires_at |-> Never] \in CapInstance
                 /\ p[2] + 1 \in CapId
      BY <2>1, Bounds DEF CapInstance, ObjectId, CapId, Expiry, Never, Root
    <2>2. \A c \in {1, 2} : c \in CapId /\ <<1, c - 1>> \in Place
      BY Bounds DEF CapId, Place, ObjectId, Slot
    <2>3. cspaces \in [Place -> CapInstance \cup {Empty}]
      BY <2>1 DEF Init
    <2>4. capids \in [Place -> CapId \cup {Absent}]
      BY <2>1 DEF Init
    <2>5. locations \in [CapId -> Place \cup {Nowhere}]
      BY <2>2 DEF Init
    <2> QED BY <2>3, <2>4, <2>5, Bounds DEF Init, CapType, CapId, ObjectId
  <1>3. \A p \in Place : p \in {<<1, 0>>, <<1, 1>>} =>
            /\ cspaces[p].parent = Root /\ cspaces[p] # Empty
            /\ cspaces[p].rights = Rights /\ cspaces[p].obj \in {1, 2}
    BY Bounds DEF Init, Empty
  <1>4. Bookkeeping
    BY <1>3, Sentinels, Bounds
    DEF Init, Bookkeeping, Absent, Root, CapId, Place, ObjectId, Slot, Nowhere
  <1>5. NoChildOfRevoked /\ FreshCaps
    BY Bounds DEF Init, NoChildOfRevoked, FreshCaps, CapId
  <1>6. LineageInv
    BY DEF Init, LineageInv, Live
  <1>7. FreshObjects
    BY Bounds DEF Init, FreshObjects, ObjectId
  <1>8. AuthorityWithinCreation
    <2>1. kind[1] = "Task" /\ kind[2] = "Creator"
      BY Bounds DEF Init, ObjectId
    <2>2. CreationRights("Task") = Rights /\ CreationRights("Creator") = Rights
      BY DEF CreationRights
    <2>3. \A p \in Place : cspaces[p] # Empty => p \in {<<1, 0>>, <<1, 1>>}
      BY DEF Init
    <2>4. \A p \in Place : p \in {<<1, 0>>, <<1, 1>>} => p[1] = 1
      OBVIOUS
    <2> QED BY <1>3, <2>1, <2>2, <2>3, <2>4 DEF AuthorityWithinCreation, Task
  <1> QED BY <1>1, <1>2, <1>4, <1>5, <1>6, <1>7, <1>8 DEF IInv, CapInv

(* A step that touches neither the objects' kinds nor the capabilities      *)
(* keeps everything but the types of what it does touch.                    *)
LEMMA QuietStep ==
    ASSUME IInv, UNCHANGED <<kind, next_obj, capVars>>, ObjectType'
    PROVE  IInv'
  BY DEF IInv, CapInv, CapType, Bookkeeping, NoChildOfRevoked, LineageInv, FreshCaps,
         FreshObjects, AuthorityWithinCreation, capVars, Live, Task

LEMMA AdvanceStep == ASSUME IInv, Advance PROVE IInv'
  <1>1. ObjectType'
    BY Bounds DEF IInv, ObjectType, Advance, objectVars
  <1> QED BY <1>1, QuietStep DEF Advance, objectVars

LEMMA RefusedStep == ASSUME IInv, Refused PROVE IInv'
  <1>1. ObjectType'
    BY DEF IInv, ObjectType, Refused, Audited, objectVars
  <1> QED BY <1>1, QuietStep DEF Refused, objectVars

(* A minted capability is within its object's creation rights when its      *)
(* rights are, and its owner is a task.                                     *)
LEMMA MintKeepsAuthority ==
    ASSUME IInv, NEW dst \in ObjectId, NEW s \in Slot, NEW obj \in ObjectId,
           NEW rights \in SUBSET Rights, NEW parent, NEW pexp, NEW req,
           MintInto(dst, s, obj, rights, parent, pexp, req),
           \A o \in ObjectId : kind[o] # "none" => kind'[o] = kind[o],
           kind'[dst] = "Task", kind'[obj] # "none",
           rights \subseteq CreationRights(kind'[obj])
    PROVE  AuthorityWithinCreation'
  <1> DEFINE inst == [obj |-> obj, rights |-> rights, parent |-> parent,
                      expires_at |-> ClampExpiry(req, pexp)]
  <1>1. cspaces' = [cspaces EXCEPT ![<<dst, s>>] = inst] /\ <<dst, s>> \in Place
    BY DEF MintInto, Place
  <1>2. inst.obj = obj /\ inst.rights = rights
    OBVIOUS
  <1> HIDE DEF inst
  <1>3. SUFFICES ASSUME NEW p \in Place, cspaces'[p] # Empty
                 PROVE  /\ kind'[p[1]] = "Task" /\ kind'[cspaces'[p].obj] # "none"
                        /\ cspaces'[p].rights \subseteq
                             CreationRights(kind'[cspaces'[p].obj])
    BY DEF AuthorityWithinCreation, Task, CreationRights
  <1>4. CASE p = <<dst, s>>
    BY <1>1, <1>2, <1>4 DEF IInv, CapInv, CapType
  <1>5. CASE p # <<dst, s>>
    <2>1. cspaces'[p] = cspaces[p] /\ cspaces[p] \in CapInstance
      BY <1>1, <1>3, <1>5 DEF IInv, CapInv, CapType
    <2>2. p[1] \in ObjectId /\ cspaces[p].obj \in ObjectId
      BY <2>1 DEF Place, CapInstance
    <2> QED BY <1>3, <2>1, <2>2 DEF IInv, AuthorityWithinCreation, Task
  <1> QED BY <1>4, <1>5

(* The caller's table was full: the new object has no capability to it.    *)
LEMMA CreateRefusedStep ==
    ASSUME IInv, NEW t \in ObjectId, NEW s \in Slot, NEW k \in CreatableKinds,
           CreateRefused(t, s, k)
    PROVE  IInv'
  <1>1. /\ next_obj < MaxObj /\ next_obj' = next_obj + 1
        /\ kind' = [kind EXCEPT ![next_obj + 1] = k]
        /\ UNCHANGED <<now, running, queue, data>> /\ audit' = 1 /\ UNCHANGED capVars
    BY DEF CreateRefused, NewObject, Audited
  <1>2. next_obj + 1 \in ObjectId /\ kind[next_obj + 1] = "none" /\ k \in ObjectKind
    BY <1>1, Bounds, Arguments DEF IInv, ObjectType, ObjectId, FreshObjects
  <1>3. ObjectType' /\ FreshObjects'
    BY <1>1, <1>2 DEF IInv, ObjectType, FreshObjects, ObjectId
  <1>4. CapInv'
    BY <1>1 DEF IInv, CapInv, CapType, Bookkeeping, NoChildOfRevoked, LineageInv,
                FreshCaps, capVars, Live
  <1>5. AuthorityWithinCreation'
    <2>1. cspaces' = cspaces
      BY <1>1 DEF capVars
    <2>2. \A o \in ObjectId : kind[o] # "none" => kind'[o] = kind[o]
      BY <1>1, <1>2 DEF IInv, ObjectType
    <2>3. \A p \in Place : cspaces[p] # Empty =>
             p[1] \in ObjectId /\ cspaces[p].obj \in ObjectId
      BY DEF IInv, CapInv, CapType, CapInstance, Place
    <2> QED BY <2>1, <2>2, <2>3 DEF IInv, AuthorityWithinCreation, Task, CreationRights
  <1> QED BY <1>3, <1>4, <1>5 DEF IInv

(* create_endpoint, create_mem and create_grant_root.                      *)
LEMMA CreateObjectStep ==
    ASSUME IInv, NEW t \in ObjectId, Task(t), NEW s \in Slot,
           NEW k \in CreatableKinds, CreateObject(t, s, k)
    PROVE  IInv'
  <1>1. /\ next_obj < MaxObj /\ next_obj' = next_obj + 1 /\ next_cap < MaxCap
        /\ kind' = [kind EXCEPT ![next_obj + 1] = k]
        /\ UNCHANGED <<now, running, queue, data>> /\ audit' = 1 /\ minter' = t
        /\ MintInto(t, FirstFree(t), next_obj + 1, CreationRights(k), Root, Never, Never)
        /\ FreeSlots(t) # {}
    BY DEF CreateObject, NewObject, Audited
  <1>2. /\ next_obj + 1 \in ObjectId /\ kind[next_obj + 1] = "none"
        /\ k \in ObjectKind /\ k # "none"
    BY <1>1, Bounds, Arguments DEF IInv, ObjectType, ObjectId, FreshObjects, ObjectKind
  <1>3. ObjectType' /\ FreshObjects'
    BY <1>1, <1>2 DEF IInv, ObjectType, FreshObjects, ObjectId
  <1>4. FirstFree(t) \in Slot /\ cspaces[<<t, FirstFree(t)>>] = Empty
    BY <1>1, FirstFreeIsFree
  <1>5. CreationRights(k) \in SUBSET Rights
    BY DEF CreationRights, Rights
  <1>6. CapInv'
    BY <1>1, <1>2, <1>4, <1>5, Bounds, MintKeepsCapInv DEF IInv, Expiry, Never
  <1>7. /\ \A o \in ObjectId : kind[o] # "none" => kind'[o] = kind[o]
        /\ kind'[t] = "Task" /\ kind'[next_obj + 1] = k
    BY <1>1, <1>2 DEF IInv, ObjectType, Task
  <1>8. AuthorityWithinCreation'
    BY <1>1, <1>2, <1>4, <1>5, <1>7, MintKeepsAuthority
  <1> QED BY <1>3, <1>6, <1>8 DEF IInv

(* copy, grant and grant_mint: the parent is live, the owner is a task, and *)
(* the rights are those of a capability within its creation rights.         *)
LEMMA DeriveStep ==
    ASSUME IInv, NEW t \in ObjectId, NEW s \in Slot, Lookup(t, s),
           NEW dst \in ObjectId, Task(dst), NEW rights \in SUBSET Rights,
           NEW parent \in Live, NEW req \in Expiry,
           Derive(t, s, dst, rights, parent, req)
    PROVE  IInv'
  <1> DEFINE src == cspaces[<<t, s>>]
  <1>1. CASE FreeSlots(dst) = {} /\ Refused
    BY <1>1, RefusedStep
  <1>2. CASE FreeSlots(dst) # {}
    <2>1. /\ MintInto(dst, FirstFree(dst), src.obj, rights \cap src.rights, parent,
                       src.expires_at, req)
          /\ next_cap < MaxCap /\ minter' = t /\ audit' = 1
          /\ UNCHANGED <<now, kind, running, queue, data, next_obj>>
      BY <1>2 DEF Derive, Audited, objectVars
    <2>2. /\ src \in CapInstance /\ src # Empty /\ <<t, s>> \in Place
          /\ src.obj \in ObjectId /\ src.rights \in SUBSET Rights
          /\ src.expires_at \in Expiry
      BY LookupIsLive DEF IInv, Lookup, Occupied, CapInstance, Place
    <2>3. FirstFree(dst) \in Slot /\ cspaces[<<dst, FirstFree(dst)>>] = Empty
      BY <1>2, FirstFreeIsFree
    <2>4. CapInv'
      <3>1. /\ parent \in Live \cup {Root} /\ minter' \in ObjectId
            /\ rights \cap src.rights \in SUBSET Rights
        BY <2>1, <2>2
      <3> HIDE DEF src
      <3> QED BY <2>1, <2>2, <2>3, <3>1, MintKeepsCapInv DEF IInv
    <2>5. kind[src.obj] # "none" /\ src.rights \subseteq CreationRights(kind[src.obj])
      BY <2>2 DEF IInv, AuthorityWithinCreation
    <2>6. AuthorityWithinCreation'
      <3>1. /\ kind' = kind /\ kind'[dst] = "Task"
            /\ rights \cap src.rights \in SUBSET Rights
            /\ rights \cap src.rights \subseteq CreationRights(kind'[src.obj])
            /\ kind'[src.obj] # "none"
        BY <2>1, <2>2, <2>5 DEF Task
      <3> HIDE DEF src
      <3> QED BY <2>1, <2>2, <2>3, <3>1, MintKeepsAuthority
    <2>7. ObjectType' /\ FreshObjects'
      BY <2>1 DEF IInv, ObjectType, FreshObjects
    <2> QED BY <2>4, <2>6, <2>7 DEF IInv
  <1> QED BY <1>1, <1>2 DEF Derive

(* create_task: two mints at once, the child's self-cap under the caller's. *)
LEMMA CreateTaskStep ==
    ASSUME IInv, NEW t \in ObjectId, Task(t), NEW s \in Slot, CreateTask(t, s)
    PROVE  IInv'
  <1> DEFINE u == next_obj + 1
             c == next_cap + 1
             d == next_cap + 2
             mine == <<t, FirstFree(t)>>
             self == <<u, 0>>
             cap(q) == [obj |-> u, rights |-> Rights, parent |-> q, expires_at |-> Never]
  <1>1. /\ next_obj < MaxObj /\ next_obj' = u /\ FreeSlots(t) # {} /\ d <= MaxCap
        /\ kind' = [kind EXCEPT ![u] = "Task"]
        /\ UNCHANGED <<now, running, queue, data>> /\ audit' = 1
    BY DEF CreateTask, NewObject, Audited
  <1>2. /\ cspaces' = [cspaces EXCEPT ![mine] = cap(Root), ![self] = cap(c)]
        /\ capids' = [capids EXCEPT ![mine] = c, ![self] = d]
        /\ locations' = [locations EXCEPT ![c] = mine, ![d] = self]
        /\ parents' = [parents EXCEPT ![c] = Root, ![d] = c]
        /\ lineage' = [lineage EXCEPT ![c] = {}, ![d] = {c}]
        /\ next_cap' = d /\ minter' = t /\ revoked' = revoked
    BY DEF CreateTask, IInv, CapInv, CapType, CapId
  <1>3. /\ u \in ObjectId /\ u > next_obj /\ kind[u] = "none" /\ u # t
        /\ c \in CapId /\ d \in CapId /\ c > next_cap /\ d > next_cap /\ c < d
    BY <1>1, Bounds
    DEF IInv, ObjectType, ObjectId, FreshObjects, Task, CapInv, CapType, CapId
  <1>4. /\ mine \in Place /\ self \in Place /\ mine # self
        /\ cspaces[mine] = Empty /\ cspaces[self] = Empty
    <2>1. FirstFree(t) \in Slot /\ cspaces[mine] = Empty
      BY <1>1, FirstFreeIsFree
    <2>2. mine \in Place /\ self \in Place /\ mine # self /\ self[1] = u
      BY <1>3, <2>1, Bounds DEF Place, Slot
    <2> QED BY <1>3, <2>1, <2>2 DEF IInv, AuthorityWithinCreation, Task
  <1>5. /\ cap(Root) \in CapInstance /\ cap(c) \in CapInstance
        /\ cap(Root) # Empty /\ cap(c) # Empty
        /\ cap(Root).parent = Root /\ cap(c).parent = c
        /\ cap(Root).obj = u /\ cap(c).obj = u
        /\ cap(Root).rights = Rights /\ cap(c).rights = Rights
    BY <1>3, Bounds DEF CapInstance, Expiry, Never, Empty, ObjectId
  <1>6. /\ locations[c] = Nowhere /\ locations[d] = Nowhere
        /\ capids[mine] = Absent /\ capids[self] = Absent
        /\ mine # Nowhere /\ self # Nowhere
    BY <1>2, <1>3, <1>4, Sentinels DEF IInv, CapInv, FreshCaps, Bookkeeping, CapType
  <1> HIDE DEF u, c, d, mine, self, cap
  <1>7. ObjectType' /\ FreshObjects'
    BY <1>1, <1>3 DEF IInv, ObjectType, FreshObjects, ObjectId, ObjectKind
  <1>8. CapType'
    BY <1>2, <1>3, <1>4, <1>5 DEF IInv, CapInv, CapType
  <1>9. Bookkeeping'
    BY <1>2, <1>3, <1>4, <1>5, <1>6, Sentinels DEF IInv, CapInv, CapType, Bookkeeping
  <1>10. Live' = Live \cup {c, d}
    BY <1>2, <1>3, <1>6 DEF Live, IInv, CapInv, CapType
  <1>11. FreshCaps'
    BY <1>2, <1>3 DEF IInv, CapInv, CapType, FreshCaps, CapId
  <1>12. \A x \in Live : x # c /\ x # d /\ x <= next_cap /\ x \in CapId
                            /\ parents'[x] = parents[x] /\ lineage'[x] = lineage[x]
    BY <1>2, <1>3, <1>6 DEF Live, IInv, CapInv, CapType, FreshCaps, CapId
  <1>13. /\ parents'[c] = Root /\ parents'[d] = c
         /\ lineage'[c] = {} /\ lineage'[d] = {c}
    BY <1>2, <1>3 DEF IInv, CapInv, CapType
  <1>14. NoChildOfRevoked'
    <2>1. \A x \in revoked : x \in Nat /\ x <= next_cap /\ x \in CapId
      BY DEF IInv, CapInv, CapType, FreshCaps, CapId
    <2>2. next_cap \in Nat /\ c \in Nat
      BY <1>3 DEF IInv, CapInv, CapType, CapId
    <2>3. c \notin revoked /\ Root \notin revoked
      BY <1>3, <2>1, <2>2, Sentinels
    <2>4. \A x \in Live : parents'[x] \notin revoked
      BY <1>12 DEF IInv, CapInv, NoChildOfRevoked
    <2>5. revoked' = revoked
      BY <1>2
    <2> QED BY <1>10, <1>13, <2>3, <2>4, <2>5 DEF NoChildOfRevoked
  <1>15. LineageInv'
    <2>1. ASSUME NEW x \in Live
          PROVE  \/ parents'[x] = Root /\ lineage'[x] = {}
                 \/ /\ parents'[x] \in CapId /\ parents'[x] < x
                    /\ lineage'[x] = lineage'[parents'[x]] \cup {parents'[x]}
      <3>1. \/ parents[x] = Root /\ lineage[x] = {}
            \/ /\ parents[x] \in CapId /\ parents[x] < x
               /\ lineage[x] = lineage[parents[x]] \cup {parents[x]}
        BY DEF IInv, CapInv, LineageInv
      <3>2. \A y \in CapId : y <= next_cap => lineage'[y] = lineage[y]
        BY <1>2, <1>3 DEF IInv, CapInv, CapType, CapId
      <3>3. parents[x] \in CapId /\ parents[x] < x => parents[x] <= next_cap
        BY <1>12 DEF CapId, IInv, CapInv, CapType
      <3> QED BY <1>12, <3>1, <3>2, <3>3
    <2>2. lineage'[d] = lineage'[parents'[d]] \cup {parents'[d]}
      BY <1>13
    <2> QED BY <1>3, <1>10, <1>13, <2>1, <2>2 DEF LineageInv
  <1>16. AuthorityWithinCreation'
    <2>1. /\ kind'[u] = "Task" /\ kind'[t] = "Task" /\ mine[1] = t /\ self[1] = u
          /\ \A o \in ObjectId : kind[o] # "none" => kind'[o] = kind[o]
      BY <1>1, <1>3 DEF IInv, ObjectType, Task, mine, self
    <2>2. CreationRights("Task") = Rights
      BY DEF CreationRights
    <2>3. SUFFICES ASSUME NEW p \in Place, cspaces'[p] # Empty
                   PROVE  /\ kind'[p[1]] = "Task" /\ kind'[cspaces'[p].obj] # "none"
                          /\ cspaces'[p].rights \subseteq
                               CreationRights(kind'[cspaces'[p].obj])
      BY DEF AuthorityWithinCreation, Task, CreationRights
    <2>4. CASE p \in {mine, self}
      BY <1>2, <1>4, <1>5, <2>1, <2>2, <2>4 DEF IInv, CapInv, CapType
    <2>5. CASE p \notin {mine, self}
      <3>1. cspaces'[p] = cspaces[p] /\ cspaces[p] \in CapInstance
        BY <1>2, <2>3, <2>5 DEF IInv, CapInv, CapType
      <3>2. p[1] \in ObjectId /\ cspaces[p].obj \in ObjectId
        BY <3>1 DEF Place, CapInstance
      <3> QED BY <2>1, <2>3, <3>1, <3>2 DEF IInv, AuthorityWithinCreation, Task
    <2> QED BY <2>4, <2>5
  <1> QED BY <1>7, <1>8, <1>9, <1>11, <1>14, <1>15, <1>16 DEF IInv, CapInv

(* destroy and revoke: capabilities disappear and nothing else changes.    *)
LEMMA RemoveStep ==
    ASSUME IInv, NEW doomed \in SUBSET Live, RemoveCaps(doomed), audit' = 1,
           UNCHANGED <<now, objectVars>>,
           \/ revoked' = revoked
           \/ revoked' = revoked \cup doomed /\ Closed(doomed)
    PROVE  IInv'
  <1>1. CapInv'
    BY RemoveKeepsCapInv DEF IInv
  <1>2. ObjectType' /\ FreshObjects'
    BY DEF IInv, ObjectType, FreshObjects, objectVars
  <1>3. \A p \in Place : cspaces'[p] # Empty => cspaces'[p] = cspaces[p]
    BY DEF RemoveCaps
  <1>4. AuthorityWithinCreation'
    BY <1>3 DEF IInv, AuthorityWithinCreation, Task, CreationRights, objectVars
  <1> QED BY <1>1, <1>2, <1>4 DEF IInv

LEMMA DestroyStep ==
    ASSUME IInv, NEW t \in ObjectId, NEW s \in Slot, Destroy(t, s) PROVE IInv'
  <1>1. {capids[<<t, s>>]} \in SUBSET Live
    BY LookupIsLive DEF IInv, Destroy
  <1> QED BY <1>1, RemoveStep DEF Destroy, Audited

LEMMA RevokeStep ==
    ASSUME IInv, NEW t \in ObjectId, NEW s \in Slot, Revoke(t, s) PROVE IInv'
  <1>1. capids[<<t, s>>] \in Live
    BY LookupIsLive DEF IInv, Revoke, Usable
  <1>2. Subtree(capids[<<t, s>>]) \in SUBSET Live /\ Closed(Subtree(capids[<<t, s>>]))
    BY <1>1, SubtreeFacts
  <1> QED BY <1>2, RemoveStep DEF Revoke, Audited

(* What a usable slot holds names a task, when its object is one.          *)
LEMMA ConsentNamesTask ==
    ASSUME IInv, NEW t \in ObjectId, NEW d \in Slot, Consents(t, d)
    PROVE  cspaces[<<t, d>>].obj \in ObjectId /\ Task(cspaces[<<t, d>>].obj)
  <1>1. cspaces[<<t, d>>] \in CapInstance
    BY LookupIsLive DEF IInv, Consents
  <1> QED BY <1>1 DEF Consents, Names, Task, CapInstance

LEMMA DerivationStep ==
    ASSUME IInv, NEW t \in ObjectId, Task(t), Derivation(t) PROVE IInv'
  <1>1. ASSUME NEW s \in Slot, NEW r \in RightsArgs, Copy(t, s, r) PROVE IInv'
    <2>1. /\ Lookup(t, s) /\ r \in SUBSET Rights /\ Never \in Expiry
          /\ Derive(t, s, t, r, capids[<<t, s>>], Never)
      BY <1>1, Bounds, Arguments DEF Copy, Usable, Expiry, Never
    <2>2. capids[<<t, s>>] \in Live
      BY <2>1, LookupIsLive DEF IInv
    <2> QED BY <2>1, <2>2, DeriveStep
  <1>2. ASSUME NEW s \in Slot, NEW d \in Slot, NEW r \in RightsArgs,
               NEW e \in ExpiryArgs, Grant(t, s, d, r, e)
        PROVE  IInv'
    <2>1. /\ Lookup(t, s) /\ r \in SUBSET Rights /\ e \in Expiry /\ Consents(t, d)
          /\ Derive(t, s, cspaces[<<t, d>>].obj, r, capids[<<t, s>>], e)
      BY <1>2, Arguments DEF Grant, Usable
    <2>2. capids[<<t, s>>] \in Live
      BY <2>1, LookupIsLive DEF IInv
    <2>3. cspaces[<<t, d>>].obj \in ObjectId /\ Task(cspaces[<<t, d>>].obj)
      BY <2>1, ConsentNamesTask
    <2> QED BY <2>1, <2>2, <2>3, DeriveStep
  <1>3. ASSUME NEW s \in Slot, NEW d \in Slot, NEW g \in Slot, NEW r \in RightsArgs,
               NEW e \in ExpiryArgs, GrantMint(t, g, s, d, r, e)
        PROVE  IInv'
    <2>1. /\ Lookup(t, s) /\ Lookup(t, g) /\ Consents(t, d)
          /\ r \in SUBSET Rights /\ e \in Expiry
          /\ Derive(t, s, cspaces[<<t, d>>].obj, r, capids[<<t, g>>], e)
      BY <1>3, Arguments DEF GrantMint, Usable
    <2>2. capids[<<t, g>>] \in Live
      BY <2>1, LookupIsLive DEF IInv
    <2>3. cspaces[<<t, d>>].obj \in ObjectId /\ Task(cspaces[<<t, d>>].obj)
      BY <2>1, ConsentNamesTask
    <2> QED BY <2>1, <2>2, <2>3, DeriveStep
  <1> QED BY <1>1, <1>2, <1>3, DestroyStep, RevokeStep DEF Derivation

LEMMA CreateStep ==
    ASSUME IInv, NEW t \in ObjectId, Task(t), NEW s \in Slot, Create(t, s) PROVE IInv'
  BY CreateRefusedStep, CreateTaskStep, CreateObjectStep DEF Create

(* Messages, bytes and the running flag: no capability is touched.         *)
LEMMA UseStep ==
    ASSUME IInv, NEW t \in ObjectId, Use(t) PROVE IInv'
  <1>1. ASSUME NEW s \in Slot, NEW m \in Messages, EpSend(t, s, m) PROVE IInv'
    <2>1. \A o \in ObjectId : Append(queue[o], m) \in Seq(Messages)
      BY DEF IInv, ObjectType
    <2>2. queue' \in [ObjectId -> Seq(Messages)]
      BY <1>1, <2>1 DEF EpSend, IInv, ObjectType
    <2>3. ObjectType'
      BY <1>1, <2>2 DEF EpSend, Audited, IInv, ObjectType
    <2> QED BY <1>1, <2>3, QuietStep DEF EpSend
  <1>2. ASSUME NEW s \in Slot, EpRecv(t, s) PROVE IInv'
    <2>1. \A o \in ObjectId : queue[o] # <<>> => Tail(queue[o]) \in Seq(Messages)
      BY DEF IInv, ObjectType
    <2>2. queue' \in [ObjectId -> Seq(Messages)]
      BY <1>2, <2>1 DEF EpRecv, IInv, ObjectType
    <2>3. ObjectType'
      BY <1>2, <2>2 DEF EpRecv, Audited, IInv, ObjectType
    <2> QED BY <1>2, <2>3, QuietStep DEF EpRecv
  <1>3. ASSUME NEW s \in Slot, NEW offset, NEW len, MemRead(t, s, offset, len)
        PROVE  IInv'
    <2>1. ObjectType'
      BY <1>3 DEF MemRead, Audited, IInv, ObjectType, objectVars
    <2> QED BY <1>3, <2>1, QuietStep DEF MemRead, objectVars
  <1>4. ASSUME NEW s \in Slot, NEW offset, NEW len, NEW b, MemWrite(t, s, offset, len, b)
        PROVE  IInv'
    <2>1. ObjectType'
      BY <1>4 DEF MemWrite, Audited, IInv, ObjectType
    <2> QED BY <1>4, <2>1, QuietStep DEF MemWrite
  <1>5. ASSUME NEW s \in Slot, NEW v \in RunningArgs, SetRunning(t, s, v) PROVE IInv'
    <2>1. ObjectType'
      BY <1>5, Arguments DEF SetRunning, Audited, IInv, ObjectType
    <2> QED BY <1>5, <2>1, QuietStep DEF SetRunning
  <1>6. ASSUME NEW entries \in Batches, BatchSubmit(t, entries) PROVE IInv'
    <2> DEFINE failed == {n \in DOMAIN entries : ~ EntryOk(t, entries[n])}
    <2>1. Len(entries) \in Nat /\ DOMAIN entries = 1..Len(entries)
      BY Arguments
    <2>2. IsFiniteSet(failed)
      <3>1. IsFiniteSet(1..Len(entries)) /\ failed \subseteq 1..Len(entries)
        BY <2>1, FS_Interval
      <3> HIDE DEF failed
      <3> QED BY <3>1, FS_Subset
    <2>3. Cardinality(failed) \in Nat
      BY <2>2, FS_CardinalityType
    <2>4. /\ audit' = 1 + Cardinality(failed)
          /\ UNCHANGED <<now, next_obj, kind, running, queue, capVars>>
      BY <1>6 DEF BatchSubmit, Audited
    <2> HIDE DEF failed
    <2>5. ObjectType'
      BY <2>3, <2>4 DEF IInv, ObjectType
    <2> QED BY <2>4, <2>5, QuietStep
  <1> QED BY <1>1, <1>2, <1>3, <1>4, <1>5, <1>6 DEF Use

LEMMA NextIInv == IInv /\ [Next]_vars => IInv'
  <1> SUFFICES ASSUME IInv, [Next]_vars PROVE IInv'
    OBVIOUS
  <1>1. CASE UNCHANGED vars
    <2>1. ObjectType'
      BY <1>1 DEF vars, objectVars, IInv, ObjectType
    <2> QED BY <1>1, <2>1, QuietStep DEF vars, objectVars
  <1>2. CASE Next
    BY <1>2, AdvanceStep, RefusedStep, CreateStep, DerivationStep, UseStep
    DEF Next, ObserveOrRefuse
  <1> QED BY <1>1, <1>2

LEMMA AlwaysIInv == Spec => []IInv
  BY InitIInv, NextIInv, PTL DEF Spec

-----------------------------------------------------------------------------
(* The theorems.                                                           *)

(* Every operation of the kernel keeps the types of its maps and counters.  *)
THEOREM TypeCorrect == Spec => []TypeOK
  <1>1. IInv => TypeOK
    BY DEF IInv, CapInv, TypeOK
  <1> QED BY <1>1, AlwaysIInv, PTL

(* mint_into and remove_cap keep the four maps in step: no dangling cap      *)
(* ever survives a removal.                                                 *)
THEOREM NoDanglingCap == Spec => []Bookkeeping
  <1>1. IInv => Bookkeeping
    BY DEF IInv, CapInv
  <1> QED BY <1>1, AlwaysIInv, PTL

(* No chain of copies, grants and grant_mints exceeds the rights the object  *)
(* was created with, and only tasks ever hold a capability.                 *)
THEOREM AuthorityBounded == Spec => []AuthorityWithinCreation
  <1>1. IInv => AuthorityWithinCreation
    BY DEF IInv
  <1> QED BY <1>1, AlwaysIInv, PTL

(* A revoke reaches every descendant at any depth, unless an owner           *)
(* destroyed a capability in between.  A least live capability with a       *)
(* revoked ancestor and no destroyed one would have a live parent, by       *)
(* NoChildOfRevoked, and that parent would be a smaller one.                *)
THEOREM RevokeReachesAnyDepth == Spec => []RevocationReaches
  <1>1. IInv => RevocationReaches
    <2> SUFFICES ASSUME IInv PROVE RevocationReaches
      OBVIOUS
    <2> DEFINE bad == {c \in Live : lineage[c] \cap revoked # {} /\
                                    lineage[c] \cap Destroyed = {}}
    <2>1. bad \in SUBSET Nat
      BY Bounds DEF Live, CapId
    <2>2. ASSUME bad # {} PROVE FALSE
      <3>1. PICK c \in bad : \A e \in bad : c <= e
        BY <2>1, <2>2, LeastNat
      <3>2. /\ parents[c] \in CapId /\ parents[c] < c
            /\ lineage[c] = lineage[parents[c]] \cup {parents[c]}
        BY <3>1 DEF IInv, CapInv, LineageInv
      <3>3. parents[c] \notin revoked /\ parents[c] \notin Destroyed
        BY <3>1, <3>2 DEF IInv, CapInv, NoChildOfRevoked
      <3>4. c \in CapId /\ c <= next_cap /\ next_cap \in CapId
        BY <3>1 DEF IInv, CapInv, CapType, FreshCaps, Live, CapId
      <3>5. parents[c] \in 1..next_cap
        BY <3>2, <3>4 DEF CapId
      <3>6. parents[c] \in Live
        BY <3>3, <3>5 DEF Destroyed
      <3>7. parents[c] \in bad
        BY <3>1, <3>2, <3>3, <3>6
      <3> HIDE DEF bad
      <3> QED BY <3>1, <3>2, <3>4, <3>7 DEF CapId
    <2> QED BY <2>2 DEF RevocationReaches
  <1> QED BY <1>1, AlwaysIInv, PTL

(* What a step may do to a slot: keep it, empty it, or fill an empty one,    *)
(* with a capability to an object made in that step or one derived from     *)
(* what the caller holds.                                                   *)
SlotStep(p) ==
    \/ cspaces'[p] = cspaces[p] \/ cspaces'[p] = Empty
    \/ /\ cspaces[p] = Empty /\ kind[cspaces'[p].obj] = "none"
       /\ p[1] = minter' \/ ~ Task(p[1])
    \/ cspaces[p] = Empty /\ Narrows(p) /\ (p[1] = minter' \/ Consented(p))

LEMMA ClampBelowParent ==
    ASSUME NEW req \in Expiry, NEW exp \in Expiry
    PROVE  ClampExpiry(req, exp) <= exp
  <1>1. req \in Nat /\ exp \in Nat
    BY Bounds DEF Expiry, Never
  <1> QED BY <1>1 DEF ClampExpiry

LEMMA DeriveSlots ==
    ASSUME IInv, NEW t \in ObjectId, NEW s \in Slot, Usable(t, s, {"GRANT"}),
           NEW dst \in ObjectId, NEW rights, NEW parent, NEW req \in Expiry,
           dst = t \/ \E d \in Slot : Consents(t, d) /\ cspaces[<<t, d>>].obj = dst,
           Derive(t, s, dst, rights, parent, req), NEW p \in Place
    PROVE  SlotStep(p)
  <1> DEFINE src == cspaces[<<t, s>>]
             place == <<dst, FirstFree(dst)>>
             inst == [obj |-> src.obj, rights |-> rights \cap src.rights,
                      parent |-> parent, expires_at |-> ClampExpiry(req, src.expires_at)]
  <1>1. CASE FreeSlots(dst) = {} /\ Refused
    BY <1>1 DEF Refused, capVars, SlotStep
  <1>2. CASE FreeSlots(dst) # {}
    <2>1. cspaces' = [cspaces EXCEPT ![place] = inst] /\ minter' = t
      BY <1>2 DEF Derive, MintInto
    <2>2. FirstFree(dst) \in Slot /\ cspaces[place] = Empty
      BY <1>2, FirstFreeIsFree
    <2>3. CASE p # place
      BY <2>1, <2>3 DEF SlotStep, IInv, CapInv, CapType
    <2>4. CASE p = place
      <3>1. cspaces'[p] = inst /\ p[1] = dst /\ cspaces[p] = Empty
        BY <2>1, <2>2, <2>4 DEF IInv, CapInv, CapType
      <3>2. src.expires_at \in Expiry
        BY LookupIsLive DEF IInv, Usable, CapInstance
      <3>3. ClampExpiry(req, src.expires_at) <= src.expires_at
        BY <3>2, ClampBelowParent
      <3>4. Narrows(p)
        BY <2>1, <3>1, <3>3 DEF Narrows
      <3>5. p[1] = minter' \/ Consented(p)
        BY <2>1, <3>1 DEF Consented, Consents
      <3> QED BY <3>1, <3>4, <3>5 DEF SlotStep
    <2> QED BY <2>3, <2>4
  <1> QED BY <1>1, <1>2 DEF Derive

LEMMA DerivationSlots ==
    ASSUME IInv, NEW t \in ObjectId, Derivation(t), NEW p \in Place PROVE SlotStep(p)
  <1>1. ASSUME NEW s \in Slot, NEW r \in RightsArgs, Copy(t, s, r) PROVE SlotStep(p)
    <2>1. Never \in Expiry
      BY Bounds DEF Expiry, Never
    <2> QED BY <1>1, <2>1, DeriveSlots DEF Copy
  <1>2. ASSUME NEW s \in Slot, NEW d \in Slot, NEW r \in RightsArgs,
               NEW e \in ExpiryArgs, NEW parent, Usable(t, s, {"GRANT"}), Consents(t, d),
               Derive(t, s, cspaces[<<t, d>>].obj, r, parent, e)
        PROVE  SlotStep(p)
    <2>1. cspaces[<<t, d>>].obj \in ObjectId /\ e \in Expiry
      BY <1>2, ConsentNamesTask, Arguments
    <2> QED BY <1>2, <2>1, DeriveSlots
  <1>3. ASSUME NEW doomed, RemoveCaps(doomed) PROVE SlotStep(p)
    BY <1>3 DEF RemoveCaps, SlotStep
  <1> QED BY <1>1, <1>2, <1>3 DEF Derivation, Grant, GrantMint, Destroy, Revoke

LEMMA CreateSlots ==
    ASSUME IInv, NEW t \in ObjectId, Task(t), NEW s \in Slot, Create(t, s),
           NEW p \in Place
    PROVE  SlotStep(p)
  <1>1. next_obj < MaxObj /\ kind[next_obj + 1] = "none"
    <2>1. next_obj < MaxObj
      BY DEF Create, CreateRefused, CreateTask, CreateObject, NewObject
    <2> QED BY <2>1, Bounds DEF IInv, ObjectType, FreshObjects, ObjectId
  <1>2. ASSUME NEW k, CreateRefused(t, s, k) PROVE SlotStep(p)
    BY <1>2 DEF CreateRefused, capVars, SlotStep
  <1>3. CASE CreateTask(t, s)
    <2> DEFINE u == next_obj + 1
               mine == <<t, FirstFree(t)>>
               self == <<u, 0>>
               cap(q) == [obj |-> u, rights |-> Rights, parent |-> q,
                          expires_at |-> Never]
    <2>1. /\ cspaces' = [cspaces EXCEPT ![mine] = cap(Root), ![self] = cap(next_cap + 1)]
          /\ minter' = t
      BY <1>3 DEF CreateTask
    <2>2. FirstFree(t) \in Slot /\ cspaces[mine] = Empty
      BY <1>3, FirstFreeIsFree DEF CreateTask
    <2>3. ~ Task(u) /\ self[1] = u /\ mine[1] = t /\ cap(Root).obj = u
          /\ cap(next_cap + 1).obj = u
      BY <1>1 DEF Task
    <2>4. p = self => cspaces[p] = Empty
      BY <2>3 DEF IInv, AuthorityWithinCreation
    <2> HIDE DEF mine, self, cap
    <2>5. CASE p = mine
      <3>1. cspaces'[p].obj = u
        BY <2>1, <2>3, <2>5 DEF IInv, CapInv, CapType
      <3> QED BY <1>1, <2>1, <2>2, <2>3, <2>5, <3>1 DEF SlotStep
    <2>6. CASE p = self
      <3>1. cspaces'[p].obj = u
        BY <2>1, <2>3, <2>6 DEF IInv, CapInv, CapType
      <3> QED BY <1>1, <2>3, <2>4, <2>6, <3>1 DEF SlotStep
    <2>7. CASE p # mine /\ p # self
      BY <2>1, <2>7 DEF IInv, CapInv, CapType, SlotStep
    <2> QED BY <2>5, <2>6, <2>7
  <1>4. ASSUME NEW k, CreateObject(t, s, k) PROVE SlotStep(p)
    <2> DEFINE place == <<t, FirstFree(t)>>
               inst == [obj |-> next_obj + 1, rights |-> CreationRights(k),
                        parent |-> Root, expires_at |-> ClampExpiry(Never, Never)]
    <2>1. cspaces' = [cspaces EXCEPT ![place] = inst] /\ minter' = t
      BY <1>4 DEF CreateObject, MintInto
    <2>2. FirstFree(t) \in Slot /\ cspaces[place] = Empty
      BY <1>4, FirstFreeIsFree DEF CreateObject
    <2>3. place[1] = t /\ inst.obj = next_obj + 1
      OBVIOUS
    <2>4. cspaces \in [Place -> CapInstance \cup {Empty}]
      BY DEF IInv, CapInv, CapType
    <2> HIDE DEF place, inst
    <2>5. CASE p = place
      <3>1. cspaces'[p] = inst
        BY <2>1, <2>4, <2>5
      <3> QED BY <1>1, <2>1, <2>2, <2>3, <2>5, <3>1 DEF SlotStep
    <2>6. CASE p # place
      <3>1. cspaces'[p] = cspaces[p]
        BY <2>1, <2>4, <2>6
      <3> QED BY <3>1 DEF SlotStep
    <2> QED BY <2>5, <2>6
  <1> QED BY <1>2, <1>3, <1>4 DEF Create

LEMMA NextSlots ==
    ASSUME IInv, [Next]_vars, NEW p \in Place PROVE SlotStep(p)
  <1>1. CASE cspaces' = cspaces
    BY <1>1 DEF SlotStep
  <1>2. ASSUME NEW t, Use(t) PROVE cspaces' = cspaces
    BY <1>2 DEF Use, EpSend, EpRecv, MemRead, MemWrite, SetRunning, BatchSubmit, capVars
  <1>3. Advance \/ Refused \/ UNCHANGED vars => cspaces' = cspaces
    BY DEF Advance, Refused, vars, capVars
  <1> QED BY <1>1, <1>2, <1>3, CreateSlots, DerivationSlots DEF Next, ObserveOrRefuse

(* I2, I3 and I5: every capability minted to an object that already existed  *)
(* is a narrowing of one its caller held, usable and with GRANT.            *)
THEOREM EveryMintNarrows == Spec => DerivationNarrows
  <1>1. IInv /\ [Next]_vars =>
          [\A p \in Place : NewCap(p) /\ kind[cspaces'[p].obj] # "none" => Narrows(p)]_vars
    BY NextSlots DEF SlotStep, NewCap
  <1> QED BY <1>1, AlwaysIInv, PTL DEF Spec, DerivationNarrows

(* I6: another task's table is written only with that task's consent.       *)
THEOREM EveryGrantConsented == Spec => GrantConsent
  <1>1. IInv /\ [Next]_vars =>
          [\A p \in Place : NewCap(p) /\ Task(p[1]) /\ minter' # p[1] => Consented(p)]_vars
    BY NextSlots DEF SlotStep, NewCap
  <1> QED BY <1>1, AlwaysIInv, PTL DEF Spec, GrantConsent

(* Once no task can delegate an object, none ever can again: the clock only  *)
(* moves forward, and a new capability needs a usable one with GRANT.       *)
THEOREM NoResurrection == Spec => DeadAuthorityStaysDead
  <1>1. ASSUME IInv, [Next]_vars, NEW o \in ObjectId, kind[o] # "none", Delegable(o)'
        PROVE  Delegable(o)
    <2>1. PICK t \in ObjectId, s \in Slot :
              /\ cspaces'[<<t, s>>] # Empty /\ now' <= cspaces'[<<t, s>>].expires_at
              /\ "GRANT" \in cspaces'[<<t, s>>].rights /\ cspaces'[<<t, s>>].obj = o
      BY <1>1 DEF Delegable, Usable, Lookup, Occupied
    <2>2. <<t, s>> \in Place /\ SlotStep(<<t, s>>) /\ IInv'
      BY <1>1, NextSlots, NextIInv DEF Place
    <2>3. CASE cspaces'[<<t, s>>] = cspaces[<<t, s>>]
      <3>1. now \in Nat /\ now <= now' /\ now' \in Nat
        <4>1. ASSUME NEW u, NEW x, Create(u, x) PROVE now' = now
          BY <4>1 DEF Create, CreateRefused, CreateTask, CreateObject, NewObject
        <4>2. ASSUME NEW u, Derivation(u) PROVE now' = now
          <5>1. Refused => now' = now
            BY DEF Refused
          <5>2. ASSUME NEW v, NEW x, NEW dst, NEW rights, NEW parent, NEW e,
                       Derive(v, x, dst, rights, parent, e)
                PROVE  now' = now
            BY <5>1, <5>2 DEF Derive
          <5>3. ASSUME NEW v, NEW x, Destroy(v, x) \/ Revoke(v, x) PROVE now' = now
            BY <5>1, <5>3 DEF Destroy, Revoke
          <5>4. ASSUME NEW v, NEW x, NEW r, Copy(v, x, r) PROVE now' = now
            BY <5>2, <5>4 DEF Copy
          <5>5. ASSUME NEW v, NEW x, NEW d, NEW r, NEW e, Grant(v, x, d, r, e)
                PROVE  now' = now
            BY <5>2, <5>5 DEF Grant
          <5>6. ASSUME NEW v, NEW g, NEW x, NEW d, NEW r, NEW e,
                       GrantMint(v, g, x, d, r, e)
                PROVE  now' = now
            BY <5>2, <5>6 DEF GrantMint
          <5> QED BY <4>2, <5>3, <5>4, <5>5, <5>6 DEF Derivation
        <4>3. ASSUME NEW u, Use(u) PROVE now' = now
          BY <4>3 DEF Use, EpSend, EpRecv, MemRead, MemWrite, SetRunning, BatchSubmit
        <4>4. Advance => now' = now + 1
          BY DEF Advance
        <4>5. Refused \/ UNCHANGED vars => now' = now
          BY DEF Refused, vars
        <4>6. now' = now \/ now' = now + 1
          BY <1>1, <4>1, <4>2, <4>3, <4>4, <4>5 DEF Next, ObserveOrRefuse
        <4> QED BY <1>1, <4>6 DEF IInv, ObjectType
      <3>2. cspaces[<<t, s>>].expires_at \in Nat
        <4>1. cspaces \in [Place -> CapInstance \cup {Empty}]
          BY <1>1 DEF IInv, CapInv, CapType
        <4>2. cspaces[<<t, s>>] \in CapInstance
          BY <2>1, <2>2, <2>3, <4>1
        <4>3. cspaces[<<t, s>>].expires_at \in Expiry
          BY <4>2 DEF CapInstance
        <4> QED BY <4>3, Bounds DEF Expiry, Never
      <3>3. now' <= cspaces[<<t, s>>].expires_at
        BY <2>1, <2>3
      <3>4. now <= cspaces[<<t, s>>].expires_at
        BY <3>1, <3>2, <3>3, LeqTransitive
      <3> QED BY <2>1, <2>3, <3>4 DEF Delegable, Usable, Lookup, Occupied
    <2>4. CASE Narrows(<<t, s>>)
      <3>1. minter' \in ObjectId
        BY <2>2 DEF IInv, CapInv, CapType
      <3> QED BY <2>1, <2>4, <3>1 DEF Narrows, Delegable
    <2> QED BY <1>1, <2>1, <2>2, <2>3, <2>4 DEF SlotStep
  <1>2. IInv /\ [Next]_vars =>
          [\A o \in ObjectId : kind[o] # "none" /\ ~ Delegable(o) => ~ Delegable(o)']_vars
    BY <1>1
  <1> QED BY <1>2, AlwaysIInv, PTL DEF Spec, DeadAuthorityStaysDead
=============================================================================
