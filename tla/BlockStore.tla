----------------------------- MODULE BlockStore -----------------------------
(***************************************************************************)
(* The write-through content-addressed store (aegis-kernel/src/            *)
(* nvme_store.rs) over the polled NVMe driver (nvme.rs), sector by sector. *)
(*                                                                         *)
(* SHA-256 is taken to be injective, so the id of a block is its content.  *)
(* A sector write is atomic; a power failure falls between two of them.    *)
(* A put is data sector, index entry (two sectors for an entry that        *)
(* straddles), header count.  Reads change nothing and belong to the next  *)
(* write.                                                                  *)
(***************************************************************************)
EXTENDS Integers, Sequences

CONSTANTS
    MaxBlocks,    \* MAX_BLOCKS
    Straddling,   \* the slots whose 48-byte entry spans two index sectors
    Faults,       \* what the device may refuse: a "write", a "read"
    MaxTrouble    \* bound: failed writes and power failures

Slots == 0..(MaxBlocks - 1)
Zero == <<"zero">>         \* the anchor of a region never anchored
Blank == <<"blank">>       \* a sector no put has written

ASSUME StoreAssumption ==
    /\ MaxBlocks \in Nat /\ Straddling \subseteq Slots
    /\ Faults \subseteq {"write", "read"} /\ MaxTrouble \in Nat

VARIABLES
    header,   \* the header sector: magic present, committed count, view anchor
    index,    \* the index entries: id, and whether lba and len belong to it
    data,     \* the data sectors
    trouble,  \* failed writes and power failures so far
    count,    \* Store.count
    blob,     \* the block being put
    step      \* the sector the put writes next, or how it ended

diskVars == <<header, index, data>>
storeVars == <<header, index, data, trouble, count, blob, step>>

Step == {"none", "data", "entry", "rest", "header", "done", "failed"}

StoreInit ==
    /\ header = [magic |-> FALSE, count |-> 0, anchor |-> Zero]
    /\ index = [s \in Slots |-> [id |-> Blank, whole |-> FALSE]]
    /\ data = [s \in Slots |-> Blank]
    /\ trouble = 0 /\ count = 0 /\ blob = Blank /\ step = "none"

-----------------------------------------------------------------------------
(* read_sector: the sector was read, or the command ended in an error.        *)
SectorRead == {TRUE} \cup (IF "read" \in Faults THEN {FALSE} ELSE {})

(* write_sector: done, or ended with an error status and no effect.  `now`  *)
(* is the sector as it is, `new` what is written.                           *)
Outcome == IF trouble < MaxTrouble /\ "write" \in Faults THEN {TRUE, FALSE} ELSE {TRUE}
Written(ok, new, now) == IF ok THEN new ELSE now
Ended(ok) == trouble' = IF ok THEN trouble ELSE trouble + 1

(* Store::open of a region with the magic: the count comes from the disk.   *)
ForgetCount == 0
LoadCount == header.count

(* find: the first entry below count with this id.                          *)
Entries(b, n) == {s \in 0..(n - 1) : index[s].id = b}
Stored(b) == Entries(b, count) # {}

(* get and verify, for a handle that sees n blocks: the first entry with    *)
(* the id decides, and the sector it names must digest to the id.           *)
Readable(b, n) ==
    \E s \in Entries(b, n) :
        /\ index[s].whole /\ data[s] = b
        /\ \A r \in 0..(s - 1) : index[r].id # b

(* Mutant: dedup looks at the newest entry only.                            *)
FoundNewest(b) == count > 0 /\ index[count - 1].id = b
Found(b) == Stored(b)

(* Mutant: the last slot is taken for one before the end.                   *)
FullLate == count > MaxBlocks
Full == count >= MaxBlocks

(* put, up to its first write: dedup, a full region, or a new block.  A     *)
(* failed read of the index makes find miss.                                *)
PutBegin(b) ==
    /\ step = "none"
    /\ blob' = b
    /\ \/ Found(b) /\ step' = "done"
       \/ /\ ~ Found(b) \/ "read" \in Faults
          /\ step' = IF Full THEN "failed" ELSE "data"
    /\ UNCHANGED <<header, index, data, trouble, count>>

PutData ==
    /\ step = "data"
    /\ \E ok \in Outcome :
        /\ data' = Written(ok, [data EXCEPT ![count] = blob], data)
        /\ step' = IF ok THEN "entry" ELSE "failed"
        /\ Ended(ok)
    /\ UNCHANGED <<header, index, count, blob>>

(* write_index_entry, first sector, read before it is written.  An entry     *)
(* that straddles has its id here, or a part of it (the slots that begin 16 *)
(* bytes before the end of a sector): the rest, with the lba and the len, is *)
(* that of the slot's previous entry, which fits by chance or not.  No slot *)
(* at or above the count is read, so a part of an id stands for the id.     *)
PutEntry ==
    /\ step = "entry"
    /\ \E seen \in SectorRead, ok \in Outcome, fits \in BOOLEAN :
        LET whole == count \notin Straddling \/ (fits /\ index[count].whole) IN
        /\ index' = Written(seen /\ ok,
                            [index EXCEPT ![count] = [id |-> blob, whole |-> whole]], index)
        /\ step' = IF ~ (seen /\ ok) THEN "failed"
                   ELSE IF count \in Straddling THEN "rest" ELSE "header"
        /\ Ended(ok \/ ~ seen)
    /\ UNCHANGED <<header, data, count, blob>>

PutRest ==
    /\ step = "rest"
    /\ \E seen \in SectorRead, ok \in Outcome :
        /\ index' = Written(seen /\ ok, [index EXCEPT ![count].whole = TRUE], index)
        /\ step' = IF seen /\ ok THEN "header" ELSE "failed"
        /\ Ended(ok \/ ~ seen)
    /\ UNCHANGED <<header, data, count, blob>>

(* The tail of the header write_header keeps: what its read returned, or    *)
(* zeros, since it ignores a failed read.                                   *)
Tails == {header.anchor} \cup (IF "read" \in Faults THEN {Zero} ELSE {})

PutHeader ==
    /\ step = "header"
    /\ \E ok \in Outcome, tail \in Tails :
        /\ header' = Written(ok, [magic |-> TRUE, count |-> count + 1, anchor |-> tail],
                             header)
        /\ count' = IF ok THEN count + 1 ELSE count
        /\ step' = IF ok THEN "done" ELSE "failed"
        /\ Ended(ok)
    /\ UNCHANGED <<index, data, blob>>

PutStep == PutData \/ PutEntry \/ PutRest \/ PutHeader

(* Mutant: the anchor is left to the next count bump.                       *)
AnchorSkipped(ok, root) == header

(* set_anchor: magic, count and anchor in one write.                        *)
Anchored(ok, root) ==
    Written(ok, [magic |-> TRUE, count |-> count, anchor |-> root], header)

-----------------------------------------------------------------------------
StoreTypeOK ==
    /\ header.magic \in BOOLEAN /\ header.count \in 0..MaxBlocks
    /\ DOMAIN index = Slots /\ \A s \in Slots : index[s].whole \in BOOLEAN
    /\ DOMAIN data = Slots
    /\ trouble \in 0..MaxTrouble /\ count \in 0..MaxBlocks /\ step \in Step

(* "Identical bytes are the same block, stored once": the committed index    *)
(* never holds two entries for one content.                                 *)
StoredOnce ==
    \A s, r \in 0..(header.count - 1) : index[s].id = index[r].id => s = r

(* The count bump of a put never wipes an anchor that was set.              *)
AnchorNeverWiped == [][header.anchor # Zero => header'.anchor # Zero]_storeVars
=============================================================================
