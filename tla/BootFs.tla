------------------------------- MODULE BootFs -------------------------------
(***************************************************************************)
(* The boot view (aegis-kernel/src/update.rs: BootView), a copy-on-write   *)
(* directory tree in the block store, and the editor's file handle over it *)
(* (editor.rs: EditorFs), from the boot path that opens the store (main.rs)*)
(* through power failures at any sector write.                             *)
(*                                                                         *)
(* An operation puts its blocks from the leaf up to the new root, repoints *)
(* the view in memory, and writes the root into the header (set_anchor).   *)
(***************************************************************************)
EXTENDS BlockStore, SequencesExt

CONSTANTS
    Folders,    \* the directories the browser makes, at the root
    Targets,    \* the files worked on: <<name>>, or <<folder, name>>
    Texts,      \* what the editor saves
    MaxFiles    \* VIEW_MAX_FILES, or what fits in a dir block

ASSUME FsAssumption ==
    /\ \A f \in Targets : Len(f) = 2 => f[1] \in Folders
    /\ MaxFiles \in Nat

Bytes(t) == <<"bytes", t>>
Dir(table) == <<"dir", table>>
EmptyDir == Dir(<<>>)
SEED == Bytes("seed")
Package == Bytes("package")
Newline == Bytes("newline")
Hello == Bytes("hello")
Garbage == <<"garbage">>

VARIABLES
    phase,   \* how far boot_kernel has come, or "off", "panic", "nostore"
    view,    \* BootView.dir
    job,     \* the operation in progress: the blocks it has yet to put, the
             \* root it ends with, whether it re-anchors, and what was asked
    reply    \* what the last operation answered

fsVars == <<phase, view, job, reply>>
vars == <<storeVars, fsVars>>

NoRoot == <<"none">>
Folder == <<"folder">>     \* what a directory looks like from outside
Missing == <<"missing">>   \* and a name that is not there
NoJob == [on |-> FALSE, todo |-> <<>>, root |-> NoRoot, commit |-> FALSE, ask |-> <<>>]

FsInit ==
    /\ StoreInit
    /\ phase = "off" /\ view = Zero /\ job = NoJob /\ reply = "none"

-----------------------------------------------------------------------------
(* Directory tables: a sequence of entries with distinct names.             *)
DirEntry(n, k, id) == [name |-> n, kind |-> k, id |-> id]

(* read_dir_block for a handle that sees n blocks: an unreadable block is    *)
(* an empty table.                                                          *)
TableAt(id, n) == IF id[1] = "dir" /\ Readable(id, n) THEN id[2] ELSE <<>>
Table(id) == TableAt(id, count)

(* What a read of a table may give.                                         *)
Reads(id) == {Table(id)} \cup (IF "read" \in Faults THEN {<<>>} ELSE {})

Has(t, n) == \E i \in DOMAIN t : t[i].name = n
At(t, n) == CHOOSE i \in DOMAIN t : t[i].name = n
Get(t, n) == t[At(t, n)]

(* set_entry_block: replace or append.                                      *)
SetEntry(t, n, k, id) == IF Has(t, n) THEN [t EXCEPT ![At(t, n)] = DirEntry(n, k, id)]
                         ELSE Append(t, DirEntry(n, k, id))

(* rewrite_entry_block and remove_entry_block.                              *)
RewriteEntry(t, n, id) == [t EXCEPT ![At(t, n)].id = id]
RemoveEntry(t, n) == SelectSeq(t, LAMBDA e : e.name # n)

(* resolve: the directory at a path, from the view; the empty path is the   *)
(* root.  Only paths of at most one name are used.                          *)
Resolves(path) ==
    path # <<>> => Has(Table(view), path[1]) /\ Get(Table(view), path[1]).kind = "dir"
Parent(path) == IF path = <<>> THEN view ELSE Get(Table(view), path[1]).id

(* commit_tree: the new dir block of the parent, and of every ancestor.     *)
Ancestors(path, new) ==
    IF path = <<>> THEN <<new>>
    ELSE <<new, Dir(RewriteEntry(Table(view), path[1], new))>>

-----------------------------------------------------------------------------
(* An operation puts `before`, then the directory blocks when there is a new *)
(* table for the parent (a set of at most one); else it has failed by then. *)
Job(before, path, tables, commit, ask) ==
    LET dirs == IF tables = {} THEN <<>>
                ELSE Ancestors(path, Dir(CHOOSE t \in tables : TRUE)) IN
    [on |-> TRUE, todo |-> before \o dirs,
     root |-> IF dirs = <<>> THEN NoRoot ELSE Last(dirs),
     commit |-> commit, ask |-> ask]

Fits(t) == IF Len(t) <= MaxFiles THEN {t} ELSE {}
Added(t, n, k, id) == IF Has(t, n) THEN {} ELSE Fits(SetEntry(t, n, k, id))

Begin(j) == job' = j /\ reply' = "none" /\ UNCHANGED <<storeVars, phase, view>>
RefuseOp == reply' = "failed" /\ UNCHANGED <<storeVars, phase, view, job>>

(* write_named and write_named_at.                                          *)
Save(path, n, text) ==
    \/ /\ Resolves(path)
       /\ \E t \in Reads(Parent(path)) :
            Begin(Job(<<Bytes(text)>>, path, Fits(SetEntry(t, n, "file", Bytes(text))),
                      TRUE, <<Append(path, n), Bytes(text)>>))
    \/ ~ Resolves(path) /\ RefuseOp

(* create_empty, at the root, looks the name up first and then replaces or    *)
(* adds.                                                                    *)
CreateEmpty(n) ==
    \E seen, t \in Reads(view) :
        \/ /\ ~ Has(seen, n)
           /\ Begin(Job(<<Newline>>, <<>>, Fits(SetEntry(t, n, "file", Newline)),
                        TRUE, <<<<n>>, Newline>>))
        \/ Has(seen, n) /\ RefuseOp

(* browser_create, in a folder, adds, with the content already put.          *)
BrowserCreate(path, n) ==
    \/ /\ Resolves(path)
       /\ \E t \in Reads(Parent(path)) :
            Begin(Job(<<Newline>>, path, Added(t, n, "file", Newline), TRUE,
                      <<Append(path, n), Newline>>))
    \/ ~ Resolves(path) /\ RefuseOp

Create(path, n) == IF path = <<>> THEN CreateEmpty(n) ELSE BrowserCreate(path, n)

(* browser_mkdir, at the root.                                              *)
Mkdir(n) ==
    \E t \in Reads(view) :
        Begin(Job(<<EmptyDir>>, <<>>, Added(t, n, "dir", EmptyDir), TRUE,
                  <<<<n>>, Folder>>))

(* remove_named and remove_named_at: files only.                            *)
RemoveFile(path, n) ==
    LET file(t) == Has(t, n) /\ Get(t, n).kind = "file" IN
    \/ /\ Resolves(path)
       /\ \E seen, t \in Reads(Parent(path)) :
            \/ /\ file(seen)
               /\ Begin(Job(<<>>, path, IF Has(t, n) THEN {RemoveEntry(t, n)} ELSE {},
                            TRUE, <<Append(path, n), Missing>>))
            \/ ~ file(seen) /\ RefuseOp
    \/ ~ Resolves(path) /\ RefuseOp

-----------------------------------------------------------------------------
(* Boot.  After a phase's job: where a success and a failure lead.  An       *)
(* expect or unwrap of the boot path panics; the seeds of aa_seed, those of  *)
(* a reopened view and the first anchor may fail without notice.            *)
After(ok) ==
    CASE phase = "hello"  -> IF ok THEN "corrupt" ELSE "panic"
      [] phase = "create" -> IF ok THEN "seed" ELSE "panic"
      [] phase = "seed"   -> IF ok THEN "anchor" ELSE "panic"
      [] phase \in {"reseed", "anchor"} -> "packages"
      [] OTHER            -> "up"

(* Store::open: a header that cannot be read, or a count out of range, is     *)
(* refused; a region without the magic is initialised, its count is 0.      *)
Open ==
    /\ phase = "off"
    /\ \E seen \in SectorRead :
        \/ /\ header.magic \/ ~ seen
           /\ count' = LoadCount
           /\ phase' = IF seen /\ header.count <= MaxBlocks THEN "hello" ELSE "nostore"
           /\ UNCHANGED <<header, trouble>>
        \/ /\ ~ header.magic /\ seen
           /\ \E ok \in Outcome :
                /\ header' = Written(ok, [header EXCEPT !.magic = TRUE, !.count = 0], header)
                /\ phase' = IF ok THEN "hello" ELSE "nostore"
                /\ Ended(ok)
           /\ count' = 0
    /\ UNCHANGED <<index, data, blob, step, view, job, reply>>

Idle == ~ job.on /\ step = "none"

(* The demonstration at the start of the boot path: a first block is put,    *)
(* and then its sector is overwritten.                                      *)
PutHello == phase = "hello" /\ Idle /\ Begin([NoJob EXCEPT !.on = TRUE,
                                                            !.todo = <<Hello>>, !.root = view])

CorruptHello ==
    /\ phase = "corrupt"
    /\ \E ok \in Outcome : data' = Written(ok, [data EXCEPT ![0] = Garbage], data) /\ Ended(ok)
    /\ phase' = "attach"
    /\ UNCHANGED <<header, index, count, blob, step, view, job, reply>>

(* The anchor decides between a reopened view and a first boot; so does a    *)
(* failure to read it.                                                      *)
Attach ==
    /\ phase = "attach"
    /\ \/ /\ header.anchor # Zero
          /\ view' = header.anchor /\ phase' = "reseed"
       \/ /\ header.anchor = Zero \/ "read" \in Faults
          /\ phase' = "create" /\ UNCHANGED view
    /\ UNCHANGED <<storeVars, job, reply>>

CreateView ==
    /\ phase = "create" /\ Idle
    /\ Begin([NoJob EXCEPT !.on = TRUE, !.todo = <<EmptyDir>>, !.root = EmptyDir])

(* seed_if_absent and aa_seed: write_file, without set_anchor.  The three    *)
(* files of aa_seed are handled alike; one stands for them.                 *)
SeedFile(n, content) ==
    /\ Idle
    /\ \E seen, t \in Reads(view) :
        \/ /\ ~ Has(seen, n)
           /\ Begin(Job(<<content>>, <<>>, Fits(SetEntry(t, n, "file", content)), FALSE,
                        <<<<n>>, content>>))
        \/ /\ Has(seen, n)
           /\ phase' = After(TRUE) /\ UNCHANGED <<storeVars, view, job, reply>>

Seed == phase \in {"seed", "reseed"} /\ SeedFile("memo", SEED)
SeedPackages == phase = "packages" /\ SeedFile("pkg", Package)

FirstAnchor ==
    /\ phase = "anchor" /\ Idle
    /\ Begin([NoJob EXCEPT !.on = TRUE, !.root = view, !.commit = TRUE])

Boot == Open \/ PutHello \/ CorruptHello \/ Attach \/ CreateView \/ Seed \/ SeedPackages
        \/ FirstAnchor

-----------------------------------------------------------------------------
(* The job: its puts in order, then the new root.                           *)
Ends(ok, answer) ==
    /\ job' = NoJob /\ phase' = After(ok)
    /\ reply' = IF phase = "up" THEN answer ELSE "none"

JobPut ==
    /\ job.on /\ job.todo # <<>> /\ PutBegin(Head(job.todo))
    /\ UNCHANGED fsVars

JobNext ==
    /\ step = "done"
    /\ job' = [job EXCEPT !.todo = Tail(@)] /\ step' = "none" /\ blob' = Blank
    /\ UNCHANGED <<header, index, data, trouble, count, phase, view, reply>>

(* A put that failed, or a directory on the way up that cannot be read.     *)
JobFail ==
    /\ \/ step = "failed"
       \/ /\ job.on /\ step = "none"
          /\ IF job.todo = <<>> THEN job.root = NoRoot ELSE "read" \in Faults
    /\ Ends(FALSE, "failed") /\ step' = "none" /\ blob' = Blank
    /\ UNCHANGED <<header, index, data, trouble, count, view>>

(* view.dir = root, then set_anchor when the operation re-anchors; it does   *)
(* not write when its read of the header fails.                             *)
JobCommit ==
    /\ job.on /\ step = "none" /\ job.todo = <<>> /\ job.root # NoRoot
    /\ view' = job.root
    /\ \/ ~ job.commit /\ Ends(TRUE, "none") /\ UNCHANGED <<header, trouble>>
       \/ /\ job.commit
          /\ \E ok \in Outcome, seen \in SectorRead :
               /\ header' = Anchored(ok /\ seen, job.root)
               /\ Ends(TRUE, IF ok /\ seen THEN "done" ELSE "failed")
               /\ Ended(ok \/ ~ seen)
    /\ UNCHANGED <<index, data, count, blob, step>>

(* The power fails: only the disk is left, and the controller is reset.      *)
Crash ==
    /\ phase # "off" /\ trouble < MaxTrouble /\ trouble' = trouble + 1
    /\ phase' = "off" /\ view' = Zero /\ job' = NoJob /\ reply' = "none"
    /\ count' = 0 /\ blob' = Blank /\ step' = "none"
    /\ UNCHANGED diskVars

Work == JobPut \/ (PutStep /\ UNCHANGED fsVars) \/ JobNext \/ JobFail \/ JobCommit

UserOp ==
    /\ phase = "up" /\ Idle
    /\ \/ \E f \in Targets :
            \/ \E t \in Texts : Save(Front(f), Last(f), t)
            \/ Create(Front(f), Last(f))
            \/ RemoveFile(Front(f), Last(f))
       \/ \E d \in Folders : Mkdir(d)

Next == Boot \/ UserOp \/ Work \/ Crash

Spec == FsInit /\ [][Next]_vars

-----------------------------------------------------------------------------
(* Properties.                                                              *)

FsTypeOK ==
    /\ StoreTypeOK
    /\ phase \in {"off", "nostore", "panic", "hello", "corrupt", "attach", "create", "seed",
                  "reseed", "anchor", "packages", "up"}
    /\ job.on \in BOOLEAN /\ job.commit \in BOOLEAN
    /\ reply \in {"none", "done", "failed"}
    /\ Len(Table(view)) <= MaxFiles

(* The files a handle that sees n blocks finds below a root.                *)
File == Targets \cup {<<"memo">>, <<"pkg">>} \cup {<<d>> : d \in Folders}
Named(dir, a, n) == {e \in ToSet(TableAt(dir, n)) : e.name = a}
AtPath(root, f, n) ==
    IF Len(f) = 1 THEN Named(root, f[1], n)
    ELSE UNION {Named(d.id, f[2], n) : d \in {e \in Named(root, f[1], n) : e.kind = "dir"}}

(* A file whose bytes are those of the block the boot path damages counts by *)
(* its entry: put finds its id in the index and writes nothing.             *)
Sound(id, n) == id = Hello \/ Readable(id, n)
Shown(entries, n) ==
    {IF e.kind = "dir" THEN Folder ELSE e.id :
         e \in {x \in entries : x.kind = "dir" \/ Sound(x.id, n)}}
FilesBelow(root, n) ==
    [f \in File |-> LET c == Shown(AtPath(root, f, n), n)
                   IN IF c = {} THEN Missing ELSE CHOOSE v \in c : TRUE]

Attached == phase \in {"create", "seed", "reseed", "anchor", "packages", "up"}
Files == INSTANCE DurableFiles WITH
    Value <- {Bytes(t) : t \in Texts} \cup {SEED, Package, Newline, Folder},
    disk <- FilesBelow(header.anchor, header.count),
    cache <- IF Attached THEN FilesBelow(view, count)
                         ELSE FilesBelow(header.anchor, header.count),
    asked <- job.ask

(* A save, creation or removal answered as done survives any later power      *)
(* failure, changes its own file only, and nothing else ever changes what a  *)
(* restart finds, wherever between the sector writes of the puts and of      *)
(* set_anchor the power fails or a write ends in an error.  Of a file with   *)
(* the bytes of the hello block this says that its entry is durable.        *)
SavesAreDurable == Files!Spec

(* "No sector that ever held a committed block is written twice": no write   *)
(* touches the data sector or the entry of a slot below the count on disk,   *)
(* but for the deliberate corruption of the boot path.                      *)
CommittedStays ==
    [][phase # "corrupt" => \A s \in 0..(header.count - 1) :
           index'[s] = index[s] /\ data'[s] = data[s]]_vars
=============================================================================
