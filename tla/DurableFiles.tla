---------------------------- MODULE DurableFiles ----------------------------
(***************************************************************************)
(* What the editor's file handle promises: one file at a time is written   *)
(* or removed, a request answered as done is on the disk, and a restart    *)
(* loses at most what was never answered as done.                          *)
(***************************************************************************)
CONSTANTS File, Value, Missing

VARIABLES
    cache,   \* the files as the running system reads them
    disk,    \* the files a restart would find
    asked,   \* the file being written and its new value, or <<>>
    reply    \* the answer to the last request

Init ==
    /\ cache = [f \in File |-> Missing] /\ disk = cache
    /\ asked = <<>> /\ reply = "none"

Ask ==
    /\ asked = <<>>
    /\ asked' \in File \X (Value \cup {Missing})
    /\ reply' = "none" /\ UNCHANGED <<cache, disk>>

Changed == [cache EXCEPT ![asked[1]] = asked[2]]

Refuse ==
    /\ asked' = <<>> /\ reply' \in {"none", "failed"} /\ UNCHANGED <<cache, disk>>

(* The file changes but a restart may lose it: nobody was told it is done.  *)
Cached ==
    /\ asked # <<>> /\ asked' = <<>>
    /\ reply' \in {"none", "failed"} /\ cache' = Changed
    /\ UNCHANGED disk

Saved ==
    /\ asked # <<>> /\ asked' = <<>>
    /\ reply' = "done" /\ cache' = Changed /\ disk' = Changed

Flush == asked = <<>> /\ disk' = cache /\ UNCHANGED <<cache, asked, reply>>

Restart == asked' = <<>> /\ reply' = "none" /\ cache' = disk /\ UNCHANGED disk

Next == Ask \/ Refuse \/ Cached \/ Saved \/ Flush \/ Restart

Spec == Init /\ [][Next]_<<cache, disk, asked, reply>>
=============================================================================
