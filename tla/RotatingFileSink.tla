-------------------------- MODULE RotatingFileSink --------------------------
(***************************************************************************)
(* rotating_file_sink (sinks/rotating_file_sink-inl.h).  File 0 is the log,*)
(* file i the i-th latest one that was rotated away.  base_sink's mutex    *)
(* makes each call a critical section, so calls follow one another; their  *)
(* steps are separate because the process can end between any two, and    *)
(* be started again on the files it left.                                  *)
(*                                                                         *)
(* Messages are numbered in the order of sink_it_ and have the length of   *)
(* their formatted text.                                                   *)
(***************************************************************************)
EXTENDS FileHelper, FiniteSets

CONSTANTS
    MaxSize, MaxFiles,                  \* arguments of the constructor
    RotateOnOpen,               \* the values its third argument may have
    Sizes,                              \* lengths of formatted messages
    MayFail,                    \* a subset of {"open", "rename", "write"}
    MaxMessages,                        \* bound: messages in a behaviour
    MaxInterruptions                    \* bound: rotations that do not end

ASSUME RotatingAssumption ==
    /\ MaxSize \in Nat /\ MaxFiles \in Nat /\ RotateOnOpen \subseteq BOOLEAN
    /\ Sizes \subseteq Nat
    /\ MayFail \subseteq {"open", "rename", "write"}
    /\ MaxMessages \in Nat /\ MaxInterruptions \in Nat
    /\ Names = 0 .. MaxFiles

VARIABLES
    currentSize,    \* current_size_
    pc,             \* where the call in progress is
    caller,         \* the function that rotates: the constructor or sink_it_
    rotateOnOpen,   \* what this sink's constructor was told
    i,              \* the loop variable of rotate_
    formatted,      \* the length of the message in hand
    nextId,         \* the number of the next message
    failed,         \* history: what has failed so far
    interruptions   \* history: how many rotations did not end

callVars == <<caller, rotateOnOpen, formatted, nextId>>
history == <<failed, interruptions>>
sinkVars == <<currentSize, pc, i, callVars, history>>
vars == <<fileVars, sinkVars>>

Init ==
    /\ FileInit({0})
    /\ currentSize = 0
    /\ pc = "none"          \* there is no sink
    /\ caller = "constructor"
    /\ rotateOnOpen = FALSE
    /\ i = 0
    /\ formatted = 0
    /\ nextId = 1
    /\ failed = {}
    /\ interruptions = 0

Fails(what) ==
    /\ what \in MayFail
    /\ failed' = failed \cup {what}

(* rotate_ does not get to its end. *)
Interrupted ==
    /\ interruptions < MaxInterruptions
    /\ interruptions' = interruptions + 1

-----------------------------------------------------------------------------
(* Fault: the log is opened in the mode that truncates it. *)
Construct_truncates ==
    /\ pc = "none"
    /\ Open(0, TRUE)
    /\ currentSize' = files'[0].bytes
    /\ caller' = "constructor"
    /\ rotateOnOpen' = FALSE
    /\ pc' = "idle"
    /\ UNCHANGED <<i, formatted, nextId, history>>

(* The constructor opens the log to append to it. *)
Construct ==
    /\ pc = "none"
    /\ Open(0, FALSE)
    /\ currentSize' = files'[0].bytes
    /\ caller' = "constructor"
    /\ rotateOnOpen' \in RotateOnOpen
    /\ pc' = IF rotateOnOpen' /\ currentSize' > 0 THEN "close" ELSE "idle"
    /\ UNCHANGED <<i, formatted, nextId, history>>

ConstructThrows ==
    /\ pc = "none"
    /\ OpenThrows(0, FALSE)
    /\ Fails("open")
    /\ UNCHANGED <<currentSize, pc, callVars, i, interruptions>>

(* Faults: the length before the message decides; a log of MaxSize is over *)
(* the limit.                                                              *)
SinkIt_ignores_message(size) ==
    /\ pc = "idle" /\ nextId <= MaxMessages
    /\ formatted' = size
    /\ currentSize' = currentSize + size
    /\ caller' = "sink_it_"
    /\ pc' = IF currentSize > MaxSize THEN "close" ELSE "write"
    /\ nextId' = nextId + 1
    /\ UNCHANGED <<fileVars, rotateOnOpen, i, history>>

SinkIt_rotates_full(size) ==
    /\ pc = "idle" /\ nextId <= MaxMessages
    /\ formatted' = size
    /\ currentSize' = currentSize + size
    /\ caller' = "sink_it_"
    /\ pc' = IF currentSize' >= MaxSize THEN "close" ELSE "write"
    /\ nextId' = nextId + 1
    /\ UNCHANGED <<fileVars, rotateOnOpen, i, history>>

(* sink_it_ formats the message and decides whether it still fits. *)
SinkIt(size) ==
    /\ pc = "idle" /\ nextId <= MaxMessages
    /\ formatted' = size
    /\ currentSize' = currentSize + size
    /\ caller' = "sink_it_"
    /\ pc' = IF currentSize' > MaxSize THEN "close" ELSE "write"
    /\ nextId' = nextId + 1
    /\ UNCHANGED <<fileVars, rotateOnOpen, i, history>>

-----------------------------------------------------------------------------
(* Fault: the loop begins one file too far. *)
RotateClose_one_more ==
    /\ pc = "close"
    /\ Close
    /\ i' = MaxFiles + 1
    /\ pc' = IF MaxFiles > 0 THEN "shift" ELSE "reopen"
    /\ UNCHANGED <<currentSize, callVars, history>>

(* rotate_: close the log, then shift the files from the oldest on. *)
RotateClose ==
    /\ pc = "close"
    /\ Close
    /\ i' = MaxFiles
    /\ pc' = IF MaxFiles > 0 THEN "shift" ELSE "reopen"
    /\ UNCHANGED <<currentSize, callVars, history>>

(* One turn of the loop is over: i goes down. *)
NextTurn ==
    /\ i' = i - 1
    /\ pc' = IF i > 1 THEN "shift" ELSE "reopen"

(* Fault: the first file that is missing ends the loop. *)
SkipMissing_breaks ==
    /\ pc = "shift"
    /\ ~files[i - 1].there
    /\ pc' = "reopen" /\ i' = 0
    /\ UNCHANGED <<fileVars, currentSize, callVars, history>>

SkipMissing ==
    /\ pc = "shift"
    /\ ~files[i - 1].there
    /\ NextTurn
    /\ UNCHANGED <<fileVars, currentSize, callVars, history>>

(* rename_file_ removes the target ... *)
RemoveTarget ==
    /\ pc = "shift"
    /\ files[i - 1].there
    /\ files' = [files EXCEPT ![i] = NoFile]
    /\ pc' = "rename"
    /\ UNCHANGED <<streamVars, currentSize, callVars, i, history>>

(* Fault: the log is renamed, whatever the turn. *)
Rename_the_log ==
    /\ pc = "rename"
    /\ files' = [files EXCEPT ![i] = files[0], ![0] = NoFile]
    /\ NextTurn
    /\ UNCHANGED <<streamVars, currentSize, callVars, history>>

(* ... and renames the source, with a second try after a pause. *)
Rename ==
    /\ pc = "rename"
    /\ files' = [files EXCEPT ![i] = files[i - 1], ![i - 1] = NoFile]
    /\ NextTurn
    /\ UNCHANGED <<streamVars, currentSize, callVars, history>>

(* Both tries fail: the log is truncated nevertheless, and rotate_ throws. *)
RenameFails ==
    /\ pc = "rename"
    /\ Fails("rename")
    /\ Interrupted
    /\ pc' = "recover"
    /\ UNCHANGED <<fileVars, currentSize, callVars, i>>

Recover ==
    /\ pc = "recover"
    /\ Open(0, TRUE)
    /\ pc' = IF caller = "constructor" THEN "abandon" ELSE "idle"
    /\ currentSize' = 0
    /\ UNCHANGED <<callVars, i, history>>

(* The end of rotate_; sink_it_ then starts to count afresh, the constructor *)
(* does not.                                                                *)
Reopen ==
    /\ pc = "reopen"
    /\ Open(filename_, TRUE)
    /\ IF caller = "constructor"
       THEN pc' = "idle" /\ UNCHANGED currentSize
       ELSE pc' = "write" /\ currentSize' = formatted
    /\ UNCHANGED <<callVars, i, history>>

(* Fault: the size is reset before the new file is open. *)
ReopenThrows_resets_size ==
    /\ pc \in {"reopen", "recover"}
    /\ OpenThrows(filename_, TRUE)
    /\ Fails("open")
    /\ Interrupted
    /\ pc' = IF caller = "constructor" THEN "none" ELSE "idle"
    /\ currentSize' = 0
    /\ UNCHANGED <<callVars, i>>

(* The exception leaves sink_it_, and the sink stays without a stream; or    *)
(* the constructor, and there is no sink.                                  *)
ReopenThrows ==
    /\ pc \in {"reopen", "recover"}
    /\ OpenThrows(filename_, TRUE)
    /\ Fails("open")
    /\ Interrupted
    /\ pc' = IF caller = "constructor" THEN "none" ELSE "idle"
    /\ UNCHANGED <<currentSize, callVars, i>>

(* file_helper's destructor, when the constructor throws with the log open. *)
Abandon ==
    /\ pc = "abandon"
    /\ Close
    /\ pc' = "none"
    /\ UNCHANGED <<currentSize, callVars, i, history>>

-----------------------------------------------------------------------------
(* The write that ends sink_it_, or throws with the message not written. *)
WriteMessage ==
    /\ pc = "write"
    /\ Write(nextId - 1, formatted)
    /\ pc' = "idle"
    /\ UNCHANGED <<currentSize, callVars, i, history>>

WriteThrows ==
    /\ pc = "write"
    /\ Fails("write")
    /\ pc' = "idle"
    /\ UNCHANGED <<fileVars, currentSize, callVars, i, interruptions>>

(* flush_; fflush(nullptr) is allowed.  The C library passes the buffer on *)
(* by itself as well.                                                      *)
FlushSink ==
    /\ pc \in {"idle", "write"} /\ buffer # Nothing
    /\ Flush
    /\ UNCHANGED sinkVars

Destroy ==
    /\ pc = "idle"
    /\ Close
    /\ pc' = "none"
    /\ UNCHANGED <<currentSize, callVars, i, history>>

Crash ==
    /\ pc # "none"
    /\ StreamIsLost
    /\ pc' = "none"
    /\ IF pc \in {"shift", "rename", "recover", "reopen"}
       THEN Interrupted
       ELSE UNCHANGED interruptions
    /\ UNCHANGED <<currentSize, callVars, i, failed>>

Next ==
    \/ Construct \/ ConstructThrows
    \/ \E size \in Sizes : SinkIt(size)
    \/ RotateClose \/ SkipMissing \/ RemoveTarget \/ Rename
    \/ RenameFails \/ Recover \/ Reopen \/ ReopenThrows \/ Abandon
    \/ WriteMessage \/ WriteThrows
    \/ FlushSink \/ Destroy \/ Crash

Spec == Init /\ [][Next]_vars

-----------------------------------------------------------------------------
TypeOK ==
    /\ FileTypeOK
    /\ currentSize \in Nat
    /\ pc \in {"none", "idle", "close", "shift", "rename", "recover", "reopen",
               "abandon", "write"}
    /\ caller \in {"constructor", "sink_it_"}
    /\ rotateOnOpen \in BOOLEAN
    /\ i \in 0 .. MaxFiles
    /\ formatted \in Nat
    /\ nextId \in Nat \ {0}
    /\ failed \subseteq MayFail
    /\ interruptions \in Nat

Retained == UNION {files[n].ids : n \in Names}

(* The files stay in order, also in the middle of a rotation, after any    *)
(* failure and after a crash: what is in an older file was logged before   *)
(* what is in a newer one, and before what is still in the buffer.         *)
FilesInOrder ==
    /\ \A m, n \in Names : m < n =>
          \A x \in files[n].ids, y \in files[m].ids : x < y
    /\ \A n \in Names : \A x \in files[n].ids, y \in buffer.ids : x < y

(* As long as renaming works, a rotation, however often it is interrupted  *)
(* or cannot reopen the log, removes only what is older than all that is   *)
(* kept: the target that rename_file_ removes is the oldest file or none.  *)
OnlyTheOldestIsLost ==
    "rename" \notin failed =>
        \A x \in Retained, y \in stored : y > x => y \in Retained

(* The places that no file takes, and among them those with an older file  *)
(* above them.                                                             *)
Missing == {n \in Names : ~files[n].there}
Holes == {n \in Missing : \E m \in Names : m > n /\ files[m].there}
Turning == pc \in {"shift", "rename", "reopen"}

(* As long as renaming works, rotations leave no hole between the files:   *)
(* there is at most one for each rotation that did not end, because the log *)
(* could not be opened or the process ended, and one for a rotation that   *)
(* is in progress.  Nothing is lost before all the other places are used.  *)
PlacesAreUsed ==
    LET unfinished == interruptions + (IF Turning THEN 1 ELSE 0)
    IN  "rename" \notin failed =>
            /\ Cardinality(Holes) <= unfinished
            /\ stored \ Retained # {} => Cardinality(Missing) <= unfinished

(* No file outgrows MaxSize unless by its only message, although           *)
(* current_size_ is kept apart from the file and a failed write or a failed *)
(* rotation leaves them different.                                         *)
FitsOrSingle(ids, bytes) == bytes <= MaxSize \/ \E id \in ids : ids = {id}

SizeLimit ==
    \A n \in Names :
        IF fd_ /\ n = 0
        THEN FitsOrSingle(files[0].ids \cup buffer.ids,
                          files[0].bytes + buffer.bytes)
        ELSE FitsOrSingle(files[n].ids, files[n].bytes)

(* fwrite is never called without a stream: after a rotation that could not *)
(* reopen the log, the next message rotates again before it writes.        *)
WritesToOpenFile == pc = "write" => fd_

(* "Rotating file sink based on size": a message makes the sink rotate only *)
(* if the log would outgrow MaxSize with it, also after failed rotations   *)
(* and restarts, unless the sink was told to rotate when it was opened: the *)
(* constructor does not count afresh after it has rotated.                 *)
RotatesBySizeAlone ==
    [][/\ pc = "idle" /\ pc' = "close" /\ fd_ /\ "write" \notin failed
       /\ ~rotateOnOpen
       => files[0].bytes + buffer.bytes + formatted' > MaxSize]_vars
=============================================================================
