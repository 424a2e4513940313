--------------------------- MODULE TimedFileSink ----------------------------
(***************************************************************************)
(* daily_file_sink and hourly_file_sink (sinks/daily_file_sink.h,          *)
(* sinks/hourly_file_sink.h), which differ in the period and in that the   *)
(* hourly one rotates on the hour (RotateAt = 0).  A file is named by the  *)
(* period (the day, the hour) it was opened for.                          *)
(*                                                                         *)
(* A message carries the time at which it was made; it may wait in a queue *)
(* for up to MaxDelay.  The clock may go on between any two steps, and the *)
(* process may end there and be started again.  filenames_q_ is the        *)
(* drop-oldest queue that circular_q implements; it never overruns here.   *)
(* Time zones and the change to summer time are left out.                  *)
(***************************************************************************)
EXTENDS FileHelper, Sequences, FiniteSets, Functions

CONSTANTS
    Period, RotateAt,       \* length of a period, and when in it to rotate
    Truncate, MaxFiles,     \* arguments of the constructor
    MayFail,                \* a subset of {"open", "write", "remove"}
    MaxDelay,               \* how late a message may come to the sink
    Horizon,                \* bound: the last time of the clock
    MaxMessages             \* bound: messages in a behaviour

Times == 0 .. Horizon
NameAt(time) == time \div Period

ASSUME TimedAssumption ==
    /\ Period \in Nat \ {0} /\ RotateAt \in 0 .. (Period - 1)
    /\ Truncate \in BOOLEAN /\ MaxFiles \in Nat
    /\ MayFail \subseteq {"open", "write", "remove"}
    /\ MaxDelay \in Nat /\ Horizon \in Nat /\ MaxMessages \in Nat
    /\ Names = 0 .. NameAt(Horizon)

VARIABLES
    now,            \* the clock
    rotation_tp_,   \* messages of this time and later make the sink rotate
    filenames_q_,   \* the files to keep, oldest first
    pc,             \* where the call in progress is
    msgTime,        \* time of the message in hand
    shouldRotate,   \* should_rotate
    nextId,         \* the number of the next message
    known,          \* history: the names found at the start or opened since
    latest,         \* history: the latest time of a message to this sink
    failed          \* history: what has failed so far

callVars == <<msgTime, shouldRotate, nextId, latest>>
vars == <<fileVars, now, rotation_tp_, filenames_q_, pc, callVars, known, failed>>

Init ==
    /\ FileInit(Names)
    /\ filename_ = 0
    /\ now \in Times
    /\ rotation_tp_ = 0
    /\ filenames_q_ = <<>>
    /\ pc = "none"          \* there is no sink
    /\ msgTime = 0 /\ shouldRotate = FALSE
    /\ nextId = 1 /\ latest = 0
    /\ known = {} /\ failed = {}

Fails(what) ==
    /\ what \in MayFail
    /\ failed' = failed \cup {what}

Tick ==
    /\ now < Horizon
    /\ now' = now + 1
    /\ UNCHANGED <<fileVars, rotation_tp_, filenames_q_, pc, callVars, known, failed>>

-----------------------------------------------------------------------------
(* Fault: the current period's rotation is the next one, even if it is     *)
(* over.                                                                   *)
NextRotation_of_today(time) == NameAt(time) * Period + RotateAt

(* next_rotation_tp_: today's rotation, or tomorrow's if that is over. *)
NextRotation(time) ==
    LET today == NameAt(time) * Period + RotateAt
    IN  IF today > time THEN today ELSE today + Period

(* init_filenames_q_ finds the files of today, yesterday and so on until   *)
(* one is missing.                                                         *)
KeptFiles ==
    LET kept == {k \in 0 .. MaxFiles :
                    \A j \in 0 .. (k - 1) :
                        NameAt(now) - j \in Names /\ files[NameAt(now) - j].there}
        n == CHOOSE k \in kept : \A j \in kept : j <= k
    IN  [j \in 1 .. n |-> NameAt(now) - n + j]

(* The constructor reads the clock three times. *)
Construct ==
    /\ pc = "none"
    /\ Open(NameAt(now), Truncate)
    /\ known' = {NameAt(now)} /\ latest' = 0
    /\ pc' = "construct_tp"
    /\ UNCHANGED <<now, rotation_tp_, filenames_q_, msgTime, shouldRotate, nextId, failed>>

ConstructThrows ==
    /\ pc = "none"
    /\ OpenThrows(NameAt(now), Truncate)
    /\ Fails("open")
    /\ UNCHANGED <<now, rotation_tp_, filenames_q_, pc, callVars, known>>

ConstructRotation ==
    /\ pc = "construct_tp"
    /\ rotation_tp_' = NextRotation(now)
    /\ pc' = "construct_q"
    /\ UNCHANGED <<fileVars, now, filenames_q_, callVars, known, failed>>

ConstructQueue ==
    /\ pc = "construct_q"
    /\ filenames_q_' = IF MaxFiles > 0 THEN KeptFiles ELSE <<>>
    /\ known' = Range(filenames_q_')
    /\ pc' = "idle"
    /\ UNCHANGED <<fileVars, now, rotation_tp_, callVars, failed>>

-----------------------------------------------------------------------------
(* Fault: it decides by the message's date. *)
SinkIt_by_date(time) ==
    /\ pc = "idle" /\ nextId <= MaxMessages
    /\ msgTime' = time
    /\ shouldRotate' = (NameAt(time) # filename_)
    /\ pc' = IF NameAt(time) # filename_ THEN "open" ELSE "write"
    /\ nextId' = nextId + 1
    /\ latest' = IF time > latest THEN time ELSE latest
    /\ UNCHANGED <<fileVars, now, rotation_tp_, filenames_q_, known, failed>>

(* sink_it_ decides by the message's time, ... *)
SinkIt(time) ==
    /\ pc = "idle" /\ nextId <= MaxMessages
    /\ msgTime' = time
    /\ shouldRotate' = (time >= rotation_tp_)
    /\ pc' = IF time >= rotation_tp_ THEN "open" ELSE "write"
    /\ nextId' = nextId + 1
    /\ latest' = IF time > latest THEN time ELSE latest
    /\ UNCHANGED <<fileVars, now, rotation_tp_, filenames_q_, known, failed>>

(* ... names the new file by it, ... *)
OpenNext ==
    /\ pc = "open"
    /\ Open(NameAt(msgTime), Truncate)
    /\ known' = known \cup {NameAt(msgTime)}
    /\ pc' = "rotation_tp"
    /\ UNCHANGED <<now, rotation_tp_, filenames_q_, callVars, failed>>

(* Fault: the next rotation is set before the file is open. *)
OpenNextThrows_rotated ==
    /\ pc = "open"
    /\ OpenThrows(NameAt(msgTime), Truncate)
    /\ Fails("open")
    /\ rotation_tp_' = NextRotation(now)
    /\ pc' = "idle"
    /\ UNCHANGED <<now, filenames_q_, callVars, known>>

OpenNextThrows ==
    /\ pc = "open"
    /\ OpenThrows(NameAt(msgTime), Truncate)
    /\ Fails("open")
    /\ pc' = "idle"
    /\ UNCHANGED <<now, rotation_tp_, filenames_q_, callVars, known>>

(* ... and computes the next rotation from the clock. *)
SetRotation ==
    /\ pc = "rotation_tp"
    /\ rotation_tp_' = NextRotation(now)
    /\ pc' = "write"
    /\ UNCHANGED <<fileVars, now, filenames_q_, callVars, known, failed>>

(* With a null stream fwrite ends the process. *)
WriteMessage ==
    /\ pc = "write" /\ fd_
    /\ Write(nextId - 1, 1)
    /\ pc' = IF shouldRotate /\ MaxFiles > 0 THEN "delete_old" ELSE "idle"
    /\ UNCHANGED <<now, rotation_tp_, filenames_q_, callVars, known, failed>>

WriteThrows ==
    /\ pc = "write" /\ fd_
    /\ Fails("write")
    /\ pc' = "idle"
    /\ UNCHANGED <<fileVars, now, rotation_tp_, filenames_q_, callVars, known>>

-----------------------------------------------------------------------------
(* Fault: the queue may grow to one more file than there is room for. *)
DeleteOld_keeps_one_more ==
    /\ pc = "delete_old"
    /\ IF Len(filenames_q_) > MaxFiles
       THEN /\ files' = [files EXCEPT ![Head(filenames_q_)] = NoFile]
            /\ filenames_q_' = Append(Tail(filenames_q_), filename_)
       ELSE filenames_q_' = Append(filenames_q_, filename_) /\ UNCHANGED files
    /\ pc' = "idle"
    /\ UNCHANGED <<streamVars, now, rotation_tp_, callVars, known, failed>>

(* delete_old_: make room in the queue by removing the oldest file, which  *)
(* may be gone already, and queue the current one, ...                     *)
DeleteOld ==
    /\ pc = "delete_old"
    /\ IF Len(filenames_q_) = MaxFiles
       THEN /\ files' = [files EXCEPT ![Head(filenames_q_)] = NoFile]
            /\ filenames_q_' = Append(Tail(filenames_q_), filename_)
       ELSE filenames_q_' = Append(filenames_q_, filename_) /\ UNCHANGED files
    /\ pc' = "idle"
    /\ UNCHANGED <<streamVars, now, rotation_tp_, callVars, known, failed>>

(* ... and forget a file that cannot be removed. *)
DeleteOldThrows ==
    /\ pc = "delete_old"
    /\ Len(filenames_q_) = MaxFiles /\ files[Head(filenames_q_)].there
    /\ Fails("remove")
    /\ filenames_q_' = Append(Tail(filenames_q_), filename_)
    /\ pc' = "idle"
    /\ UNCHANGED <<fileVars, now, rotation_tp_, callVars, known>>

FlushSink ==
    /\ pc \in {"idle", "write"} /\ buffer # Nothing
    /\ Flush
    /\ UNCHANGED <<now, rotation_tp_, filenames_q_, pc, callVars, known, failed>>

Destroy ==
    /\ pc = "idle"
    /\ Close
    /\ pc' = "none"
    /\ UNCHANGED <<now, rotation_tp_, filenames_q_, callVars, known, failed>>

Crash ==
    /\ pc # "none"
    /\ StreamIsLost
    /\ pc' = "none"
    /\ UNCHANGED <<now, rotation_tp_, filenames_q_, callVars, known, failed>>

Next ==
    \/ Tick
    \/ Construct \/ ConstructThrows \/ ConstructRotation \/ ConstructQueue
    \/ \E time \in Times : now - MaxDelay <= time /\ time <= now /\ SinkIt(time)
    \/ OpenNext \/ OpenNextThrows \/ SetRotation \/ WriteMessage \/ WriteThrows
    \/ DeleteOld \/ DeleteOldThrows
    \/ FlushSink \/ Destroy \/ Crash

Spec == Init /\ [][Next]_vars

-----------------------------------------------------------------------------
TypeOK ==
    /\ FileTypeOK
    /\ now \in Times /\ msgTime \in Times /\ latest \in Times
    /\ rotation_tp_ \in 0 .. (Horizon + Period)
    /\ filenames_q_ \in Seq(Names) /\ Len(filenames_q_) <= MaxFiles
    /\ pc \in {"none", "construct_tp", "construct_q", "idle", "open",
               "rotation_tp", "write", "delete_old"}
    /\ shouldRotate \in BOOLEAN
    /\ nextId \in Nat \ {0}
    /\ known \subseteq Names
    /\ failed \subseteq MayFail

(* The files are in the order of their names: however late messages come   *)
(* and wherever the clock goes on, a file of an earlier period holds what  *)
(* arrived before the contents of a later one.                             *)
FilesInOrder ==
    /\ \A m, n \in Names : m < n =>
          \A x \in files[m].ids, y \in files[n].ids : x < y
    /\ \A n \in Names : \A x \in files[n].ids, y \in buffer.ids : x < y

There == {n \in Names : files[n].there}

(* "If max_files > 0, retain only the last max_files and delete previous." *)
(* After each call, the last max_files of the files that the constructor   *)
(* found or that were opened since are there, and the others are not,      *)
(* unless a message could not be written, when sink_it_ skips the          *)
(* deletion, or a file could not be removed.  (If a period ends inside the *)
(* constructor, it does not find the file it has opened, which is then     *)
(* never deleted.)                                                         *)
RetainsLastFiles ==
    pc = "idle" /\ MaxFiles > 0 =>
        /\ \A n \in known :
              Cardinality({m \in known : m > n}) < MaxFiles => n \in There
        /\ failed \subseteq {"open"} => Cardinality(known \cap There) <= MaxFiles

(* When a rotation cannot open the file, the sink has no stream; fwrite is *)
(* not called before a later message has opened one, unless a message      *)
(* comes late.                                                             *)
OnlyLateFindNoStream == pc = "write" /\ ~fd_ => msgTime < latest

(* "Rotating file sink based on date": a message is not written to the file *)
(* of an earlier date.                                                     *)
RotatesByDate == pc = "write" => NameAt(msgTime) <= filename_
=============================================================================
