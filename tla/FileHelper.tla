----------------------------- MODULE FileHelper -----------------------------
(***************************************************************************)
(* file_helper (details/file_helper-inl.h) and the part of the file system *)
(* that it works on.  A file's content is abstracted to the set of the     *)
(* messages in it and its length; the stream's buffer, which the C library *)
(* passes on when it is flushed, closed or full, likewise.  A stream that  *)
(* is open on a file that has been removed writes to nowhere.              *)
(***************************************************************************)
EXTENDS Integers

CONSTANT Names      \* the file names in use

VARIABLES
    files,          \* the file system
    filename_,      \* the file that was opened last
    fd_,            \* whether it is open
    buffer,         \* what was written to the stream and is not in the file yet
    stored          \* history: the messages that reached a file

streamVars == <<filename_, fd_, buffer, stored>>
fileVars == <<files, streamVars>>

Chunk == [ids : SUBSET Nat, bytes : Nat]
Nothing == [ids |-> {}, bytes |-> 0]

File == [there : BOOLEAN, ids : SUBSET Nat, bytes : Nat]
NoFile == [there |-> FALSE, ids |-> {}, bytes |-> 0]
EmptyFile == [there |-> TRUE, ids |-> {}, bytes |-> 0]

Appended(file, chunk) ==
    IF file.there
    THEN [there |-> TRUE, ids |-> file.ids \cup chunk.ids,
          bytes |-> file.bytes + chunk.bytes]
    ELSE file

(* The file system once the stream's buffer has been passed on. *)
Flushed == IF fd_ THEN [files EXCEPT ![filename_] = Appended(@, buffer)] ELSE files

PassOnBuffer ==
    /\ buffer' = Nothing
    /\ stored' = stored \cup buffer.ids

FileInit(names) ==
    /\ files = [n \in Names |-> NoFile]
    /\ filename_ \in names
    /\ fd_ = FALSE
    /\ buffer = Nothing
    /\ stored = {}

-----------------------------------------------------------------------------
(* open closes the stream first.  Each of its tries truncates the file, if *)
(* asked to, with a stream of its own, and opens it for appending; open    *)
(* throws when all tries fail, possibly after a truncation.                *)
Open(name, truncate) ==
    /\ files' = [Flushed EXCEPT ![name] =
                    IF truncate THEN EmptyFile ELSE [@ EXCEPT !.there = TRUE]]
    /\ filename_' = name
    /\ fd_' = TRUE
    /\ PassOnBuffer

OpenThrows(name, truncate) ==
    /\ \/ files' = Flushed
       \/ truncate /\ files' = [Flushed EXCEPT ![name] = EmptyFile]
    /\ filename_' = name
    /\ fd_' = FALSE
    /\ PassOnBuffer

Close ==
    /\ files' = Flushed
    /\ fd_' = FALSE
    /\ PassOnBuffer
    /\ UNCHANGED filename_

Flush ==
    /\ files' = Flushed
    /\ PassOnBuffer
    /\ UNCHANGED <<filename_, fd_>>

(* fwrite hands the message to the stream. *)
Write(id, bytes) ==
    /\ buffer' = [ids |-> buffer.ids \cup {id}, bytes |-> buffer.bytes + bytes]
    /\ UNCHANGED <<files, filename_, fd_, stored>>

(* The process ends without closing the stream. *)
StreamIsLost ==
    /\ fd_' = FALSE
    /\ buffer' = Nothing
    /\ UNCHANGED <<files, filename_, stored>>

FileTypeOK ==
    /\ files \in [Names -> File]
    /\ filename_ \in Names
    /\ fd_ \in BOOLEAN
    /\ buffer \in Chunk
    /\ stored \in SUBSET Nat
=============================================================================
