----------------------- MODULE RotatingFileSinkProofs -----------------------
(***************************************************************************)
(* Theorems about the rotating file sink, for any number and size of files *)
(* and whatever fails or is interrupted.                                   *)
(***************************************************************************)
EXTENDS RotatingFileSink, FiniteSetTheorems, TLAPS

(* Where the stream and the files are in the course of a call.  During the *)
(* loop the place that the next file moves to is free, except at its start, *)
(* where the oldest file may be there: this is why only that one is lost.  *)
(* A sink without a stream remembers a size that is over the limit, so that *)
(* it rotates before it writes.                                            *)
Shape ==
    /\ filename_ = 0
    /\ fd_ => files[0].there
    /\ ~fd_ => buffer = Nothing
    /\ \A n \in Names : ~files[n].there => files[n] = NoFile
    /\ pc \in {"none", "shift", "rename", "recover", "reopen"} => ~fd_
    /\ pc \in {"shift", "rename"} => i > 0
    /\ pc = "shift" /\ i < MaxFiles => ~files[i].there
    /\ pc = "rename" => ~files[i].there /\ files[i - 1].there
    /\ pc = "reopen" /\ MaxFiles > 0 => ~files[0].there
    /\ pc = "recover" => "rename" \in failed
    /\ pc = "write" => fd_
    /\ pc = "idle" /\ ~fd_ => caller = "sink_it_"
    /\ caller = "sink_it_" /\ (pc = "close" \/ (pc # "none" /\ ~fd_)) =>
          currentSize > MaxSize

Inv == TypeOK /\ Shape

(* What has been passed on is in the log, and the other files are as before. *)
LEMMA FlushedFiles ==
    ASSUME Inv
    PROVE  /\ Flushed \in [Names -> File]
           /\ \A n \in Names : n # 0 => Flushed[n] = files[n]
           /\ Flushed[0].there = files[0].there
           /\ Flushed[0].ids = files[0].ids \cup buffer.ids
           /\ Flushed[0].bytes = files[0].bytes + buffer.bytes
           /\ ~files[0].there => Flushed[0] = NoFile
           /\ ~fd_ => Flushed = files
<1> USE RotatingAssumption
<1>1. 0 \in Names
  OBVIOUS
<1>2. files \in [Names -> File] /\ buffer \in Chunk /\ filename_ = 0
  BY DEF Inv, TypeOK, FileTypeOK, Shape
<1>3. CASE ~fd_
  <2>1. Flushed = files /\ buffer = Nothing
    BY <1>3 DEF Flushed, Inv, Shape
  <2>2. files[0] \in File
    BY <1>1, <1>2
  <2>3. ~files[0].there => files[0] = NoFile
    BY <1>1 DEF Inv, Shape
  <2> QED BY <1>2, <2>1, <2>2, <2>3 DEF Nothing, File
<1>4. CASE fd_
  <2>1. files[0].there
    BY <1>4 DEF Inv, Shape
  <2>2. files[0] \in File
    BY <1>1, <1>2
  <2> DEFINE new == [there |-> TRUE, ids |-> files[0].ids \cup buffer.ids,
                     bytes |-> files[0].bytes + buffer.bytes]
  <2>5. /\ files[0].ids \cup buffer.ids \in SUBSET Nat
        /\ files[0].bytes + buffer.bytes \in Nat
    BY <1>2, <2>2 DEF File, Chunk
  <2>3. /\ new \in File /\ new.there = files[0].there
        /\ new.ids = files[0].ids \cup buffer.ids
        /\ new.bytes = files[0].bytes + buffer.bytes
    BY <2>1, <2>5 DEF File
  <2>4. Flushed = [files EXCEPT ![0] = new]
    BY <1>2, <1>4, <2>1 DEF Flushed, Appended
  <2> HIDE DEF new
  <2> QED BY <1>1, <1>2, <1>4, <2>1, <2>3, <2>4
<1> QED BY <1>3, <1>4

-----------------------------------------------------------------------------
(* Before the first constructor there is no stream and no file. *)
LEMMA InitInv == Init => Inv
<1> USE RotatingAssumption
<1> SUFFICES ASSUME Init PROVE Inv
  OBVIOUS
<1>1. 0 \in Names /\ NoFile \in File /\ Nothing \in Chunk /\ ~NoFile.there
  BY DEF NoFile, File, Nothing, Chunk
<1>2. files = [n \in Names |-> NoFile]
  BY DEF Init, FileInit
<1>3. TypeOK
  <2>1. FileTypeOK
    BY <1>1, <1>2 DEF Init, FileInit, FileTypeOK
  <2>2. currentSize = 0 /\ pc = "none" /\ caller = "constructor" /\ rotateOnOpen = FALSE
        /\ i = 0 /\ formatted = 0 /\ nextId = 1 /\ failed = {} /\ interruptions = 0
    BY DEF Init
  <2>3. rotateOnOpen \in BOOLEAN
    BY <2>2
  <2> QED BY <2>1, <2>2, <2>3 DEF TypeOK
<1>4. Shape
  BY <1>1, <1>2 DEF Init, FileInit, Shape
<1> QED BY <1>3, <1>4 DEF Inv

(* What the calls of file_helper leave behind. *)
LEMMA AfterOpen ==
    ASSUME Inv, NEW truncate \in BOOLEAN, Open(0, truncate)
    PROVE  /\ FileTypeOK' /\ filename_' = 0 /\ fd_' /\ files'[0].there
           /\ \A n \in Names : ~files'[n].there => files'[n] = NoFile
           /\ \A n \in Names : n # 0 => files'[n] = files[n]
           /\ IF truncate THEN files'[0] = EmptyFile
              ELSE /\ files'[0].ids = files[0].ids \cup buffer.ids
                   /\ files'[0].bytes = files[0].bytes + buffer.bytes
           /\ buffer' = Nothing /\ stored' = stored \cup buffer.ids
<1> USE RotatingAssumption
<1>1. 0 \in Names
  OBVIOUS
<1>2. /\ Flushed \in [Names -> File]
      /\ \A n \in Names : n # 0 => Flushed[n] = files[n]
      /\ Flushed[0].ids = files[0].ids \cup buffer.ids
      /\ Flushed[0].bytes = files[0].bytes + buffer.bytes
  BY FlushedFiles
<1>3. /\ buffer \in Chunk /\ stored \in SUBSET Nat
      /\ \A n \in Names : ~files[n].there => files[n] = NoFile
  BY DEF Inv, TypeOK, FileTypeOK, Shape
<1> DEFINE new == IF truncate THEN EmptyFile ELSE [Flushed[0] EXCEPT !.there = TRUE]
<1>4. /\ new \in File /\ new.there
      /\ ~truncate => new.ids = Flushed[0].ids /\ new.bytes = Flushed[0].bytes
  BY <1>1, <1>2 DEF File, EmptyFile
<1>5. files' = [Flushed EXCEPT ![0] = new]
  BY DEF Open
<1>6. new = EmptyFile \/ ~truncate
  OBVIOUS
<1> HIDE DEF new
<1>7. /\ files' \in [Names -> File] /\ files'[0] = new
      /\ \A n \in Names : n # 0 => files'[n] = files[n]
  BY <1>1, <1>2, <1>4, <1>5
<1>8. filename_' = 0 /\ fd_' = TRUE /\ buffer' = Nothing /\ stored' = stored \cup buffer.ids
  BY DEF Open, PassOnBuffer
<1>9. FileTypeOK'
  BY <1>1, <1>3, <1>7, <1>8 DEF FileTypeOK, Nothing, Chunk
<1> QED BY <1>2, <1>3, <1>4, <1>6, <1>7, <1>8, <1>9

(* What a failed file_helper::open leaves: no stream, and a log that holds *)
(* what was passed on or, if it was truncated before the failure, nothing. *)
LEMMA AfterThrow ==
    ASSUME Inv, NEW truncate \in BOOLEAN, OpenThrows(0, truncate)
    PROVE  /\ FileTypeOK' /\ filename_' = 0 /\ ~fd_'
           /\ \A n \in Names : ~files'[n].there => files'[n] = NoFile
           /\ \A n \in Names : n # 0 => files'[n] = files[n]
           /\ \/ files'[0] = EmptyFile /\ truncate
              \/ /\ files'[0].ids = files[0].ids \cup buffer.ids
                 /\ files'[0].bytes = files[0].bytes + buffer.bytes
           /\ buffer' = Nothing /\ stored' = stored \cup buffer.ids
<1> USE RotatingAssumption
<1>1. 0 \in Names
  OBVIOUS
<1>2. /\ Flushed \in [Names -> File]
      /\ \A n \in Names : n # 0 => Flushed[n] = files[n]
      /\ Flushed[0].there = files[0].there
      /\ Flushed[0].ids = files[0].ids \cup buffer.ids
      /\ Flushed[0].bytes = files[0].bytes + buffer.bytes
      /\ ~files[0].there => Flushed[0] = NoFile
  BY FlushedFiles
<1>3. /\ buffer \in Chunk /\ stored \in SUBSET Nat
      /\ \A n \in Names : ~files[n].there => files[n] = NoFile
  BY DEF Inv, TypeOK, FileTypeOK, Shape
<1>4. EmptyFile \in File /\ EmptyFile.there
  BY DEF File, EmptyFile
<1>5. filename_' = 0 /\ fd_' = FALSE /\ buffer' = Nothing /\ stored' = stored \cup buffer.ids
  BY DEF OpenThrows, PassOnBuffer
<1>6. CASE files' = Flushed
  <2>1. FileTypeOK'
    BY <1>1, <1>2, <1>3, <1>5, <1>6 DEF FileTypeOK, Nothing, Chunk
  <2> QED BY <1>2, <1>3, <1>5, <1>6, <2>1
<1>7. CASE truncate /\ files' = [Flushed EXCEPT ![0] = EmptyFile]
  <2>1. /\ files' \in [Names -> File] /\ files'[0] = EmptyFile
        /\ \A n \in Names : n # 0 => files'[n] = files[n]
    BY <1>1, <1>2, <1>4, <1>7
  <2>2. FileTypeOK'
    BY <1>1, <1>3, <1>5, <2>1 DEF FileTypeOK, Nothing, Chunk
  <2> QED BY <1>3, <1>4, <1>5, <1>7, <2>1, <2>2
<1> QED BY <1>6, <1>7 DEF OpenThrows

(* What fflush and fclose leave: the buffer is empty, its messages are in *)
(* the log.                                                               *)
LEMMA AfterFlush ==
    ASSUME Inv, files' = Flushed, PassOnBuffer, filename_' = filename_, fd_' \in {fd_, FALSE}
    PROVE  /\ FileTypeOK' /\ filename_' = 0 /\ (fd_' => files'[0].there)
           /\ \A n \in Names : ~files'[n].there => files'[n] = NoFile
           /\ \A n \in Names : n # 0 => files'[n] = files[n]
           /\ files'[0].ids = files[0].ids \cup buffer.ids
           /\ files'[0].bytes = files[0].bytes + buffer.bytes
           /\ buffer' = Nothing /\ stored' = stored \cup buffer.ids
<1> USE RotatingAssumption
<1>1. 0 \in Names
  OBVIOUS
<1>2. /\ Flushed \in [Names -> File]
      /\ \A n \in Names : n # 0 => Flushed[n] = files[n]
      /\ Flushed[0].there = files[0].there
      /\ Flushed[0].ids = files[0].ids \cup buffer.ids
      /\ Flushed[0].bytes = files[0].bytes + buffer.bytes
      /\ ~files[0].there => Flushed[0] = NoFile
  BY FlushedFiles
<1>3. /\ buffer \in Chunk /\ stored \in SUBSET Nat /\ fd_ \in BOOLEAN
      /\ filename_ = 0 /\ (fd_ => files[0].there)
      /\ \A n \in Names : ~files[n].there => files[n] = NoFile
  BY DEF Inv, TypeOK, FileTypeOK, Shape
<1>4. FileTypeOK'
  <2>1. files' \in [Names -> File] /\ filename_' \in Names /\ fd_' \in BOOLEAN
    BY <1>1, <1>2, <1>3
  <2>2. buffer' \in Chunk
    BY DEF PassOnBuffer, Nothing, Chunk
  <2>3. stored' \in SUBSET Nat
    BY <1>3 DEF PassOnBuffer, Chunk
  <2> QED BY <2>1, <2>2, <2>3 DEF FileTypeOK
<1>5. filename_' = 0 /\ buffer' = Nothing /\ stored' = stored \cup buffer.ids
  BY <1>3 DEF PassOnBuffer
<1>6. fd_' => fd_
  BY <1>3
<1> QED BY <1>2, <1>3, <1>4, <1>5, <1>6

-----------------------------------------------------------------------------
(* The two steps of rename_file_. *)
LEMMA AfterRemove ==
    ASSUME Inv, RemoveTarget
    PROVE  /\ i \in 1 .. MaxFiles /\ i - 1 \in Names /\ i \in Names
           /\ files' \in [Names -> File] /\ files'[i] = NoFile
           /\ \A n \in Names : n # i => files'[n] = files[n]
<1> USE RotatingAssumption
<1>1. files \in [Names -> File] /\ i \in 0 .. MaxFiles /\ i > 0
  BY DEF Inv, TypeOK, FileTypeOK, Shape, RemoveTarget
<1>2. i \in 1 .. MaxFiles /\ i - 1 \in Names /\ i \in Names
  BY <1>1
<1>3. NoFile \in File
  BY DEF NoFile, File
<1> QED BY <1>1, <1>2, <1>3 DEF RemoveTarget

(* What rename_file_ leaves once the target is gone: the file has moved by *)
(* one place, and the place it left is free for the next turn.             *)
LEMMA AfterRename ==
    ASSUME Inv, Rename
    PROVE  /\ i \in 1 .. MaxFiles /\ i - 1 \in Names /\ i \in Names
           /\ files' \in [Names -> File]
           /\ files'[i] = files[i - 1] /\ files'[i - 1] = NoFile
           /\ \A n \in Names : n # i /\ n # i - 1 => files'[n] = files[n]
<1> USE RotatingAssumption
<1>1. files \in [Names -> File] /\ i \in 0 .. MaxFiles /\ i > 0
  BY DEF Inv, TypeOK, FileTypeOK, Shape, Rename
<1>2. i \in 1 .. MaxFiles /\ i - 1 \in Names /\ i \in Names /\ i # i - 1
  BY <1>1
<1>3. NoFile \in File /\ files[i - 1] \in File
  BY <1>1, <1>2 DEF NoFile, File
<1> QED BY <1>1, <1>2, <1>3 DEF Rename

(* i goes down, and the loop ends at 0. *)
LEMMA Turn ==
    ASSUME i \in 1 .. MaxFiles, NextTurn
    PROVE  /\ i' = i - 1 /\ i' \in 0 .. MaxFiles /\ i' < MaxFiles
           /\ pc' \in {"shift", "reopen"}
           /\ pc' = "shift" => i' > 0
           /\ pc' = "reopen" => i' = 0
  BY RotatingAssumption DEF NextTurn

(* Every step of the sink keeps the types and the shape of the files. *)
LEMMA NextInv == Inv /\ [Next]_vars => Inv'
<1> USE RotatingAssumption
<1> SUFFICES ASSUME Inv, [Next]_vars PROVE Inv'
  OBVIOUS
<1>1. /\ FileTypeOK /\ currentSize \in Nat /\ i \in 0 .. MaxFiles /\ formatted \in Nat
      /\ nextId \in Nat \ {0} /\ failed \subseteq MayFail /\ interruptions \in Nat
      /\ caller \in {"constructor", "sink_it_"} /\ rotateOnOpen \in BOOLEAN
  BY DEF Inv, TypeOK
<1>2. /\ files \in [Names -> File] /\ filename_ = 0 /\ buffer \in Chunk /\ 0 \in Names
      /\ \A n \in Names : files[n].bytes \in Nat
  BY <1>1 DEF FileTypeOK, Inv, Shape, File
<1> DEFINE Typed == /\ currentSize' \in Nat
                    /\ pc' \in {"none", "idle", "close", "shift", "rename", "recover",
                                "reopen", "abandon", "write"}
                    /\ caller' \in {"constructor", "sink_it_"}
                    /\ rotateOnOpen' \in BOOLEAN
                    /\ i' \in 0 .. MaxFiles /\ formatted' \in Nat
                    /\ nextId' \in Nat \ {0}
                    /\ failed' \subseteq MayFail /\ interruptions' \in Nat
<1>3. CASE Construct \/ ConstructThrows
  <2>1. CASE Construct
    <3>1. Open(0, FALSE)
      BY <2>1 DEF Construct
    <3>2. /\ FileTypeOK' /\ filename_' = 0 /\ fd_' /\ files'[0].there
          /\ \A n \in Names : ~files'[n].there => files'[n] = NoFile
      BY <3>1, AfterOpen
    <3>3. files'[0].bytes \in Nat
      BY <1>2, <3>2 DEF FileTypeOK, File
    <3>4. Typed /\ pc' \in {"idle", "close"} /\ caller' = "constructor"
      BY <1>1, <2>1, <3>3 DEF Construct, history
    <3> QED BY <3>2, <3>4 DEF Inv, TypeOK, Shape
  <2>2. CASE ConstructThrows
    <3>1. OpenThrows(0, FALSE)
      BY <2>2 DEF ConstructThrows
    <3>2. /\ FileTypeOK' /\ filename_' = 0 /\ ~fd_' /\ buffer' = Nothing
          /\ \A n \in Names : ~files'[n].there => files'[n] = NoFile
      BY <3>1, AfterThrow
    <3>3. Typed /\ pc' = "none"
      BY <1>1, <2>2 DEF ConstructThrows, callVars, Fails
    <3> QED BY <3>2, <3>3 DEF Inv, TypeOK, Shape
  <2> QED BY <1>3, <2>1, <2>2
<1>4. ASSUME NEW size \in Sizes, SinkIt(size) PROVE Inv'
  <2>1. /\ Typed /\ UNCHANGED <<files, filename_, fd_, buffer, stored>>
        /\ \/ pc' = "close" /\ currentSize' > MaxSize
           \/ pc' = "write" /\ ~(currentSize' > MaxSize)
    BY <1>1, <1>4 DEF SinkIt, fileVars, streamVars, history
  <2>3. currentSize > MaxSize => currentSize' > MaxSize
    BY <1>1, <1>4 DEF SinkIt
  <2>4. ~fd_ => currentSize > MaxSize
    BY <1>1, <1>4 DEF SinkIt, Inv, Shape
  <2>2. FileTypeOK'
    BY <1>1, <2>1 DEF FileTypeOK
  <2> QED BY <2>1, <2>2, <2>3, <2>4 DEF Inv, TypeOK, Shape
<1>5. CASE RotateClose
  <2>1. /\ FileTypeOK' /\ filename_' = 0 /\ ~fd_' /\ buffer' = Nothing
        /\ \A n \in Names : ~files'[n].there => files'[n] = NoFile
    BY <1>5, AfterFlush DEF RotateClose, Close
  <2>2. Typed
    BY <1>1, <1>5 DEF RotateClose, callVars, history
  <2>4. pc = "close" /\ UNCHANGED <<caller, currentSize>>
    BY <1>5 DEF RotateClose, callVars
  <2>3. /\ i' = MaxFiles /\ pc' \in {"shift", "reopen"}
        /\ pc' = "shift" => MaxFiles > 0
        /\ pc' = "reopen" => ~(MaxFiles > 0)
    BY <1>5 DEF RotateClose
  <2> QED BY <2>1, <2>2, <2>3, <2>4 DEF Inv, TypeOK, Shape
<1>6. CASE SkipMissing
  <2>1. i \in 1 .. MaxFiles /\ ~files[i - 1].there /\ ~fd_ /\ i - 1 \in Names
    BY <1>1, <1>6 DEF SkipMissing, Inv, Shape
  <2>2. /\ i' = i - 1 /\ i' \in 0 .. MaxFiles /\ pc' \in {"shift", "reopen"}
        /\ (pc' = "shift" => i' > 0) /\ (pc' = "reopen" => i' = 0)
    BY <1>6, <2>1, Turn DEF SkipMissing
  <2>3. UNCHANGED <<files, filename_, fd_, buffer, stored>>
    BY <1>6 DEF SkipMissing, fileVars, streamVars
  <2>4. FileTypeOK'
    BY <1>1, <2>3 DEF FileTypeOK
  <2>5. Typed /\ pc = "shift" /\ UNCHANGED <<caller, currentSize>>
    BY <1>1, <1>6, <2>2 DEF SkipMissing, callVars, history
  <2> QED BY <2>1, <2>2, <2>3, <2>4, <2>5 DEF Inv, TypeOK, Shape
<1>7. CASE RemoveTarget
  <2>1. /\ i \in 1 .. MaxFiles /\ i \in Names /\ i - 1 \in Names
        /\ files' \in [Names -> File] /\ files'[i] = NoFile
        /\ \A n \in Names : n # i => files'[n] = files[n]
    BY <1>7, AfterRemove
  <2>2. UNCHANGED <<filename_, fd_, buffer, stored>> /\ ~fd_
    BY <1>7 DEF RemoveTarget, streamVars, Inv, Shape
  <2>3. FileTypeOK'
    BY <1>1, <2>1, <2>2 DEF FileTypeOK
  <2>4. Typed /\ pc = "shift" /\ pc' = "rename" /\ i' = i /\ UNCHANGED <<caller, currentSize>>
    BY <1>1, <1>7 DEF RemoveTarget, callVars, history
  <2>5. ~NoFile.there /\ files'[i - 1].there
    BY <1>7, <2>1 DEF NoFile, RemoveTarget
  <2>6. \A n \in Names : ~files'[n].there => files'[n] = NoFile
    BY <2>1 DEF Inv, Shape
  <2> QED BY <2>1, <2>2, <2>3, <2>4, <2>5, <2>6 DEF Inv, TypeOK, Shape
<1>8. CASE Rename
  <2>1. /\ i \in 1 .. MaxFiles /\ i - 1 \in Names /\ i \in Names
        /\ files' \in [Names -> File]
        /\ files'[i] = files[i - 1] /\ files'[i - 1] = NoFile
        /\ \A n \in Names : n # i /\ n # i - 1 => files'[n] = files[n]
    BY <1>8, AfterRename
  <2>2. UNCHANGED <<filename_, fd_, buffer, stored>> /\ ~fd_
    BY <1>8 DEF Rename, streamVars, Inv, Shape
  <2>3. FileTypeOK'
    BY <1>1, <2>1, <2>2 DEF FileTypeOK
  <2>4. /\ i' = i - 1 /\ i' \in 0 .. MaxFiles /\ pc' \in {"shift", "reopen"}
        /\ (pc' = "shift" => i' > 0) /\ (pc' = "reopen" => i' = 0)
    BY <1>8, <2>1, Turn DEF Rename
  <2>5. Typed /\ pc = "rename" /\ UNCHANGED <<caller, currentSize>>
    BY <1>1, <1>8, <2>4 DEF Rename, callVars, history
  <2>6. ~NoFile.there
    BY DEF NoFile
  <2>7. \A n \in Names : ~files'[n].there => files'[n] = NoFile
    BY <2>1 DEF Inv, Shape
  <2> QED BY <2>1, <2>2, <2>3, <2>4, <2>5, <2>6, <2>7 DEF Inv, TypeOK, Shape
<1>9. CASE RenameFails
  <2>1. /\ Typed /\ pc = "rename" /\ pc' = "recover" /\ "rename" \in failed'
        /\ UNCHANGED <<caller, currentSize>>
        /\ UNCHANGED <<files, filename_, fd_, buffer, stored>> /\ ~fd_
    BY <1>1, <1>9 DEF RenameFails, fileVars, streamVars, callVars, Fails, Interrupted, Inv, Shape
  <2>2. FileTypeOK'
    BY <1>1, <2>1 DEF FileTypeOK
  <2> QED BY <2>1, <2>2 DEF Inv, TypeOK, Shape
<1>10. CASE Recover \/ Reopen
  <2>1. Open(0, TRUE)
    BY <1>2, <1>10 DEF Recover, Reopen
  <2>2. /\ FileTypeOK' /\ filename_' = 0 /\ fd_' /\ files'[0].there
        /\ \A n \in Names : ~files'[n].there => files'[n] = NoFile
    BY <2>1, AfterOpen
  <2>3. Typed /\ pc' \in {"abandon", "idle", "write"}
    <3>1. CASE Recover
      BY <1>1, <3>1 DEF Recover, callVars, history
    <3>2. CASE Reopen
      BY <1>1, <3>2 DEF Reopen, callVars, history
    <3> QED BY <1>10, <3>1, <3>2
  <2> QED BY <2>2, <2>3 DEF Inv, TypeOK, Shape
<1>11. CASE ReopenThrows
  <2>1. OpenThrows(0, TRUE)
    BY <1>2, <1>11 DEF ReopenThrows
  <2>2. /\ FileTypeOK' /\ filename_' = 0 /\ ~fd_' /\ buffer' = Nothing
        /\ \A n \in Names : ~files'[n].there => files'[n] = NoFile
    BY <2>1, AfterThrow
  <2>3. /\ Typed /\ UNCHANGED <<caller, currentSize>> /\ pc \in {"reopen", "recover"}
        /\ pc' = IF caller = "constructor" THEN "none" ELSE "idle"
    BY <1>1, <1>11 DEF ReopenThrows, callVars, Fails, Interrupted
  <2> QED BY <1>1, <2>2, <2>3 DEF Inv, TypeOK, Shape
<1>12. CASE Abandon \/ Destroy
  <2>1. /\ FileTypeOK' /\ filename_' = 0 /\ ~fd_' /\ buffer' = Nothing
        /\ \A n \in Names : ~files'[n].there => files'[n] = NoFile
    BY <1>12, AfterFlush DEF Abandon, Destroy, Close
  <2>2. Typed /\ pc' = "none"
    BY <1>1, <1>12 DEF Abandon, Destroy, callVars, history
  <2> QED BY <2>1, <2>2 DEF Inv, TypeOK, Shape
<1>13. CASE WriteMessage \/ WriteThrows
  <2>1. Typed /\ pc' = "idle"
    BY <1>1, <1>13 DEF WriteMessage, WriteThrows, callVars, history, Fails
  <2>2. CASE WriteThrows
    <3>1. UNCHANGED <<files, filename_, fd_, buffer, stored>> /\ fd_
      BY <2>2 DEF WriteThrows, fileVars, streamVars, Inv, Shape
    <3>2. FileTypeOK'
      BY <1>1, <3>1 DEF FileTypeOK
    <3> QED BY <2>1, <3>1, <3>2 DEF Inv, TypeOK, Shape
  <2>3. CASE WriteMessage
    <3>1. UNCHANGED <<files, filename_, fd_, stored>> /\ fd_
      BY <2>3 DEF WriteMessage, Write, Inv, Shape
    <3>2. buffer' \in Chunk
      BY <1>1, <1>2, <2>3 DEF WriteMessage, Write, Chunk
    <3>3. FileTypeOK'
      BY <1>1, <3>1, <3>2 DEF FileTypeOK
    <3> QED BY <2>1, <2>3, <3>1, <3>3 DEF Inv, TypeOK, Shape
  <2> QED BY <1>13, <2>2, <2>3
<1>14. CASE FlushSink
  <2>1. fd_' \in {fd_, FALSE} /\ fd_' = fd_ /\ filename_' = filename_ /\ files' = Flushed
        /\ PassOnBuffer /\ UNCHANGED <<currentSize, pc, i, caller, rotateOnOpen,
                                       formatted, nextId, failed, interruptions>>
    BY <1>14 DEF FlushSink, Flush, sinkVars, callVars, history
  <2>2. /\ FileTypeOK' /\ filename_' = 0 /\ buffer' = Nothing /\ (fd_' => files'[0].there)
        /\ \A n \in Names : ~files'[n].there => files'[n] = NoFile
    BY <2>1, AfterFlush
  <2>3. pc' \in {"idle", "write"} /\ pc' = pc /\ Typed
    BY <1>1, <1>14, <2>1 DEF FlushSink
  <2> QED BY <2>1, <2>2, <2>3 DEF Inv, TypeOK, Shape
<1>15. CASE Crash
  <2>1. /\ pc' = "none" /\ ~fd_' /\ fd_' \in BOOLEAN /\ buffer' = Nothing
        /\ UNCHANGED <<files, filename_, stored>>
    BY <1>15 DEF Crash, StreamIsLost
  <2>2. Typed
    BY <1>1, <1>15 DEF Crash, callVars, Interrupted
  <2>3. FileTypeOK'
    BY <1>1, <2>1 DEF FileTypeOK, Nothing, Chunk
  <2> QED BY <2>1, <2>2, <2>3 DEF Inv, TypeOK, Shape
<1>16. CASE UNCHANGED vars
  <2>1. UNCHANGED <<files, filename_, fd_, buffer, stored, currentSize, pc, i, caller,
                    rotateOnOpen, formatted, nextId, failed, interruptions>>
    BY <1>16 DEF vars, fileVars, streamVars, sinkVars, callVars, history
  <2>2. TypeOK'
    BY <2>1 DEF Inv, TypeOK, FileTypeOK
  <2> QED BY <2>1, <2>2 DEF Inv, Shape
<1> QED
  BY <1>3, <1>4, <1>5, <1>6, <1>7, <1>8, <1>9, <1>10, <1>11, <1>12, <1>13, <1>14, <1>15,
     <1>16 DEF Next

-----------------------------------------------------------------------------
(* Messages are numbered as they come, so that what is in a file, what was *)
(* ever in one, what is buffered and what comes next are in order.         *)
InHand == pc = "write" \/ (caller = "sink_it_" /\ pc \in {"close", "shift", "rename", "reopen"})

Order ==
    /\ FilesInOrder
    /\ \A n \in Names : files[n].ids \subseteq stored
    /\ \A x \in stored, y \in buffer.ids : x < y
    /\ \A x \in stored \cup buffer.ids : x < nextId /\ (InHand => x < nextId - 1)

(* A step that passes the buffer on to the log, and may then discard the   *)
(* log or keep it, leaves the order as it is ...                           *)
LEMMA PassOnOrder ==
    ASSUME Inv, Order, FileTypeOK', nextId' = nextId,
           \A n \in Names : n # 0 => files'[n] = files[n],
           \/ files'[0].ids = {}
           \/ files'[0].ids = files[0].ids \cup buffer.ids,
           buffer' = Nothing, stored' = stored \cup buffer.ids,
           InHand' => InHand
    PROVE  Order'
<1> USE RotatingAssumption
<1>1. 0 \in Names /\ \A n \in Names : n \in Nat /\ (n < 0 => FALSE) /\ (0 < n <=> n # 0)
  OBVIOUS
<1>2. buffer'.ids = {}
  BY DEF Nothing
<1>3. \A n \in Names : files'[n].ids \subseteq stored'
  BY <1>1 DEF Order
<1>4. FilesInOrder'
  <2> SUFFICES ASSUME NEW m \in Names, NEW n \in Names, m < n,
                      NEW x \in files'[n].ids, NEW y \in files'[m].ids
               PROVE  x < y
    BY <1>2 DEF FilesInOrder
  <2>1. n # 0 /\ files'[n] = files[n]
    BY <1>1
  <2>2. CASE m # 0
    BY <2>1, <2>2 DEF Order, FilesInOrder
  <2>3. CASE m = 0
    <3>1. y \in files[0].ids \/ y \in buffer.ids
      BY <2>3
    <3> QED BY <1>1, <2>1, <2>3, <3>1 DEF Order, FilesInOrder
  <2> QED BY <2>2, <2>3
<1>5. \A x \in stored' \cup buffer'.ids : x < nextId' /\ (InHand' => x < nextId' - 1)
  BY <1>2 DEF Order
<1> QED BY <1>2, <1>3, <1>4, <1>5 DEF Order

(* The bound on the numbers of the messages stays valid as numbers go up. *)
LEMMA Below ==
    ASSUME NEW x \in Nat, NEW a \in Nat, NEW b \in Nat, x < a, b >= a,
           b > a \/ x < a - 1
    PROVE  x < b /\ x < b - 1
  OBVIOUS

(* ... and so does one that touches neither files nor stream. *)
LEMMA IdleOrder ==
    ASSUME Inv, Order, nextId' \in Nat, nextId' >= nextId,
           UNCHANGED <<files, stored>>, buffer' \in {buffer, Nothing},
           InHand' => nextId' > nextId \/ InHand
    PROVE  Order'
<1>1. nextId \in Nat /\ stored \subseteq Nat /\ buffer \in Chunk
  BY DEF Inv, TypeOK, FileTypeOK
<1>2. buffer'.ids \subseteq buffer.ids
  BY DEF Nothing
<1>3. buffer.ids \subseteq Nat
  BY <1>1 DEF Chunk
<1>4. \A x \in stored' \cup buffer'.ids : x < nextId' /\ (InHand' => x < nextId' - 1)
  <2> SUFFICES ASSUME NEW x \in stored \cup buffer.ids
               PROVE  x < nextId' /\ (InHand' => x < nextId' - 1)
    BY <1>2
  <2>1. x \in Nat /\ x < nextId
    BY <1>1, <1>3 DEF Order
  <2>5. InHand => x < nextId - 1
    BY DEF Order
  <2>2. nextId' \in Nat /\ nextId' >= nextId
    OBVIOUS
  <2>3. x < nextId'
    BY <1>1, <2>1, <2>2
  <2>4. ASSUME InHand' PROVE x < nextId' - 1
    <3>1. nextId' > nextId \/ x < nextId - 1
      BY <2>4, <2>5
    <3> QED BY <1>1, <2>1, <2>2, <3>1, Below
  <2> QED BY <2>3, <2>4
<1>5. FilesInOrder'
  BY <1>2 DEF Order, FilesInOrder
<1> QED BY <1>2, <1>4, <1>5 DEF Order

(* Moving a file by one place to a free one keeps the files in order. *)
LEMMA RenameOrder ==
    ASSUME Inv, Order, Rename
    PROVE  Order'
<1> USE RotatingAssumption
<1>1. /\ i \in 1 .. MaxFiles /\ i - 1 \in Names /\ i \in Names
      /\ files'[i] = files[i - 1] /\ files'[i - 1] = NoFile
      /\ \A n \in Names : n # i /\ n # i - 1 => files'[n] = files[n]
  BY AfterRename
<1>2. UNCHANGED <<buffer, stored, nextId>> /\ (InHand' => InHand)
  BY <1>1, Turn DEF Rename, streamVars, callVars, InHand
<1>3. NoFile.ids = {}
  BY DEF NoFile
<1> DEFINE From(n) == IF n = i THEN i - 1 ELSE n
<1>4. \A n \in Names : From(n) \in Names /\ files'[n].ids \subseteq files[From(n)].ids
  BY <1>1, <1>3
<1>5. \A m, n \in Names : m < n /\ files'[m].ids # {} => From(m) < From(n)
  <2> SUFFICES ASSUME NEW m \in Names, NEW n \in Names, m < n, files'[m].ids # {}
               PROVE  From(m) < From(n)
    OBVIOUS
  <2>1. m # i - 1
    BY <1>1, <1>3
  <2> QED BY <1>1, <2>1
<1> HIDE DEF From
<1>6. FilesInOrder'
  <2>1. ASSUME NEW m \in Names, NEW n \in Names, m < n,
               NEW x \in files'[n].ids, NEW y \in files'[m].ids
        PROVE  x < y
    BY <1>4, <1>5, <2>1 DEF Order, FilesInOrder
  <2>2. ASSUME NEW n \in Names, NEW x \in files'[n].ids, NEW y \in buffer'.ids
        PROVE  x < y
    BY <1>2, <1>4 DEF Order, FilesInOrder
  <2> QED BY <2>1, <2>2 DEF FilesInOrder
<1>7. \A n \in Names : files'[n].ids \subseteq stored'
  BY <1>2, <1>4 DEF Order
<1>8. \A x \in stored' \cup buffer'.ids : x < nextId' /\ (InHand' => x < nextId' - 1)
  BY <1>2 DEF Order
<1> QED BY <1>2, <1>6, <1>7, <1>8 DEF Order

(* Removing a file keeps the others in order. *)
LEMMA RemoveOrder ==
    ASSUME Inv, Order, RemoveTarget
    PROVE  Order'
<1>1. /\ files'[i] = NoFile
      /\ \A n \in Names : n # i => files'[n] = files[n]
  BY AfterRemove
<1>2. UNCHANGED <<buffer, stored, nextId>> /\ (InHand' => InHand)
  BY DEF RemoveTarget, streamVars, callVars, InHand
<1>3. \A n \in Names : files'[n].ids \subseteq files[n].ids
  BY <1>1 DEF NoFile
<1>4. FilesInOrder'
  BY <1>2, <1>3 DEF Order, FilesInOrder
<1> QED BY <1>2, <1>3, <1>4 DEF Order

(* Every step keeps the files in order. *)
LEMMA NextOrder == Inv /\ Order /\ [Next]_vars => Order'
<1> USE RotatingAssumption
<1> SUFFICES ASSUME Inv, Order, [Next]_vars PROVE Order'
  OBVIOUS
<1>1. nextId \in Nat /\ stored \subseteq Nat /\ buffer.ids \subseteq Nat /\ filename_ = 0
  BY DEF Inv, TypeOK, FileTypeOK, Shape, Chunk
<1>2. EmptyFile.ids = {}
  BY DEF EmptyFile
<1>3. CASE Construct
  <2>1. Open(0, FALSE) /\ nextId' = nextId /\ (InHand' => InHand)
    BY <1>3 DEF Construct, InHand
  <2>2. /\ FileTypeOK' /\ files'[0].ids = files[0].ids \cup buffer.ids
        /\ \A n \in Names : n # 0 => files'[n] = files[n]
        /\ buffer' = Nothing /\ stored' = stored \cup buffer.ids
    BY <2>1, AfterOpen
  <2> QED BY <2>1, <2>2, PassOnOrder
<1>4. CASE Recover \/ Reopen
  <2>1. Open(0, TRUE) /\ nextId' = nextId /\ (InHand' => InHand)
    BY <1>1, <1>4 DEF Recover, Reopen, callVars, Inv, TypeOK, InHand
  <2>2. /\ FileTypeOK' /\ files'[0] = EmptyFile
        /\ \A n \in Names : n # 0 => files'[n] = files[n]
        /\ buffer' = Nothing /\ stored' = stored \cup buffer.ids
    BY <2>1, AfterOpen
  <2> QED BY <1>2, <2>1, <2>2, PassOnOrder
<1>5. CASE ConstructThrows \/ ReopenThrows
  <2>1. PICK truncate \in BOOLEAN : OpenThrows(0, truncate)
    BY <1>1, <1>5 DEF ConstructThrows, ReopenThrows
  <2>2. nextId' = nextId /\ (InHand' => InHand)
    BY <1>5 DEF ConstructThrows, ReopenThrows, callVars, InHand
  <2>3. /\ FileTypeOK'
        /\ \A n \in Names : n # 0 => files'[n] = files[n]
        /\ files'[0].ids = {} \/ files'[0].ids = files[0].ids \cup buffer.ids
        /\ buffer' = Nothing /\ stored' = stored \cup buffer.ids
    BY <1>2, <2>1, AfterThrow
  <2> QED BY <2>2, <2>3, PassOnOrder
<1>6. CASE RotateClose \/ Abandon \/ Destroy \/ FlushSink
  <2>1. /\ files' = Flushed /\ PassOnBuffer /\ filename_' = filename_ /\ fd_' \in {fd_, FALSE}
    BY <1>6 DEF RotateClose, Abandon, Destroy, FlushSink, Close, Flush
  <2>2. nextId' = nextId /\ (InHand' => InHand)
    BY <1>6 DEF RotateClose, Abandon, Destroy, FlushSink, sinkVars, callVars, InHand
  <2>3. /\ FileTypeOK' /\ files'[0].ids = files[0].ids \cup buffer.ids
        /\ \A n \in Names : n # 0 => files'[n] = files[n]
        /\ buffer' = Nothing /\ stored' = stored \cup buffer.ids
    BY <2>1, AfterFlush
  <2> QED BY <2>2, <2>3, PassOnOrder
<1>7. CASE SkipMissing \/ RenameFails \/ WriteThrows \/ Crash \/ UNCHANGED vars
  <2>1. /\ UNCHANGED <<files, stored, nextId>> /\ buffer' \in {buffer, Nothing}
        /\ InHand' => InHand
    <3>1. CASE SkipMissing
      BY <3>1 DEF SkipMissing, NextTurn, fileVars, streamVars, callVars, InHand
    <3>2. CASE RenameFails
      BY <3>2 DEF RenameFails, fileVars, streamVars, callVars, InHand
    <3>3. CASE WriteThrows
      BY <3>3 DEF WriteThrows, fileVars, streamVars, callVars, InHand
    <3>4. CASE Crash
      BY <3>4 DEF Crash, StreamIsLost, callVars, InHand
    <3>5. CASE UNCHANGED vars
      BY <3>5 DEF vars, fileVars, streamVars, sinkVars, callVars, InHand
    <3> QED BY <1>7, <3>1, <3>2, <3>3, <3>4, <3>5
  <2>2. nextId' \in Nat /\ nextId' >= nextId
    BY <1>1, <2>1
  <2> QED BY <2>1, <2>2, IdleOrder
<1>8. ASSUME NEW size \in Sizes, SinkIt(size) PROVE Order'
  <2>1. UNCHANGED <<files, stored, buffer>> /\ nextId' = nextId + 1
    BY <1>8 DEF SinkIt, fileVars, streamVars
  <2>2. nextId' \in Nat /\ nextId' >= nextId /\ nextId' > nextId
    BY <1>1, <2>1
  <2> QED BY <2>1, <2>2, IdleOrder
<1>9. CASE WriteMessage
  <2>1. /\ UNCHANGED <<files, stored, nextId>> /\ buffer'.ids = buffer.ids \cup {nextId - 1}
        /\ InHand /\ ~InHand'
    BY <1>9 DEF WriteMessage, Write, callVars, InHand
  <2>2. \A x \in stored \cup buffer.ids : x < nextId - 1
    BY <2>1 DEF Order
  <2>3. nextId - 1 < nextId /\ \A x \in stored \cup buffer.ids : x \in Nat /\ x < nextId
    BY <1>1 DEF Order
  <2>4. \A n \in Names : files[n].ids \subseteq stored
    BY DEF Order
  <2>5. FilesInOrder'
    BY <2>1, <2>2, <2>4 DEF Order, FilesInOrder
  <2> QED BY <2>1, <2>2, <2>3, <2>4, <2>5 DEF Order
<1> QED
  BY <1>3, <1>4, <1>5, <1>6, <1>7, <1>8, <1>9, RemoveOrder, RenameOrder DEF Next

(* At the start there are no messages to be out of order. *)
LEMMA InitOrder == Init => Order
  BY RotatingAssumption DEF Init, FileInit, Order, FilesInOrder, NoFile, Nothing, InHand

-----------------------------------------------------------------------------
(* What a step does to the messages that are retained, for the steps that  *)
(* may discard some: only a rename that fails discards the log.            *)
LEMMA PassOnRetained ==
    ASSUME Inv, Order, OnlyTheOldestIsLost, "rename" \notin failed,
           \A n \in Names : n # 0 => files'[n] = files[n],
           files'[0].ids = files[0].ids \cup buffer.ids,
           stored' = stored \cup buffer.ids
    PROVE  \A x \in Retained', y \in stored' : y > x => y \in Retained'
<1>1. 0 \in Names
  BY RotatingAssumption
<1>2. Retained' = Retained \cup buffer.ids
  BY <1>1 DEF Retained
<1>3. Retained \subseteq stored /\ stored \subseteq Nat /\ buffer.ids \subseteq Nat
  BY DEF Order, Retained, Inv, TypeOK, FileTypeOK, Chunk
<1>4. \A x \in buffer.ids, y \in stored : ~(y > x)
  BY <1>3 DEF Order
<1> QED BY <1>2, <1>4 DEF OnlyTheOldestIsLost

(* The log is not there, and so holds nothing, unless it is the only file. *)
LEMMA TruncateRetained ==
    ASSUME Inv, OnlyTheOldestIsLost, "rename" \notin failed, pc = "reopen",
           \A n \in Names : n # 0 => files'[n] = files[n],
           files'[0].ids = {}, stored' = stored \cup buffer.ids
    PROVE  \A x \in Retained', y \in stored' : y > x => y \in Retained'
<1> USE RotatingAssumption
<1>1. 0 \in Names /\ stored' = stored
  BY DEF Inv, Shape, Nothing
<1>2. CASE MaxFiles > 0
  <2>1. files[0] = NoFile
    BY <1>1, <1>2 DEF Inv, Shape
  <2>2. Retained' = Retained
    BY <1>1, <2>1 DEF Retained, NoFile
  <2> QED BY <1>1, <2>2 DEF OnlyTheOldestIsLost
<1>3. CASE ~(MaxFiles > 0)
  <2>1. Names = {0}
    BY <1>3
  <2> QED BY <2>1 DEF Retained
<1> QED BY <1>2, <1>3

(* The only file that rotate_ removes is the oldest one: the shape of the *)
(* files leaves nothing at the target in the later turns of the loop.     *)
LEMMA RemoveRetained ==
    ASSUME Inv, Order, OnlyTheOldestIsLost, "rename" \notin failed, RemoveTarget
    PROVE  \A x \in Retained', y \in stored' : y > x => y \in Retained'
<1> USE RotatingAssumption
<1>1. /\ i \in 1 .. MaxFiles /\ i \in Names
      /\ files'[i] = NoFile
      /\ \A n \in Names : n # i => files'[n] = files[n]
  BY AfterRemove
<1>2. stored' = stored /\ stored \subseteq Nat /\ pc = "shift"
  BY DEF RemoveTarget, streamVars, Inv, TypeOK, FileTypeOK
<1>3. CASE i < MaxFiles
  <2>1. files[i] = NoFile
    BY <1>1, <1>2, <1>3 DEF Inv, Shape
  <2>2. \A n \in Names : files'[n] = files[n]
    BY <1>1, <2>1
  <2>3. Retained' = Retained
    BY <2>2 DEF Retained
  <2> QED BY <1>2, <2>3 DEF OnlyTheOldestIsLost
<1>4. CASE i = MaxFiles
  <2> SUFFICES ASSUME NEW x \in Retained', NEW y \in stored, y > x
               PROVE  y \in Retained'
    BY <1>2
  <2>1. PICK n \in Names : n # i /\ x \in files[n].ids
    BY <1>1 DEF Retained, NoFile
  <2>2. x \in Retained
    BY <2>1 DEF Retained
  <2>3. PICK m \in Names : y \in files[m].ids
    BY <2>2 DEF Retained, OnlyTheOldestIsLost
  <2>4. m # i
    <3>1. SUFFICES ASSUME m = i PROVE FALSE
      OBVIOUS
    <3>2. n < m
      BY <1>4, <2>1, <3>1
    <3>3. y < x
      BY <2>1, <2>3, <3>2 DEF Order, FilesInOrder
    <3>4. x \in Nat /\ y \in Nat
      BY <1>2, <2>1 DEF Order
    <3> QED BY <3>3, <3>4
  <2> QED BY <1>1, <2>3, <2>4 DEF Retained
<1> QED BY <1>1, <1>3, <1>4

(* A rename to a free place loses nothing. *)
LEMMA RenameRetained ==
    ASSUME Inv, Rename
    PROVE  Retained' = Retained
<1>1. /\ i - 1 \in Names /\ i \in Names
      /\ files'[i] = files[i - 1] /\ files'[i - 1] = NoFile
      /\ \A n \in Names : n # i /\ n # i - 1 => files'[n] = files[n]
  BY AfterRename
<1>2. files[i] = NoFile
  BY <1>1 DEF Inv, Shape, Rename
<1>3. NoFile.ids = {}
  BY DEF NoFile
<1>4. ASSUME NEW x PROVE (\E n \in Names : x \in files'[n].ids) <=> \E n \in Names : x \in files[n].ids
  BY <1>1, <1>2, <1>3
<1> QED BY <1>4 DEF Retained

(* Every step loses the oldest messages only, unless a rename fails. *)
LEMMA NextRetained ==
    Inv /\ Order /\ OnlyTheOldestIsLost /\ [Next]_vars => OnlyTheOldestIsLost'
<1> SUFFICES ASSUME Inv, Order, OnlyTheOldestIsLost, [Next]_vars, "rename" \notin failed'
             PROVE  \A x \in Retained', y \in stored' : y > x => y \in Retained'
  BY DEF OnlyTheOldestIsLost
<1>1. filename_ = 0
  BY DEF Inv, Shape
<1>2. CASE Construct
  <2>1. Open(0, FALSE) /\ failed' = failed
    BY <1>2 DEF Construct, history
  <2>2. /\ files'[0].ids = files[0].ids \cup buffer.ids
        /\ \A n \in Names : n # 0 => files'[n] = files[n]
        /\ stored' = stored \cup buffer.ids
    BY <2>1, AfterOpen
  <2> QED BY <2>1, <2>2, PassOnRetained
<1>3. CASE ConstructThrows
  <2>1. OpenThrows(0, FALSE) /\ "rename" \notin failed
    BY <1>3 DEF ConstructThrows, Fails
  <2>2. /\ files'[0].ids = files[0].ids \cup buffer.ids
        /\ \A n \in Names : n # 0 => files'[n] = files[n]
        /\ stored' = stored \cup buffer.ids
    BY <2>1, AfterThrow
  <2> QED BY <2>1, <2>2, PassOnRetained
<1>4. CASE RotateClose \/ Abandon \/ Destroy \/ FlushSink
  <2>1. /\ files' = Flushed /\ PassOnBuffer /\ filename_' = filename_ /\ fd_' \in {fd_, FALSE}
    BY <1>4 DEF RotateClose, Abandon, Destroy, FlushSink, Close, Flush
  <2>2. failed' = failed
    BY <1>4 DEF RotateClose, Abandon, Destroy, FlushSink, sinkVars, history
  <2>3. /\ files'[0].ids = files[0].ids \cup buffer.ids
        /\ \A n \in Names : n # 0 => files'[n] = files[n]
        /\ stored' = stored \cup buffer.ids
    BY <2>1, AfterFlush
  <2> QED BY <2>2, <2>3, PassOnRetained
<1>5. CASE SkipMissing \/ WriteThrows \/ Crash \/ WriteMessage \/ UNCHANGED vars
  <2>1. UNCHANGED <<files, stored>> /\ "rename" \notin failed
    BY <1>5 DEF SkipMissing, WriteThrows, Crash, StreamIsLost, WriteMessage, Write, vars,
                fileVars, streamVars, sinkVars, history, Fails
  <2>2. Retained' = Retained
    BY <2>1 DEF Retained
  <2> QED BY <2>1, <2>2 DEF OnlyTheOldestIsLost
<1>6. ASSUME NEW size \in Sizes, SinkIt(size)
      PROVE  \A x \in Retained', y \in stored' : y > x => y \in Retained'
  <2>1. UNCHANGED <<files, stored, failed>>
    BY <1>6 DEF SinkIt, fileVars, streamVars, history
  <2>2. Retained' = Retained
    BY <2>1 DEF Retained
  <2> QED BY <2>1, <2>2 DEF OnlyTheOldestIsLost
<1>7. CASE RemoveTarget
  <2>1. "rename" \notin failed
    BY <1>7 DEF RemoveTarget, history
  <2> QED BY <1>7, <2>1, RemoveRetained
<1>8. CASE Rename
  <2>1. "rename" \notin failed /\ stored' = stored
    BY <1>8 DEF Rename, streamVars, history
  <2> QED BY <1>8, <2>1, RenameRetained DEF OnlyTheOldestIsLost
<1>9. CASE RenameFails \/ Recover
  BY <1>9 DEF RenameFails, Fails, Recover, Inv, Shape, history
<1>10. CASE Reopen
  <2>1. Open(0, TRUE) /\ failed' = failed /\ pc = "reopen"
    BY <1>1, <1>10 DEF Reopen, history
  <2>2. /\ files'[0] = EmptyFile /\ stored' = stored \cup buffer.ids
        /\ \A n \in Names : n # 0 => files'[n] = files[n]
    BY <2>1, AfterOpen
  <2> QED BY <2>1, <2>2, TruncateRetained DEF EmptyFile
<1>11. CASE ReopenThrows
  <2>1. OpenThrows(0, TRUE) /\ "rename" \notin failed
    BY <1>1, <1>11 DEF ReopenThrows, Fails
  <2>2. /\ stored' = stored \cup buffer.ids
        /\ \A n \in Names : n # 0 => files'[n] = files[n]
        /\ files'[0] = EmptyFile \/ files'[0].ids = files[0].ids \cup buffer.ids
    BY <2>1, AfterThrow
  <2>3. pc = "reopen"
    BY <1>11, <2>1 DEF ReopenThrows, Inv, Shape
  <2>4. CASE files'[0] = EmptyFile
    BY <2>1, <2>2, <2>3, <2>4, TruncateRetained DEF EmptyFile
  <2>5. CASE files'[0].ids = files[0].ids \cup buffer.ids
    BY <2>1, <2>2, <2>5, PassOnRetained
  <2> QED BY <2>2, <2>4, <2>5
<1> QED
  BY <1>2, <1>3, <1>4, <1>5, <1>6, <1>7, <1>8, <1>9, <1>10, <1>11 DEF Next

-----------------------------------------------------------------------------
(* Where there is no message there are no bytes. *)
Accounted ==
    /\ \A n \in Names : files[n].ids = {} => files[n].bytes = 0
    /\ buffer.ids = {} => buffer.bytes = 0

(* Every step keeps bytes and messages together. *)
LEMMA NextAccounted == Inv /\ Accounted /\ [Next]_vars => Accounted'
<1> USE RotatingAssumption
<1> SUFFICES ASSUME Inv, Accounted, [Next]_vars PROVE Accounted'
  OBVIOUS
<1>1. 0 \in Names /\ filename_ = 0
  BY DEF Inv, Shape
<1>2. ASSUME buffer' = Nothing,
             \A n \in Names : n # 0 => files'[n] = files[n],
             \/ files'[0] = EmptyFile
             \/ /\ files'[0].ids = files[0].ids \cup buffer.ids
                /\ files'[0].bytes = files[0].bytes + buffer.bytes
      PROVE  Accounted'
  <2>1. files'[0].ids = {} => files'[0].bytes = 0
    BY <1>1, <1>2 DEF Accounted, EmptyFile
  <2> QED BY <1>2, <2>1 DEF Accounted, Nothing
<1>3. CASE Construct \/ Recover \/ Reopen
  <2>1. PICK truncate \in BOOLEAN : Open(0, truncate)
    BY <1>1, <1>3 DEF Construct, Recover, Reopen
  <2> QED BY <1>2, <2>1, AfterOpen
<1>4. CASE ConstructThrows \/ ReopenThrows
  <2>1. PICK truncate \in BOOLEAN : OpenThrows(0, truncate)
    BY <1>1, <1>4 DEF ConstructThrows, ReopenThrows
  <2> QED BY <1>2, <2>1, AfterThrow
<1>5. CASE RotateClose \/ Abandon \/ Destroy \/ FlushSink
  <2>1. /\ files' = Flushed /\ PassOnBuffer /\ filename_' = filename_ /\ fd_' \in {fd_, FALSE}
    BY <1>5 DEF RotateClose, Abandon, Destroy, FlushSink, Close, Flush
  <2> QED BY <1>2, <2>1, AfterFlush
<1>6. CASE SkipMissing \/ RenameFails \/ WriteThrows \/ Crash \/ UNCHANGED vars
  <2>1. UNCHANGED files /\ buffer' \in {buffer, Nothing}
    BY <1>6 DEF SkipMissing, RenameFails, WriteThrows, Crash, StreamIsLost, vars, fileVars,
                streamVars
  <2> QED BY <2>1 DEF Accounted, Nothing
<1>7. ASSUME NEW size \in Sizes, SinkIt(size) PROVE Accounted'
  BY <1>7 DEF SinkIt, fileVars, streamVars, Accounted
<1>8. CASE RemoveTarget
  BY <1>8, AfterRemove DEF RemoveTarget, streamVars, Accounted, NoFile
<1>9. CASE Rename
  BY <1>9, AfterRename DEF Rename, streamVars, Accounted, NoFile
<1>10. CASE WriteMessage
  <2>1. files' = files /\ buffer'.ids # {}
    BY <1>10 DEF WriteMessage, Write
  <2> QED BY <2>1 DEF Accounted
<1> QED
  BY <1>3, <1>4, <1>5, <1>6, <1>7, <1>8, <1>9, <1>10 DEF Next

(* current_size_ is never less than the length of the log with what is     *)
(* buffered, and a message that is about to be written fits or will be the *)
(* only one.                                                               *)
LiveIds == files[0].ids \cup buffer.ids
LiveBytes == files[0].bytes + buffer.bytes

Sized ==
    /\ FitsOrSingle(LiveIds, LiveBytes)
    /\ \A n \in Names : n # 0 => FitsOrSingle(files[n].ids, files[n].bytes)
    /\ pc = "idle" /\ fd_ => LiveBytes <= currentSize
    /\ pc = "write" => /\ LiveBytes + formatted <= currentSize
                       /\ currentSize <= MaxSize \/ (LiveIds = {} /\ LiveBytes = 0)

(* The sizes that the next lemmas compare are numbers. *)
LEMMA LiveTypes ==
    ASSUME Inv
    PROVE  /\ files[0].bytes \in Nat /\ buffer.bytes \in Nat /\ LiveBytes \in Nat
           /\ currentSize \in Nat /\ formatted \in Nat /\ MaxSize \in Nat /\ 0 \in Names
<1>1. 0 \in Names /\ MaxSize \in Nat
  BY RotatingAssumption
<1> QED BY <1>1 DEF Inv, TypeOK, FileTypeOK, File, Chunk, LiveBytes

(* Passing the buffer on changes nothing about this; an empty log fits. *)
LEMMA LiveAfterPassOn ==
    ASSUME Inv, buffer' = Nothing,
           \/ /\ files'[0].ids = files[0].ids \cup buffer.ids
              /\ files'[0].bytes = files[0].bytes + buffer.bytes
           \/ files'[0] = EmptyFile
    PROVE  \/ LiveIds' = LiveIds /\ LiveBytes' = LiveBytes
           \/ LiveIds' = {} /\ LiveBytes' = 0 /\ files'[0] = EmptyFile
<1>1. LiveBytes \in Nat
  BY LiveTypes
<1>2. buffer'.ids = {} /\ buffer'.bytes = 0
  BY DEF Nothing
<1> QED BY <1>1, <1>2 DEF LiveIds, LiveBytes, EmptyFile

(* An empty file is within the limit. *)
LEMMA EmptyFits == FitsOrSingle({}, 0)
  BY RotatingAssumption DEF FitsOrSingle

(* Every step keeps current_size_ at least the size of the log, and the *)
(* files within the limit.                                              *)
LEMMA NextSized == Inv /\ Accounted /\ Sized /\ [Next]_vars => Sized'
<1> USE RotatingAssumption
<1> SUFFICES ASSUME Inv, Accounted, Sized, [Next]_vars PROVE Sized'
  OBVIOUS
<1>1. /\ files[0].bytes \in Nat /\ buffer.bytes \in Nat /\ LiveBytes \in Nat
      /\ currentSize \in Nat /\ formatted \in Nat /\ MaxSize \in Nat /\ 0 \in Names
      /\ filename_ = 0
  BY LiveTypes DEF Inv, Shape
<1>2. Inv'
  BY NextInv
<1>3. CASE Construct
  <2>1. Open(0, FALSE) /\ pc' # "write" /\ currentSize' = files'[0].bytes
    BY <1>3 DEF Construct
  <2>2. /\ files'[0].ids = files[0].ids \cup buffer.ids
        /\ files'[0].bytes = files[0].bytes + buffer.bytes
        /\ \A n \in Names : n # 0 => files'[n] = files[n]
        /\ buffer' = Nothing
    BY <2>1, AfterOpen
  <2>3. LiveIds' = LiveIds /\ LiveBytes' = LiveBytes /\ currentSize' = LiveBytes
    BY <1>1, <2>1, <2>2 DEF LiveIds, LiveBytes, Nothing
  <2> QED BY <1>1, <2>1, <2>2, <2>3 DEF Sized
<1>4. CASE Recover \/ Reopen
  <2>1. /\ Open(0, TRUE)
        /\ pc' = "idle" => currentSize' \in Nat
        /\ pc' = "write" => currentSize' = formatted /\ formatted' = formatted
    <3>1. CASE Recover
      BY <1>1, <3>1 DEF Recover
    <3>2. CASE Reopen
      BY <1>1, <3>2 DEF Reopen, callVars
    <3> QED BY <1>4, <3>1, <3>2
  <2>2. /\ files'[0] = EmptyFile /\ buffer' = Nothing
        /\ \A n \in Names : n # 0 => files'[n] = files[n]
    BY <2>1, AfterOpen
  <2>3. LiveIds' = {} /\ LiveBytes' = 0
    BY <2>2 DEF LiveIds, LiveBytes, Nothing, EmptyFile
  <2> QED BY <1>1, <2>1, <2>2, <2>3, EmptyFits DEF Sized
<1>5. CASE ConstructThrows \/ ReopenThrows
  <2>1. PICK truncate \in BOOLEAN : OpenThrows(0, truncate)
    BY <1>1, <1>5 DEF ConstructThrows, ReopenThrows
  <2>2. /\ buffer' = Nothing /\ ~fd_'
        /\ \A n \in Names : n # 0 => files'[n] = files[n]
        /\ \/ files'[0] = EmptyFile
           \/ /\ files'[0].ids = files[0].ids \cup buffer.ids
              /\ files'[0].bytes = files[0].bytes + buffer.bytes
    BY <2>1, AfterThrow
  <2>3. \/ LiveIds' = LiveIds /\ LiveBytes' = LiveBytes
        \/ LiveIds' = {} /\ LiveBytes' = 0
    BY <2>2, LiveAfterPassOn
  <2>4. pc' # "write"
    BY <1>5 DEF ConstructThrows, ReopenThrows
  <2> QED BY <2>2, <2>3, <2>4, EmptyFits DEF Sized
<1>6. CASE RotateClose \/ Abandon \/ Destroy \/ FlushSink
  <2>1. /\ files' = Flushed /\ PassOnBuffer /\ filename_' = filename_ /\ fd_' \in {fd_, FALSE}
    BY <1>6 DEF RotateClose, Abandon, Destroy, FlushSink, Close, Flush
  <2>2. /\ pc' \in {"idle", "write"} => pc' = pc /\ fd_' = fd_
        /\ currentSize' = currentSize /\ formatted' = formatted
    BY <1>6 DEF RotateClose, Abandon, Destroy, FlushSink, Flush, sinkVars, callVars
  <2>3. /\ files'[0].ids = files[0].ids \cup buffer.ids
        /\ files'[0].bytes = files[0].bytes + buffer.bytes
        /\ \A n \in Names : n # 0 => files'[n] = files[n]
        /\ buffer' = Nothing
    BY <2>1, AfterFlush
  <2>4. LiveIds' = LiveIds /\ LiveBytes' = LiveBytes
    BY <1>1, <2>3 DEF LiveIds, LiveBytes, Nothing
  <2> QED BY <2>2, <2>3, <2>4 DEF Sized
<1>7. CASE SkipMissing \/ RenameFails
  <2>1. UNCHANGED <<files, buffer>> /\ pc' \notin {"idle", "write"}
    BY <1>7 DEF SkipMissing, RenameFails, NextTurn, fileVars, streamVars
  <2>2. LiveIds' = LiveIds /\ LiveBytes' = LiveBytes
    BY <2>1 DEF LiveIds, LiveBytes
  <2> QED BY <2>1, <2>2 DEF Sized
<1>8. CASE RemoveTarget
  <2>1. /\ i \in 1 .. MaxFiles /\ i \in Names /\ files'[i] = NoFile
        /\ \A n \in Names : n # i => files'[n] = files[n]
    BY <1>8, AfterRemove
  <2>2. buffer' = buffer /\ pc' = "rename" /\ i # 0
    BY <1>8, <2>1 DEF RemoveTarget, streamVars
  <2>3. LiveIds' = LiveIds /\ LiveBytes' = LiveBytes
    BY <1>1, <2>1, <2>2 DEF LiveIds, LiveBytes
  <2>4. FitsOrSingle(NoFile.ids, NoFile.bytes)
    BY EmptyFits DEF NoFile
  <2>5. \A n \in Names : n # 0 => FitsOrSingle(files'[n].ids, files'[n].bytes)
    BY <2>1, <2>4 DEF Sized
  <2> QED BY <2>2, <2>3, <2>5 DEF Sized
<1>9. CASE Rename
  <2>1. /\ i \in 1 .. MaxFiles /\ i - 1 \in Names /\ i \in Names
        /\ files'[i] = files[i - 1] /\ files'[i - 1] = NoFile
        /\ \A n \in Names : n # i /\ n # i - 1 => files'[n] = files[n]
    BY <1>9, AfterRename
  <2>2. /\ buffer' = buffer /\ buffer = Nothing /\ pc' \notin {"idle", "write"}
    BY <1>9 DEF Rename, NextTurn, streamVars, Inv, Shape
  <2>3. /\ LiveIds = files[0].ids /\ LiveBytes = files[0].bytes
        /\ LiveIds' = files'[0].ids /\ LiveBytes' = files'[0].bytes
    <3>1. files'[0].bytes \in Nat
      BY <1>1, <1>2 DEF Inv, TypeOK, FileTypeOK, File
    <3> QED BY <1>1, <2>2, <3>1 DEF LiveIds, LiveBytes, Nothing
  <2>4. \A n \in Names : FitsOrSingle(files[n].ids, files[n].bytes)
    BY <2>3 DEF Sized
  <2>5. \A n \in Names : FitsOrSingle(files'[n].ids, files'[n].bytes)
    <3> SUFFICES ASSUME NEW n \in Names PROVE FitsOrSingle(files'[n].ids, files'[n].bytes)
      OBVIOUS
    <3>1. CASE n = i - 1
      <4>1. files'[n].ids = {} /\ files'[n].bytes = 0
        BY <2>1, <3>1 DEF NoFile
      <4> QED BY <4>1, EmptyFits
    <3>2. CASE n = i
      BY <2>1, <2>4, <3>2
    <3>3. CASE n # i /\ n # i - 1
      BY <2>1, <2>4, <3>3
    <3> QED BY <3>1, <3>2, <3>3
  <2> QED BY <1>1, <2>2, <2>3, <2>5 DEF Sized
<1>10. ASSUME NEW size \in Sizes, SinkIt(size) PROVE Sized'
  <2>1. /\ UNCHANGED <<files, buffer, fd_>> /\ formatted' = size /\ pc = "idle"
        /\ currentSize' = currentSize + size /\ size \in Nat
        /\ pc' = IF currentSize' > MaxSize THEN "close" ELSE "write"
    BY <1>10 DEF SinkIt, fileVars, streamVars
  <2>2. LiveIds' = LiveIds /\ LiveBytes' = LiveBytes
    BY <2>1 DEF LiveIds, LiveBytes
  <2>3. ASSUME pc' = "write" PROVE LiveBytes + size <= currentSize' /\ currentSize' <= MaxSize
    <3>1. fd_
      BY <1>2, <2>1, <2>3 DEF Inv, Shape
    <3>2. LiveBytes <= currentSize
      BY <2>1, <3>1 DEF Sized
    <3> QED BY <1>1, <2>1, <2>3, <3>2
  <2>4. pc' # "idle"
    BY <2>1
  <2> QED BY <2>1, <2>2, <2>3, <2>4 DEF Sized
<1>11. CASE WriteMessage
  <2>1. /\ UNCHANGED <<files, fd_, currentSize>> /\ pc = "write" /\ pc' = "idle"
        /\ buffer'.ids = buffer.ids \cup {nextId - 1} /\ buffer'.bytes = buffer.bytes + formatted
    BY <1>11 DEF WriteMessage, Write
  <2>2. LiveIds' = LiveIds \cup {nextId - 1} /\ LiveBytes' = LiveBytes + formatted
    BY <1>1, <2>1 DEF LiveIds, LiveBytes
  <2>3. /\ LiveBytes + formatted <= currentSize
        /\ currentSize <= MaxSize \/ LiveIds = {}
    BY <2>1 DEF Sized
  <2>4. FitsOrSingle(LiveIds', LiveBytes')
    <3>1. CASE currentSize <= MaxSize
      BY <1>1, <2>2, <2>3, <3>1 DEF FitsOrSingle
    <3>2. CASE LiveIds = {}
      <4>1. LiveIds' = {nextId - 1}
        BY <2>2, <3>2
      <4> QED BY <4>1 DEF FitsOrSingle
    <3> QED BY <2>3, <3>1, <3>2
  <2> QED BY <2>1, <2>2, <2>3, <2>4 DEF Sized
<1>12. CASE WriteThrows
  <2>1. /\ UNCHANGED <<files, buffer, currentSize>> /\ pc = "write" /\ pc' = "idle"
    BY <1>12 DEF WriteThrows, fileVars, streamVars
  <2>2. LiveIds' = LiveIds /\ LiveBytes' = LiveBytes
    BY <2>1 DEF LiveIds, LiveBytes
  <2>3. LiveBytes <= currentSize
    BY <1>1, <2>1 DEF Sized
  <2> QED BY <2>1, <2>2, <2>3 DEF Sized
<1>13. CASE Crash
  <2>1. files' = files /\ buffer' = Nothing /\ pc' = "none"
    BY <1>13 DEF Crash, StreamIsLost
  <2>2. LiveIds' = files[0].ids /\ LiveBytes' = files[0].bytes
    BY <1>1, <2>1 DEF LiveIds, LiveBytes, Nothing
  <2>3. FitsOrSingle(files[0].ids, files[0].bytes)
    <3>1. CASE LiveBytes <= MaxSize
      BY <1>1, <3>1 DEF LiveBytes, FitsOrSingle
    <3>2. CASE files[0].ids = {}
      BY <1>1, <3>2 DEF Accounted, FitsOrSingle
    <3>3. CASE \E id \in LiveIds : LiveIds = {id}
      BY <3>2, <3>3 DEF LiveIds, FitsOrSingle
    <3> QED BY <3>1, <3>3 DEF Sized, FitsOrSingle
  <2> QED BY <2>1, <2>2, <2>3 DEF Sized
<1>14. CASE UNCHANGED vars
  BY <1>14 DEF vars, fileVars, streamVars, sinkVars, callVars, Sized, LiveIds, LiveBytes
<1> QED
  BY <1>3, <1>4, <1>5, <1>6, <1>7, <1>8, <1>9, <1>10, <1>11, <1>12, <1>13, <1>14 DEF Next

-----------------------------------------------------------------------------
(* A rotation moves one hole down through the files, from its first rename  *)
(* on; if it ends early the hole stays.                                     *)
Lost == stored \ Retained # {}
Moved == Turning /\ \E m \in Names : m > i /\ files[m].there
Begun == Turning /\ ~(pc = "shift" /\ i = MaxFiles)

HolesBound == Cardinality(Holes) <= interruptions + (IF Moved THEN 1 ELSE 0)
MissingBound == Lost => Cardinality(Missing) <= interruptions + (IF Begun THEN 1 ELSE 0)

(* Before a rotation, when something has been lost the number of places    *)
(* without a file is at most the number of rotations that did not end.  It *)
(* is not inductive: the step that loses the first message needs to know   *)
(* of the holes that there were while nothing was lost.                    *)
Places == "rename" \notin failed => HolesBound /\ MissingBound

(* Sets of places are finite, and what is added or removed counts as one. *)
LEMMA CountPlaces ==
    ASSUME NEW S \in SUBSET Names, NEW T \in SUBSET Names, NEW x, NEW y
    PROVE  /\ Cardinality(S) \in Nat /\ Cardinality(T) \in Nat
           /\ T \subseteq S => Cardinality(T) <= Cardinality(S)
           /\ T \subseteq S \cup {x} => Cardinality(T) <= Cardinality(S) + 1
           /\ x \in S /\ T \subseteq S \ {x} => Cardinality(T) <= Cardinality(S) - 1
           /\ x \in S /\ T \subseteq (S \ {x}) \cup {y} => Cardinality(T) <= Cardinality(S)
<1>1. IsFiniteSet(Names)
  BY RotatingAssumption, FS_Interval
<1>2. IsFiniteSet(S) /\ IsFiniteSet(T)
  BY <1>1, FS_Subset
<1>3. Cardinality(S) \in Nat /\ Cardinality(T) \in Nat
  BY <1>2, FS_CardinalityType
<1>4. T \subseteq S => Cardinality(T) <= Cardinality(S)
  BY <1>2, FS_Subset
<1>5. /\ IsFiniteSet(S \cup {x}) /\ IsFiniteSet(S \ {x})
      /\ Cardinality(S \cup {x}) <= Cardinality(S) + 1
      /\ x \in S => Cardinality(S \ {x}) = Cardinality(S) - 1
      /\ Cardinality(S \cup {x}) \in Nat /\ Cardinality(S \ {x}) \in Nat
  <2>1. Cardinality(S \cup {x}) = IF x \in S THEN Cardinality(S) ELSE Cardinality(S) + 1
    BY <1>2, FS_AddElement
  <2>2. IsFiniteSet(S \cup {x}) /\ IsFiniteSet(S \ {x})
    BY <1>2, FS_AddElement, FS_RemoveElement
  <2>3. x \in S => Cardinality(S \ {x}) = Cardinality(S) - 1
    BY <1>2, FS_RemoveElement
  <2>4. Cardinality(S \cup {x}) \in Nat /\ Cardinality(S \ {x}) \in Nat
    BY <2>2, FS_CardinalityType
  <2> QED BY <1>3, <2>1, <2>2, <2>3, <2>4
<1>6. T \subseteq S \cup {x} => Cardinality(T) <= Cardinality(S) + 1
  <2>1. T \subseteq S \cup {x} => Cardinality(T) <= Cardinality(S \cup {x})
    BY <1>5, FS_Subset
  <2> QED BY <1>3, <1>5, <2>1
<1>7. x \in S /\ T \subseteq S \ {x} => Cardinality(T) <= Cardinality(S) - 1
  <2>1. T \subseteq S \ {x} => Cardinality(T) <= Cardinality(S \ {x})
    BY <1>5, FS_Subset
  <2> QED BY <1>3, <1>5, <2>1
<1>8. ASSUME x \in S, T \subseteq (S \ {x}) \cup {y} PROVE Cardinality(T) <= Cardinality(S)
  <2> DEFINE R == S \ {x}
  <2>1. IsFiniteSet(R \cup {y}) /\ Cardinality(R \cup {y}) \in {Cardinality(R), Cardinality(R) + 1}
    BY <1>5, FS_AddElement
  <2>2. Cardinality(T) <= Cardinality(R \cup {y})
    BY <1>8, <2>1, FS_Subset
  <2> QED BY <1>3, <1>5, <1>8, <2>1, <2>2
<1> QED BY <1>3, <1>4, <1>6, <1>7, <1>8

(* A step that removes no file, creates none but the log, and does not use *)
(* up the place that a rotation in progress may take.                      *)
LEMMA FilesStay ==
    ASSUME Inv, Places, "rename" \notin failed, interruptions' \in Nat,
           \A n \in Names : files[n].there => files'[n].there,
           \A n \in Names : n # 0 /\ files'[n].there => files[n].there,
           Lost' => Lost,
           interruptions' >= interruptions,
           Moved => Moved' \/ interruptions' > interruptions,
           Begun => Begun' \/ interruptions' > interruptions
    PROVE  Places'
<1>1. interruptions \in Nat /\ Names \subseteq Nat
  BY RotatingAssumption DEF Inv, TypeOK
<1>2. /\ Missing \in SUBSET Names /\ Missing' \in SUBSET Names
      /\ Holes \in SUBSET Names /\ Holes' \in SUBSET Names
  BY DEF Missing, Holes
<1>3. Missing' \subseteq Missing
  BY DEF Missing
<1>4. Holes' \subseteq Holes
  <2> SUFFICES ASSUME NEW n \in Holes' PROVE n \in Holes
    OBVIOUS
  <2>1. n \in Names /\ n \in Missing
    BY <1>2, <1>3 DEF Holes
  <2>2. PICK m \in Names : m > n /\ files'[m].there
    BY DEF Holes
  <2>3. m # 0
    BY <1>1, <2>1, <2>2
  <2> QED BY <2>1, <2>2, <2>3 DEF Holes
<1>5. /\ Cardinality(Missing') <= Cardinality(Missing) /\ Cardinality(Missing) \in Nat
      /\ Cardinality(Holes') <= Cardinality(Holes) /\ Cardinality(Holes) \in Nat
      /\ Cardinality(Missing') \in Nat /\ Cardinality(Holes') \in Nat
  BY <1>2, <1>3, <1>4, CountPlaces
<1>6. HolesBound'
  <2>1. Cardinality(Holes) <= interruptions + (IF Moved THEN 1 ELSE 0)
    BY DEF Places, HolesBound
  <2> QED BY <1>1, <1>5, <2>1 DEF HolesBound
<1>7. MissingBound'
  <2> SUFFICES ASSUME Lost' PROVE Cardinality(Missing') <= interruptions' + (IF Begun' THEN 1 ELSE 0)
    BY DEF MissingBound
  <2>1. Cardinality(Missing) <= interruptions + (IF Begun THEN 1 ELSE 0)
    BY DEF Places, MissingBound
  <2> QED BY <1>1, <1>5, <2>1
<1> QED BY <1>6, <1>7 DEF Places

(* What a step that passes the buffer on, or truncates a log that is not   *)
(* there, loses: nothing new.                                              *)
LEMMA PassOnLoses ==
    ASSUME Inv, \A n \in Names : n # 0 => files'[n] = files[n],
           stored' = stored \cup buffer.ids,
           \/ files'[0].ids = files[0].ids \cup buffer.ids
           \/ files[0] = NoFile /\ buffer = Nothing
    PROVE  Lost' => Lost
<1>1. 0 \in Names
  BY RotatingAssumption
<1>2. CASE files'[0].ids = files[0].ids \cup buffer.ids
  <2>1. Retained' = Retained \cup buffer.ids
    BY <1>1, <1>2 DEF Retained
  <2> QED BY <2>1 DEF Lost
<1>3. CASE files[0] = NoFile /\ buffer = Nothing
  <2>1. Retained \subseteq Retained' /\ stored' = stored
    BY <1>1, <1>3 DEF Retained, NoFile, Nothing
  <2> QED BY <2>1 DEF Lost
<1> QED BY <1>2, <1>3

(* rename_file_ removes the target: a file only in the first turn, and then *)
(* the holes are all the places without a file.                            *)
LEMMA RemovePlaces ==
    ASSUME Inv, Places, "rename" \notin failed, RemoveTarget
    PROVE  Places'
<1> USE RotatingAssumption
<1>1. /\ i \in 1 .. MaxFiles /\ i - 1 \in Names /\ i \in Names
      /\ files'[i] = NoFile
      /\ \A n \in Names : n # i => files'[n] = files[n]
  BY AfterRemove
<1>2. /\ pc = "shift" /\ pc' = "rename" /\ i' = i /\ stored' = stored
      /\ interruptions' = interruptions /\ interruptions \in Nat /\ failed' = failed
  BY DEF RemoveTarget, streamVars, history, Inv, TypeOK
<1>3. ~NoFile.there /\ NoFile.ids = {}
  BY DEF NoFile
<1>4. Begun' /\ (Moved' <=> Moved)
  BY <1>1, <1>2, <1>3 DEF Begun, Moved, Turning
<1>5. CASE files[i] = NoFile
  <2>1. \A n \in Names : files'[n] = files[n]
    BY <1>1, <1>5
  <2>2. Lost' => Lost
    BY <1>2, <2>1 DEF Lost, Retained
  <2> QED BY <1>2, <1>4, <2>1, <2>2, FilesStay
<1>6. CASE files[i] # NoFile
  <2>1. files[i].there /\ i = MaxFiles
    BY <1>1, <1>2, <1>6 DEF Inv, Shape
  <2>2. ~Moved /\ ~Begun
    BY <1>1, <1>2, <2>1 DEF Moved, Begun
  <2>3. /\ Missing \in SUBSET Names /\ Missing' \in SUBSET Names
        /\ Holes \in SUBSET Names /\ Holes' \in SUBSET Names
    BY DEF Missing, Holes
  <2>4. Missing' \subseteq Missing \cup {i}
    BY <1>1 DEF Missing
  <2>5. Missing \subseteq Holes
    BY <1>1, <2>1 DEF Missing, Holes
  <2>6. Holes' \subseteq Holes
    BY <1>1, <1>3, <2>1 DEF Missing, Holes
  <2>7. Cardinality(Holes) <= interruptions
    BY <1>2, <2>2, <2>3, CountPlaces DEF Places, HolesBound
  <2>8. /\ Cardinality(Holes') <= Cardinality(Holes)
        /\ Cardinality(Missing') <= Cardinality(Holes) + 1
        /\ Cardinality(Holes) \in Nat /\ Cardinality(Holes') \in Nat
        /\ Cardinality(Missing') \in Nat
    BY <2>3, <2>4, <2>5, <2>6, CountPlaces
  <2> QED BY <1>2, <1>4, <2>2, <2>7, <2>8 DEF Places, HolesBound, MissingBound
<1> QED BY <1>5, <1>6

(* The rename: the hole moves from the target's place to the source's, or  *)
(* begins there.                                                           *)
LEMMA RenamePlaces ==
    ASSUME Inv, Places, "rename" \notin failed, Rename
    PROVE  Places'
<1> USE RotatingAssumption
<1>1. /\ i \in 1 .. MaxFiles /\ i - 1 \in Names /\ i \in Names
      /\ files'[i] = files[i - 1] /\ files'[i - 1] = NoFile
      /\ \A n \in Names : n # i /\ n # i - 1 => files'[n] = files[n]
  BY AfterRename
<1>2. /\ pc = "rename" /\ pc' \in {"shift", "reopen"} /\ i' = i - 1 /\ stored' = stored
      /\ interruptions' = interruptions /\ interruptions \in Nat /\ failed' = failed
  BY <1>1, Turn DEF Rename, streamVars, history, Inv, TypeOK
<1>3. ~NoFile.there /\ ~files[i].there
  BY <1>2 DEF NoFile, Inv, Shape
<1>4. Lost' => Lost
  BY <1>2, RenameRetained DEF Lost
<1>5. Begun /\ Begun'
  BY <1>1, <1>2 DEF Begun, Turning
<1>6. /\ Missing \in SUBSET Names /\ Missing' \in SUBSET Names
      /\ Holes \in SUBSET Names /\ Holes' \in SUBSET Names
  BY DEF Missing, Holes
<1>7. i \in Missing /\ Missing' \subseteq (Missing \ {i}) \cup {i - 1}
  <2>1. i \in Missing /\ files'[i].there
    BY <1>1, <1>2, <1>3 DEF Missing, Inv, Shape
  <2> QED BY <1>1, <2>1 DEF Missing
<1>8. Moved'
  <2>1. i > i' /\ files'[i].there
    BY <1>1, <1>2 DEF Inv, Shape
  <2> QED BY <1>1, <1>2, <2>1 DEF Moved, Turning
<1>9. Holes' \subseteq (Holes \ {i}) \cup {i - 1}
  <2> SUFFICES ASSUME NEW n \in Holes', n # i - 1 PROVE n \in Holes \ {i}
    OBVIOUS
  <2>1. n \in Missing'
    BY DEF Holes
  <2>2. n \in Missing /\ n # i
    BY <1>7, <2>1
  <2>3. PICK m \in Names : m > n /\ files'[m].there
    BY DEF Holes
  <2>4. m # i - 1
    BY <1>1, <1>3, <2>3
  <2>5. CASE m = i
    <3>1. i - 1 > n /\ files[i - 1].there
      <4>1. n \in 0 .. MaxFiles
        BY <2>2 DEF Missing
      <4> QED BY <1>1, <1>2, <2>3, <2>5, <4>1 DEF Inv, Shape
    <3> QED BY <1>1, <2>2, <3>1 DEF Holes
  <2>6. CASE m # i
    BY <1>1, <2>2, <2>3, <2>4, <2>6 DEF Holes
  <2> QED BY <2>5, <2>6
<1>10. Cardinality(Missing') <= Cardinality(Missing)
  BY <1>6, <1>7, CountPlaces
<1>11. /\ Cardinality(Missing) \in Nat /\ Cardinality(Missing') \in Nat
       /\ Cardinality(Holes) \in Nat /\ Cardinality(Holes') \in Nat
  BY <1>6, CountPlaces
<1>12. Cardinality(Holes') <= interruptions + 1
  <2>1. CASE Moved
    <3>1. i \in Holes
      BY <1>7, <2>1 DEF Moved, Holes
    <3>2. Cardinality(Holes') <= Cardinality(Holes)
      BY <1>6, <1>9, <3>1, CountPlaces
    <3> QED BY <1>2, <1>11, <2>1, <3>2 DEF Places, HolesBound
  <2>2. CASE ~Moved
    <3>1. Holes' \subseteq Holes \cup {i - 1}
      BY <1>9
    <3>2. Cardinality(Holes') <= Cardinality(Holes) + 1
      BY <1>6, <3>1, CountPlaces
    <3> QED BY <1>2, <1>11, <2>2, <3>2 DEF Places, HolesBound
  <2> QED BY <2>1, <2>2
<1>13. HolesBound'
  BY <1>2, <1>8, <1>12 DEF HolesBound
<1>14. MissingBound'
  <2> SUFFICES ASSUME Lost' PROVE Cardinality(Missing') <= interruptions + 1
    BY <1>2, <1>5 DEF MissingBound
  <2>1. Cardinality(Missing) <= interruptions + 1
    BY <1>4, <1>5 DEF Places, MissingBound
  <2> QED BY <1>2, <1>10, <1>11, <2>1
<1> QED BY <1>13, <1>14 DEF Places

(* The log is created: the hole that the rotation moved is filled. *)
LEMMA ReopenPlaces ==
    ASSUME Inv, Places, "rename" \notin failed, Reopen
    PROVE  Places'
<1> USE RotatingAssumption
<1>1. Open(0, TRUE) /\ pc = "reopen" /\ pc' \in {"idle", "write"}
  BY DEF Reopen, Inv, Shape
<1>2. /\ files'[0] = EmptyFile /\ 0 \in Names /\ files'[0].there
      /\ \A n \in Names : n # 0 => files'[n] = files[n]
      /\ stored' = stored \cup buffer.ids /\ buffer = Nothing
      /\ interruptions' = interruptions /\ interruptions \in Nat /\ i \in Nat
  <2>1. /\ files'[0] = EmptyFile /\ files'[0].there
        /\ \A n \in Names : n # 0 => files'[n] = files[n]
        /\ stored' = stored \cup buffer.ids
    BY <1>1, AfterOpen
  <2>2. /\ buffer = Nothing /\ interruptions \in Nat /\ i \in Nat
    BY <1>1 DEF Inv, TypeOK, Shape
  <2> QED BY <2>1, <2>2 DEF Reopen, history
<1>3. /\ Missing \in SUBSET Names /\ Missing' \in SUBSET Names
      /\ Holes \in SUBSET Names /\ Holes' \in SUBSET Names
  BY DEF Missing, Holes
<1>4. /\ Cardinality(Missing) \in Nat /\ Cardinality(Missing') \in Nat
      /\ Cardinality(Holes) \in Nat /\ Cardinality(Holes') \in Nat
  BY <1>3, CountPlaces
<1>5. CASE MaxFiles > 0
  <2>1. ~files[0].there /\ files[0] = NoFile /\ 0 \in Missing
    BY <1>1, <1>2, <1>5 DEF Inv, Shape, Missing
  <2>2. Lost' => Lost
    BY <1>2, <2>1, PassOnLoses
  <2>3. Missing' \subseteq Missing \ {0}
    BY <1>2 DEF Missing
  <2>4. Holes' \subseteq Holes \ {0}
    <3> SUFFICES ASSUME NEW n \in Holes' PROVE n \in Holes \ {0}
      OBVIOUS
    <3>1. n \in Missing'
      BY DEF Holes
    <3>2. n \in Missing \ {0} /\ n \in Nat
      BY <1>3, <2>3, <3>1
    <3>3. PICK m \in Names : m > n /\ files'[m].there
      BY DEF Holes
    <3>4. m # 0
      BY <3>2, <3>3
    <3> QED BY <1>2, <3>2, <3>3, <3>4 DEF Holes
  <2>5. HolesBound'
    <3>1. CASE Moved
      <4>1. 0 \in Holes
        BY <1>2, <2>1, <3>1 DEF Moved, Holes
      <4>2. Cardinality(Holes') <= Cardinality(Holes) - 1
        BY <1>3, <2>4, <4>1, CountPlaces
      <4> QED BY <1>2, <1>4, <3>1, <4>2 DEF Places, HolesBound
    <3>2. CASE ~Moved
      <4>1. Cardinality(Holes') <= Cardinality(Holes)
        BY <1>3, <2>4, CountPlaces
      <4> QED BY <1>2, <1>4, <3>2, <4>1 DEF Places, HolesBound
    <3> QED BY <3>1, <3>2
  <2>6. MissingBound'
    <3> SUFFICES ASSUME Lost' PROVE Cardinality(Missing') <= interruptions
      BY <1>2, <1>4 DEF MissingBound
    <3>1. Cardinality(Missing') <= Cardinality(Missing) - 1
      BY <1>3, <2>1, <2>3, CountPlaces
    <3>2. Cardinality(Missing) <= interruptions + 1
      BY <1>2, <1>4, <2>2 DEF Places, MissingBound
    <3> QED BY <1>2, <1>4, <3>1, <3>2
  <2> QED BY <2>5, <2>6 DEF Places
<1>6. CASE ~(MaxFiles > 0)
  <2>1. Names = {0}
    BY <1>6
  <2>2. Missing' = {} /\ Holes' = {}
    BY <1>2, <2>1 DEF Missing, Holes
  <2>3. Cardinality(Missing') = 0 /\ Cardinality(Holes') = 0
    BY <2>2, FS_EmptySet
  <2> QED BY <1>2, <2>3 DEF Places, HolesBound, MissingBound
<1> QED BY <1>5, <1>6

(* The log cannot be opened: the rotation has not ended, and counts. *)
LEMMA ThrowPlaces ==
    ASSUME Inv, Places, "rename" \notin failed, ReopenThrows
    PROVE  Places'
<1> USE RotatingAssumption
<1>1. OpenThrows(0, TRUE) /\ pc = "reopen" /\ pc' \in {"none", "idle"}
  BY DEF ReopenThrows, Inv, Shape
<1>2. /\ \A n \in Names : n # 0 => files'[n] = files[n]
      /\ stored' = stored \cup buffer.ids /\ buffer = Nothing /\ 0 \in Names
      /\ interruptions' = interruptions + 1 /\ interruptions \in Nat
  <2>1. /\ \A n \in Names : n # 0 => files'[n] = files[n]
        /\ stored' = stored \cup buffer.ids
    BY <1>1, AfterThrow
  <2>2. buffer = Nothing /\ interruptions \in Nat
    BY <1>1 DEF Inv, TypeOK, Shape
  <2> QED BY <2>1, <2>2 DEF ReopenThrows, Interrupted
<1>3. files[0].there => files'[0].there
  <2>1. Flushed \in [Names -> File] /\ Flushed[0].there = files[0].there
    BY FlushedFiles
  <2>2. \/ files' = Flushed
        \/ files' = [Flushed EXCEPT ![0] = EmptyFile]
    BY <1>1 DEF OpenThrows
  <2>3. EmptyFile.there
    BY DEF EmptyFile
  <2> QED BY <1>2, <2>1, <2>2, <2>3
<1>4. CASE MaxFiles > 0
  <2>1. files[0] = NoFile
    BY <1>1, <1>2, <1>4 DEF Inv, Shape
  <2>2. Lost' => Lost
    BY <1>2, <2>1, PassOnLoses
  <2> QED BY <1>2, <1>3, <2>2, FilesStay
<1>5. CASE ~(MaxFiles > 0)
  <2>1. Names = {0}
    BY <1>5
  <2>2. Missing' \subseteq {} \cup {0} /\ Holes' = {}
    BY <2>1 DEF Missing, Holes
  <2>3. Cardinality(Missing') <= Cardinality({}) + 1 /\ Cardinality(Missing') \in Nat
    BY <2>1, <2>2, CountPlaces
  <2>4. Cardinality(Missing') <= 1 /\ Cardinality(Holes') = 0
    BY <2>2, <2>3, FS_EmptySet
  <2> QED BY <1>2, <2>3, <2>4 DEF Places, HolesBound, MissingBound
<1> QED BY <1>4, <1>5

(* Every step keeps the places in use, unless a rename fails. *)
LEMMA NextPlaces == Inv /\ Places /\ [Next]_vars => Places'
<1> SUFFICES ASSUME Inv, Places, [Next]_vars, "rename" \notin failed' PROVE Places'
  BY DEF Places
<1>1. /\ filename_ = 0 /\ interruptions \in Nat /\ i \in Nat
      /\ 0 \in Names /\ Names \subseteq Nat
  BY RotatingAssumption DEF Inv, TypeOK, Shape
<1>2. CASE Construct \/ ConstructThrows
  <2>1. /\ \A n \in Names : n # 0 => files'[n] = files[n]
        /\ stored' = stored \cup buffer.ids
        /\ files'[0].ids = files[0].ids \cup buffer.ids
        /\ files[0].there => files'[0].there
        /\ "rename" \notin failed
    <3>1. CASE Construct
      <4>1. Open(0, FALSE) /\ failed' = failed
        BY <3>1 DEF Construct, history
      <4> QED BY <4>1, AfterOpen
    <3>2. CASE ConstructThrows
      <4>1. OpenThrows(0, FALSE) /\ "rename" \notin failed
        BY <3>2 DEF ConstructThrows, Fails
      <4>2. Flushed[0].there = files[0].there
        BY FlushedFiles
      <4> QED BY <4>1, <4>2, AfterThrow DEF OpenThrows
    <3> QED BY <1>2, <3>1, <3>2
  <2>2. interruptions' = interruptions /\ ~Turning
    BY <1>2 DEF Construct, ConstructThrows, history, Turning
  <2>3. Lost' => Lost
    BY <2>1, PassOnLoses
  <2> QED BY <1>1, <2>1, <2>2, <2>3, FilesStay DEF Moved, Begun
<1>3. CASE RotateClose \/ Abandon \/ Destroy \/ FlushSink
  <2>1. /\ files' = Flushed /\ PassOnBuffer /\ filename_' = filename_ /\ fd_' \in {fd_, FALSE}
    BY <1>3 DEF RotateClose, Abandon, Destroy, FlushSink, Close, Flush
  <2>2. "rename" \notin failed /\ interruptions' = interruptions /\ ~Turning
    BY <1>3 DEF RotateClose, Abandon, Destroy, FlushSink, sinkVars, history, Turning
  <2>3. /\ files'[0].ids = files[0].ids \cup buffer.ids
        /\ \A n \in Names : n # 0 => files'[n] = files[n]
        /\ stored' = stored \cup buffer.ids
        /\ files[0].there => files'[0].there
    BY <2>1, AfterFlush, FlushedFiles
  <2>4. Lost' => Lost
    BY <2>3, PassOnLoses
  <2> QED BY <1>1, <2>2, <2>3, <2>4, FilesStay DEF Moved, Begun
<1>4. CASE WriteThrows \/ WriteMessage \/ UNCHANGED vars
  <2>1. /\ UNCHANGED <<files, stored, interruptions>> /\ "rename" \notin failed
        /\ (pc' = pc /\ i' = i) \/ ~Turning
    BY <1>4 DEF WriteThrows, WriteMessage, Write, vars, fileVars, streamVars, sinkVars,
                history, Fails, Turning
  <2>2. Lost' => Lost
    BY <2>1 DEF Lost, Retained
  <2>3. (Moved => Moved') /\ (Begun => Begun')
    BY <2>1 DEF Moved, Begun, Turning
  <2> QED BY <1>1, <2>1, <2>2, <2>3, FilesStay
<1>5. CASE SkipMissing
  <2>1. /\ UNCHANGED <<files, stored, interruptions, failed>>
        /\ pc = "shift" /\ NextTurn /\ i \in 1 .. MaxFiles
    BY <1>1, <1>5 DEF SkipMissing, fileVars, streamVars, history, Inv, TypeOK, Shape
  <2>2. /\ i' = i - 1 /\ i' < MaxFiles /\ pc' \in {"shift", "reopen"}
    BY <2>1, Turn
  <2>3. Lost' => Lost
    BY <2>1 DEF Lost, Retained
  <2>4. Begun' /\ (Moved => Moved')
    <3>1. \A m \in Names : m > i => m > i'
      BY <1>1, <2>2
    <3> QED BY <2>1, <2>2, <3>1 DEF Moved, Begun, Turning
  <2> QED BY <1>1, <2>1, <2>3, <2>4, FilesStay
<1>6. CASE Crash
  <2>1. UNCHANGED <<files, stored, failed>>
    BY <1>6 DEF Crash, StreamIsLost
  <2>2. Lost' => Lost
    BY <2>1 DEF Lost, Retained
  <2>3. interruptions' = IF pc \in {"shift", "rename", "recover", "reopen"}
                         THEN interruptions + 1 ELSE interruptions
    BY <1>6 DEF Crash, Interrupted
  <2>4. Turning => interruptions' > interruptions
    BY <1>1, <2>3 DEF Turning
  <2> QED BY <1>1, <2>1, <2>2, <2>3, <2>4, FilesStay DEF Moved, Begun
<1>7. ASSUME NEW size \in Sizes, SinkIt(size) PROVE Places'
  <2>1. UNCHANGED <<files, stored, failed, interruptions>> /\ ~Turning
    BY <1>7 DEF SinkIt, fileVars, streamVars, history, Turning
  <2>2. Lost' => Lost
    BY <2>1 DEF Lost, Retained
  <2> QED BY <1>1, <2>1, <2>2, FilesStay DEF Moved, Begun
<1>8. CASE RemoveTarget \/ Rename \/ Reopen
  <2>1. "rename" \notin failed
    BY <1>8 DEF RemoveTarget, Rename, Reopen, history
  <2> QED BY <1>8, <2>1, RemovePlaces, RenamePlaces, ReopenPlaces
<1>9. CASE ReopenThrows
  <2>1. "rename" \notin failed
    BY <1>9 DEF ReopenThrows, Fails
  <2> QED BY <1>9, <2>1, ThrowPlaces
<1>10. CASE RenameFails \/ Recover
  BY <1>10 DEF RenameFails, Fails, Recover, Inv, Shape, history
<1> QED
  BY <1>2, <1>3, <1>4, <1>5, <1>6, <1>7, <1>8, <1>9, <1>10 DEF Next

-----------------------------------------------------------------------------
(* The sink is type correct (TypeOK), ...                                  *)
THEOREM TypeCorrect == Spec => []TypeOK
<1>1. Spec => []Inv
  BY InitInv, NextInv, PTL DEF Spec
<1>2. Inv => TypeOK
  BY DEF Inv
<1> QED BY <1>1, <1>2, PTL

(* ... and never calls fwrite without a stream, although rotate_ may leave *)
(* sink_it_ with none (rotating_file_sink-inl.h, file_helper-inl.h).       *)
THEOREM StreamIsOpen == Spec => []WritesToOpenFile
<1>1. Spec => []Inv
  BY InitInv, NextInv, PTL DEF Spec
<1>2. Inv => WritesToOpenFile
  BY DEF Inv, Shape, WritesToOpenFile
<1> QED BY <1>1, <1>2, PTL

(* The files stay in order, for any number of them, whatever fails, and    *)
(* wherever rotate_ is interrupted.                                        *)
THEOREM OrderIsKept == Spec => []FilesInOrder
<1>1. Spec => []Inv
  BY InitInv, NextInv, PTL DEF Spec
<1>2. Inv /\ Order /\ [Next]_vars => Order'
  BY NextOrder
<1>3. Spec => []Order
  BY <1>1, <1>2, InitOrder, PTL DEF Spec
<1>4. Order => FilesInOrder
  BY DEF Order
<1> QED BY <1>3, <1>4, PTL

(* Unless a rename fails, only what is older than all that is kept is lost, *)
(* for any number of files, crashes and failures to open the log.          *)
THEOREM OldestIsLost == Spec => []OnlyTheOldestIsLost
<1>1. Spec => []Inv
  BY InitInv, NextInv, PTL DEF Spec
<1>2. Spec => []Order
  BY <1>1, InitOrder, NextOrder, PTL DEF Spec
<1>3. Init => OnlyTheOldestIsLost
  BY DEF Init, FileInit, OnlyTheOldestIsLost
<1> QED BY <1>1, <1>2, <1>3, NextRetained, PTL DEF Spec

(* Unless a rename fails, rotate_ leaves no hole between the files but one *)
(* for each rotation that did not end, nor, once something has been lost,  *)
(* any other place without a file; a rotation in progress has one more.    *)
THEOREM PlacesUsed == Spec => []PlacesAreUsed
<1>1. Spec => []Inv
  BY InitInv, NextInv, PTL DEF Spec
<1>2. Init => Places
  <2> SUFFICES ASSUME Init PROVE Places
    OBVIOUS
  <2>1. ~Lost /\ interruptions = 0
    BY DEF Init, FileInit, Lost
  <2>2. Holes = {}
    BY DEF Init, FileInit, Holes, Missing, NoFile
  <2> QED BY <2>1, <2>2, FS_EmptySet DEF Places, HolesBound, MissingBound
<1>3. Inv /\ Places => PlacesAreUsed
  <2> SUFFICES ASSUME Inv, Places, "rename" \notin failed PROVE PlacesAreUsed
    BY DEF PlacesAreUsed
  <2> DEFINE unfinished == interruptions + (IF Turning THEN 1 ELSE 0)
  <2>1. Missing \in SUBSET Names /\ Holes \in SUBSET Names /\ interruptions \in Nat
    BY DEF Missing, Holes, Inv, TypeOK
  <2>2. Cardinality(Missing) \in Nat /\ Cardinality(Holes) \in Nat
    BY <2>1, CountPlaces
  <2>3. Cardinality(Holes) <= unfinished
    BY <2>1, <2>2 DEF Places, HolesBound, Moved
  <2>4. Lost => Cardinality(Missing) <= unfinished
    BY <2>1, <2>2 DEF Places, MissingBound, Begun
  <2> QED BY <2>3, <2>4 DEF PlacesAreUsed, Lost
<1> QED BY <1>1, <1>2, <1>3, NextPlaces, PTL DEF Spec

(* No file outgrows max_size_ but by its only message, however often       *)
(* writing fails, rotate_ throws or the sink is started again.             *)
THEOREM SizeIsLimited == Spec => []SizeLimit
<1>1. Spec => []Inv
  BY InitInv, NextInv, PTL DEF Spec
<1>2. Init => Accounted /\ Sized
  <2> SUFFICES ASSUME Init PROVE Accounted /\ Sized
    OBVIOUS
  <2>1. 0 \in Names
    BY RotatingAssumption
  <2>2. /\ \A n \in Names : files[n].ids = {} /\ files[n].bytes = 0
        /\ buffer.ids = {} /\ buffer.bytes = 0 /\ pc = "none"
    BY DEF Init, FileInit, NoFile, Nothing
  <2>3. LiveIds = {} /\ LiveBytes = 0
    BY <2>1, <2>2 DEF LiveIds, LiveBytes
  <2> QED BY <2>2, <2>3, EmptyFits DEF Accounted, Sized
<1>3. Spec => []Accounted
  BY <1>1, <1>2, NextAccounted, PTL DEF Spec
<1>4. Spec => []Sized
  BY <1>1, <1>2, <1>3, NextSized, PTL DEF Spec
<1>5. Inv /\ Sized => SizeLimit
  <2> SUFFICES ASSUME Inv, Sized PROVE SizeLimit
    OBVIOUS
  <2>1. 0 \in Names /\ files[0].bytes \in Nat
    BY LiveTypes
  <2>2. ~fd_ => LiveIds = files[0].ids /\ LiveBytes = files[0].bytes
    BY <2>1 DEF LiveIds, LiveBytes, Inv, Shape, Nothing
  <2> QED BY <2>2 DEF Sized, SizeLimit, LiveIds, LiveBytes
<1> QED BY <1>1, <1>4, <1>5, PTL

-----------------------------------------------------------------------------
(* Until a write fails, current_size_ is the length of the log, unless the *)
(* constructor has rotated: it leaves the length of the file it moved away, *)
(* and only a sink that was told to rotate at once is left like that.      *)
Rotating == pc \in {"close", "shift", "rename", "recover", "reopen", "abandon"}

Exact ==
    /\ Rotating /\ caller = "constructor" => rotateOnOpen
    /\ "write" \notin failed /\ ~rotateOnOpen =>
          /\ pc = "idle" /\ fd_ => currentSize = LiveBytes
          /\ pc = "write" => currentSize = LiveBytes + formatted

(* Every step keeps current_size_ exact. *)
LEMMA NextExact == Inv /\ Exact /\ [Next]_vars => Exact'
<1> SUFFICES ASSUME Inv, Exact, [Next]_vars PROVE Exact'
  OBVIOUS
<1>1. /\ files[0].bytes \in Nat /\ buffer.bytes \in Nat /\ LiveBytes \in Nat
      /\ currentSize \in Nat /\ formatted \in Nat /\ MaxSize \in Nat /\ 0 \in Names
      /\ filename_ = 0
  BY LiveTypes DEF Inv, Shape
<1>2. Inv'
  BY NextInv
<1>3. CASE Construct
  <2>1. /\ Open(0, FALSE) /\ currentSize' = files'[0].bytes
        /\ pc' = IF rotateOnOpen' /\ currentSize' > 0 THEN "close" ELSE "idle"
    BY <1>3 DEF Construct
  <2>2. buffer' = Nothing /\ files'[0].bytes = files[0].bytes + buffer.bytes
    BY <2>1, AfterOpen
  <2>3. currentSize' = LiveBytes'
    BY <1>1, <2>1, <2>2 DEF LiveBytes, Nothing
  <2> QED BY <2>1, <2>3 DEF Exact, Rotating
<1>4. CASE Recover \/ Reopen
  <2>1. /\ Open(0, TRUE) /\ UNCHANGED <<caller, rotateOnOpen, formatted, failed>>
        /\ Rotating
    BY <1>1, <1>4 DEF Recover, Reopen, callVars, history, Rotating
  <2>2. files'[0] = EmptyFile /\ buffer' = Nothing
    BY <2>1, AfterOpen
  <2>5. LiveBytes' = 0
    BY <2>2 DEF LiveBytes, Nothing, EmptyFile
  <2>3. CASE rotateOnOpen
    BY <2>1, <2>3 DEF Exact
  <2>4. CASE ~rotateOnOpen
    <3>1. caller # "constructor"
      BY <2>1, <2>4 DEF Exact
    <3>2. \/ pc' = "idle" /\ currentSize' = 0
          \/ pc' = "write" /\ currentSize' = formatted
      BY <1>4, <3>1 DEF Recover, Reopen
    <3> QED BY <1>1, <2>1, <2>5, <3>2 DEF Exact, Rotating
  <2> QED BY <2>3, <2>4
<1>5. CASE ConstructThrows \/ ReopenThrows
  <2>1. PICK truncate \in BOOLEAN : OpenThrows(0, truncate)
    BY <1>1, <1>5 DEF ConstructThrows, ReopenThrows
  <2>2. ~fd_'
    BY <2>1, AfterThrow
  <2>3. pc' \in {"none", "idle"}
    BY <1>5 DEF ConstructThrows, ReopenThrows
  <2> QED BY <2>2, <2>3 DEF Exact, Rotating
<1>6. CASE FlushSink
  <2>1. /\ files' = Flushed /\ PassOnBuffer /\ filename_' = filename_ /\ fd_' = fd_
        /\ UNCHANGED <<currentSize, pc, caller, rotateOnOpen, formatted, failed>>
    BY <1>6 DEF FlushSink, Flush, sinkVars, callVars, history
  <2>2. files'[0].bytes = files[0].bytes + buffer.bytes /\ buffer' = Nothing
    BY <2>1, AfterFlush
  <2>3. LiveBytes' = LiveBytes
    BY <1>1, <2>2 DEF LiveBytes, Nothing
  <2> QED BY <2>1, <2>3 DEF Exact, Rotating
<1>7. CASE RotateClose \/ SkipMissing \/ RemoveTarget \/ Rename \/ RenameFails
  <2>1. UNCHANGED <<caller, rotateOnOpen>> /\ Rotating /\ pc' \notin {"idle", "write"}
    BY <1>7 DEF RotateClose, SkipMissing, RemoveTarget, Rename, RenameFails, NextTurn,
                callVars, Rotating
  <2> QED BY <2>1 DEF Exact
<1>8. CASE Abandon \/ Destroy \/ Crash
  BY <1>8 DEF Abandon, Destroy, Crash, Exact, Rotating
<1>9. ASSUME NEW size \in Sizes, SinkIt(size) PROVE Exact'
  <2>1. /\ UNCHANGED <<files, buffer, fd_, rotateOnOpen, failed>> /\ pc = "idle"
        /\ caller' = "sink_it_" /\ formatted' = size /\ currentSize' = currentSize + size
        /\ pc' \in {"close", "write"}
    BY <1>9 DEF SinkIt, fileVars, streamVars, history
  <2>2. LiveBytes' = LiveBytes
    BY <2>1 DEF LiveBytes
  <2>3. pc' = "write" => fd_
    BY <1>2, <2>1 DEF Inv, Shape
  <2> QED BY <2>1, <2>2, <2>3 DEF Exact
<1>10. CASE WriteMessage
  <2>1. /\ UNCHANGED <<files, currentSize, rotateOnOpen, failed>>
        /\ pc = "write" /\ pc' = "idle" /\ buffer'.bytes = buffer.bytes + formatted
    BY <1>10 DEF WriteMessage, Write, callVars, history
  <2>2. LiveBytes' = LiveBytes + formatted
    BY <1>1, <2>1 DEF LiveBytes
  <2> QED BY <2>1, <2>2 DEF Exact, Rotating
<1>11. CASE WriteThrows
  BY <1>11 DEF WriteThrows, Fails, Exact, Rotating
<1>12. CASE UNCHANGED vars
  BY <1>12 DEF vars, fileVars, streamVars, sinkVars, callVars, history, Exact, Rotating,
               LiveBytes
<1> QED
  BY <1>3, <1>4, <1>5, <1>6, <1>7, <1>8, <1>9, <1>10, <1>11, <1>12 DEF Next

(* A message makes the sink rotate only if the log would outgrow max_size_ *)
(* with it, after any rotations that failed and any restarts, as long as   *)
(* writing works and the sink was not told to rotate when it opened.       *)
THEOREM SizeAloneRotates == Spec => RotatesBySizeAlone
<1> DEFINE Due ==
      /\ pc = "idle" /\ pc' = "close" /\ fd_ /\ "write" \notin failed
      /\ ~rotateOnOpen
      => files[0].bytes + buffer.bytes + formatted' > MaxSize
<1>1. Init => Exact
  BY DEF Init, Exact, Rotating
<1>2. Inv /\ Exact /\ [Next]_vars => [Due]_vars
  <2> SUFFICES ASSUME Inv, Exact, [Next]_vars, pc = "idle", pc' = "close", fd_,
                      "write" \notin failed, ~rotateOnOpen
               PROVE  files[0].bytes + buffer.bytes + formatted' > MaxSize
    OBVIOUS
  <2>1. PICK size \in Sizes : SinkIt(size)
    BY DEF Next, Construct, ConstructThrows, RotateClose, SkipMissing, RemoveTarget, Rename,
           RenameFails, Recover, Reopen, ReopenThrows, Abandon, WriteMessage, WriteThrows,
           FlushSink, Destroy, Crash, vars, sinkVars
  <2>2. currentSize' = currentSize + size /\ formatted' = size /\ currentSize' > MaxSize
    BY <2>1 DEF SinkIt
  <2>3. currentSize = files[0].bytes + buffer.bytes
    BY DEF Exact, LiveBytes
  <2> QED BY <2>2, <2>3
<1>3. Spec => []Inv
  BY InitInv, NextInv, PTL DEF Spec
<1>4. Spec => []Exact
  BY <1>1, <1>3, NextExact, PTL DEF Spec
<1>5. RotatesBySizeAlone <=> [][Due]_vars
  BY DEF RotatesBySizeAlone
<1> HIDE DEF Due
<1> QED BY <1>2, <1>3, <1>4, <1>5, PTL DEF Spec
=============================================================================
