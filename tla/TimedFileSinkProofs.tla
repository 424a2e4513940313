------------------------ MODULE TimedFileSinkProofs -------------------------
(***************************************************************************)
(* Theorems about the daily and hourly file sinks, for any period, any     *)
(* instant of rotation in it, any number of files and messages, however    *)
(* late messages come and whatever fails or is interrupted.                *)
(***************************************************************************)
EXTENDS TimedFileSink, SequenceTheorems, FiniteSetTheorems, WellFoundedInduction, TLAPS

(* Division rounds down, and keeps the order.                              *)
LEMMA DivisionFacts ==
    ASSUME NEW p \in Nat \ {0}, NEW a \in Nat
    PROVE  a \div p \in Nat /\ (a \div p) * p <= a /\ a < (a \div p) * p + p
  BY SMTT(20)

(* A greater number has no smaller quotient.                               *)
LEMMA DivisionMonotone ==
    ASSUME NEW p \in Nat \ {0}, NEW a \in Nat, NEW b \in Nat, a <= b
    PROVE  a \div p <= b \div p
  BY SMTT(20)

(* A name is a number, and stands for an interval of times.                *)
LEMMA NameFacts ==
    ASSUME NEW time \in Nat
    PROVE  /\ NameAt(time) \in Nat
           /\ NameAt(time) * Period <= time
           /\ time < NameAt(time) * Period + Period
  BY TimedAssumption, DivisionFacts DEF NameAt

(* A later time has no earlier name.                                       *)
LEMMA NameMonotone ==
    ASSUME NEW s \in Nat, NEW time \in Nat, s <= time
    PROVE  NameAt(s) <= NameAt(time)
  BY TimedAssumption, DivisionMonotone DEF NameAt

(* The times of the bounded model have the names of its files.             *)
LEMMA TimeFacts ==
    ASSUME NEW time \in Times
    PROVE  time \in Nat /\ time <= Horizon /\ NameAt(time) \in Names
<1>1. time \in Nat /\ time <= Horizon /\ Horizon \in Nat /\ Names = 0 .. NameAt(Horizon)
  BY TimedAssumption DEF Times
<1>2. NameAt(time) \in Nat /\ NameAt(Horizon) \in Nat
  BY <1>1, NameFacts
<1>3. NameAt(time) <= NameAt(Horizon)
  BY <1>1, NameMonotone
<1> QED BY <1>1, <1>2, <1>3

(* The next rotation is in the future, and within a period.                *)
LEMMA NextRotationFacts ==
    ASSUME NEW time \in Times
    PROVE  /\ NextRotation(time) \in 0 .. (Horizon + Period)
           /\ time < NextRotation(time)
           /\ NameAt(time) <= NameAt(NextRotation(time))
<1> DEFINE start == NameAt(time) * Period
<1>1. /\ time \in Nat /\ time <= Horizon /\ Horizon \in Nat
      /\ Period \in Nat \ {0} /\ RotateAt \in 0 .. (Period - 1)
  BY TimedAssumption DEF Times
<1>2. /\ start \in Nat /\ start <= time /\ time < start + Period
  BY <1>1, NameFacts
<1>3. NextRotation(time) = IF start + RotateAt > time THEN start + RotateAt
                           ELSE start + RotateAt + Period
  BY DEF NextRotation
<1> HIDE DEF start
<1>4. /\ NextRotation(time) \in 0 .. (Horizon + Period)
      /\ time < NextRotation(time)
  BY <1>1, <1>2, <1>3
<1>5. NextRotation(time) \in Nat
  BY <1>1, <1>4
<1> QED BY <1>1, <1>4, <1>5, NameMonotone

-----------------------------------------------------------------------------
(* What is passed on goes to the file that was opened last, if it is still  *)
(* there.                                                                  *)
LEMMA FlushedFacts ==
    ASSUME FileTypeOK, ~ fd_ => buffer = Nothing
    PROVE  /\ Flushed \in [Names -> File]
           /\ \A n \in Names :
                 /\ n # filename_ => Flushed[n].ids = files[n].ids
                 /\ files[n].ids \subseteq Flushed[n].ids
                 /\ Flushed[n].ids \subseteq files[n].ids \cup buffer.ids
           /\ ~ fd_ => Flushed = files
<1>1. files \in [Names -> File] /\ buffer \in Chunk /\ filename_ \in Names
  BY DEF FileTypeOK
<1>2. CASE ~ fd_
  BY <1>1, <1>2 DEF Flushed
<1>3. CASE fd_
  <2> DEFINE new == Appended(files[filename_], buffer)
  <2>1. new \in File /\ files[filename_].ids \subseteq new.ids
        /\ new.ids \subseteq files[filename_].ids \cup buffer.ids
    <3>1. files[filename_] \in File
      BY <1>1
    <3>2. /\ files[filename_].ids \cup buffer.ids \in SUBSET Nat
          /\ files[filename_].bytes + buffer.bytes \in Nat
      BY <1>1, <3>1 DEF File, Chunk
    <3> QED BY <3>1, <3>2 DEF Appended, File
  <2>2. Flushed = [files EXCEPT ![filename_] = new]
    BY <1>3 DEF Flushed
  <2> HIDE DEF new
  <2> QED BY <1>1, <1>3, <2>1, <2>2
<1> QED BY <1>2, <1>3

(* The invariant of the order.  The files with contents are no later than  *)
(* the one that is open, and the next rotation is not before the period of *)
(* any of them: therefore a message that makes the sink rotate belongs to  *)
(* no earlier period, even if it comes late.                               *)
HasContents(n) == files[n].ids # {}
InHand == pc \in {"open", "rotation_tp", "write"}

Order ==
    /\ ~ fd_ => buffer = Nothing
    /\ \A n \in Names : \A x \in files[n].ids : x < nextId /\ (InHand => x < nextId - 1)
    /\ \A x \in buffer.ids : x < nextId /\ (InHand => x < nextId - 1)
    /\ filename_ <= NameAt(now)
    /\ \A n \in Names : HasContents(n) => n <= NameAt(now)
    /\ fd_ => \A n \in Names : HasContents(n) => n <= filename_
    /\ pc \in {"construct_q", "idle", "open", "write", "delete_old"} =>
          /\ \A n \in Names : HasContents(n) => n <= NameAt(rotation_tp_)
          /\ fd_ => filename_ <= NameAt(rotation_tp_)
    /\ pc = "open" => rotation_tp_ <= msgTime /\ msgTime <= latest
    /\ InHand => msgTime <= now
    /\ pc \in {"construct_tp", "construct_q", "rotation_tp", "delete_old"} => fd_
    /\ pc = "idle" /\ ~ fd_ => rotation_tp_ <= latest
    /\ pc = "delete_old" => MaxFiles > 0
    /\ OnlyLateFindNoStream

IInv == TypeOK /\ Order /\ FilesInOrder

-----------------------------------------------------------------------------
(* A non-empty set of numbers up to a bound has a greatest.                *)
LEMMA GreatestExists ==
    ASSUME NEW bound \in Nat, NEW S \in SUBSET (0 .. bound), S # {}
    PROVE  \E k \in S : \A j \in S : j <= k
<1> DEFINE T == {bound - k : k \in S}
<1>1. T \subseteq Nat /\ T # {}
  <2>1. PICK k \in S : TRUE
    OBVIOUS
  <2>2. bound - k \in T
    BY <2>1
  <2>3. T \subseteq Nat
    OBVIOUS
  <2> QED BY <2>2, <2>3
<1>2. \E x \in T : \A y \in T : ~ (<<y, x>> \in OpToRel(<, Nat))
  <2> HIDE DEF T
  <2> QED BY <1>1, NatLessThanWellFounded, WFMin
<1>3. PICK x \in T : \A y \in T : ~ (<<y, x>> \in OpToRel(<, Nat))
  BY <1>2
<1>4. \A y \in T : ~ (y < x)
  BY <1>1, <1>3 DEF OpToRel
<1>5. PICK k \in S : x = bound - k
  OBVIOUS
<1>6. ASSUME NEW j \in S
      PROVE  j <= k
  <2>1. bound - j \in T
    OBVIOUS
  <2>2. ~ (bound - j < bound - k)
    BY <1>4, <1>5, <2>1
  <2> QED BY <2>2
<1> QED BY <1>6

(* The queue that the constructor fills has names of files, and no more    *)
(* than there is room for (daily_file_sink.h:129-151).                     *)
LEMMA KeptFacts ==
    ASSUME now \in Times
    PROVE  KeptFiles \in Seq(Names) /\ Len(KeptFiles) <= MaxFiles
<1> DEFINE kept == {k \in 0 .. MaxFiles :
                       \A j \in 0 .. (k - 1) :
                           NameAt(now) - j \in Names /\ files[NameAt(now) - j].there}
           n == CHOOSE k \in kept : \A j \in kept : j <= k
<1>1. MaxFiles \in Nat /\ kept \in SUBSET (0 .. MaxFiles)
  BY TimedAssumption
<1>2. 0 \in kept
  BY <1>1
<1>3. n \in kept
  BY <1>1, <1>2, GreatestExists
<1>4. n \in 0 .. MaxFiles /\ \A j \in 0 .. (n - 1) : NameAt(now) - j \in Names
  BY <1>3
<1>5. NameAt(now) \in Nat
  BY TimeFacts, NameFacts
<1>6. KeptFiles = [j \in 1 .. n |-> NameAt(now) - n + j]
  BY DEF KeptFiles
<1> HIDE DEF n, kept
<1>7. \A j \in 1 .. n : NameAt(now) - n + j \in Names
  <2> SUFFICES ASSUME NEW j \in 1 .. n
               PROVE  NameAt(now) - n + j \in Names
    OBVIOUS
  <2>1. n - j \in 0 .. (n - 1) /\ NameAt(now) - (n - j) = NameAt(now) - n + j
    BY <1>1, <1>4, <1>5
  <2> QED BY <1>4, <2>1
<1>8. n \in Nat /\ n <= MaxFiles
  BY <1>1, <1>4
<1> QED BY <1>6, <1>7, <1>8

-----------------------------------------------------------------------------
(* What every step that passes the buffer on, and truncates or creates at  *)
(* most the file that it opens, does to the order.                         *)
PassedOn ==
    /\ files' \in [Names -> File]
    /\ \A n \in Names : files'[n].ids \subseteq files[n].ids \cup buffer.ids
    /\ \A n \in Names : n # filename_ \/ ~ fd_ => files'[n].ids \subseteq files[n].ids
    /\ buffer' = Nothing /\ stored' \in SUBSET Nat

(* The order of the files survives it, and no other file gets contents.    *)
LEMMA OrderAfterPassOn ==
    ASSUME FileTypeOK, Order, FilesInOrder, PassedOn
    PROVE  /\ FilesInOrder'
           /\ \A n \in Names : HasContents(n)' => HasContents(n) \/ (fd_ /\ n = filename_)
           /\ \A n \in Names : \A x \in files'[n].ids : x < nextId /\ (InHand => x < nextId - 1)
<1>1. /\ Names = 0 .. NameAt(Horizon)
      /\ files \in [Names -> File] /\ buffer \in Chunk
      /\ filename_ \in Names
      /\ buffer'.ids = {}
  BY TimedAssumption DEF FileTypeOK, PassedOn, Nothing
<1>2. \A n \in Names : HasContents(n)' => HasContents(n) \/ (fd_ /\ n = filename_)
  <2> SUFFICES ASSUME NEW n \in Names, files'[n].ids # {}, files[n].ids = {}
               PROVE  fd_ /\ n = filename_
    BY DEF HasContents
  <2> QED BY DEF PassedOn
<1>3. \A n \in Names : \A x \in files'[n].ids : x < nextId /\ (InHand => x < nextId - 1)
  BY DEF PassedOn, Order
<1>4. ASSUME NEW m \in Names, NEW n \in Names, m < n,
             NEW x \in files'[m].ids, NEW y \in files'[n].ids
      PROVE  x < y
  <2>1. CASE x \in files[m].ids /\ y \in files[n].ids
    BY <1>4, <2>1 DEF FilesInOrder
  <2>2. CASE x \in files[m].ids /\ y \in buffer.ids
    BY <2>2 DEF FilesInOrder
  <2>3. CASE x \notin files[m].ids
    <3>1. fd_ /\ m = filename_
      BY <2>3 DEF PassedOn
    <3>2. n # filename_
      BY <1>1, <1>4, <3>1
    <3>3. HasContents(n)
      BY <3>2 DEF PassedOn, HasContents
    <3>4. n <= filename_
      BY <3>1, <3>3 DEF Order
    <3> QED BY <1>1, <1>4, <3>1, <3>4
  <2> QED BY <2>1, <2>2, <2>3 DEF PassedOn
<1> QED BY <1>1, <1>2, <1>3, <1>4 DEF FilesInOrder

(* The calls of file_helper pass the buffer on.                            *)
LEMMA OpenFacts ==
    ASSUME FileTypeOK, Order, NEW name \in Names,
           Open(name, Truncate) \/ OpenThrows(name, Truncate)
    PROVE  PassedOn /\ FileTypeOK' /\ filename_' = name
<1>1. /\ files \in [Names -> File] /\ buffer \in Chunk /\ filename_ \in Names
      /\ stored \in SUBSET Nat
  BY DEF FileTypeOK
<1>2. /\ Flushed \in [Names -> File]
      /\ \A n \in Names : n # filename_ => Flushed[n].ids = files[n].ids
      /\ \A n \in Names : Flushed[n].ids \subseteq files[n].ids \cup buffer.ids
      /\ ~ fd_ => Flushed = files
  BY FlushedFacts DEF Order
<1>3. EmptyFile \in File /\ EmptyFile.ids = {} /\ Nothing \in Chunk
  BY DEF EmptyFile, File, Nothing, Chunk
<1>4. [Flushed[name] EXCEPT !.there = TRUE] \in File
      /\ [Flushed[name] EXCEPT !.there = TRUE].ids = Flushed[name].ids
  <2>1. Flushed[name] \in File
    BY <1>2
  <2> QED BY <2>1 DEF File
<1>5. /\ files' \in [Names -> File]
      /\ \A n \in Names : files'[n].ids \subseteq Flushed[n].ids
  <2>1. files' = Flushed \/ \E f \in {EmptyFile, [Flushed[name] EXCEPT !.there = TRUE]} :
                                files' = [Flushed EXCEPT ![name] = f]
    BY <1>2 DEF Open, OpenThrows
  <2>2. ASSUME NEW f \in File, f.ids \subseteq Flushed[name].ids,
               files' = [Flushed EXCEPT ![name] = f]
        PROVE  /\ files' \in [Names -> File]
               /\ \A n \in Names : files'[n].ids \subseteq Flushed[n].ids
    BY <1>2, <2>2
  <2>3. CASE files' = Flushed
    BY <1>2, <2>3
  <2>4. CASE files' = [Flushed EXCEPT ![name] = EmptyFile]
    BY <1>3, <2>2, <2>4
  <2>5. CASE files' = [Flushed EXCEPT ![name] = [Flushed[name] EXCEPT !.there = TRUE]]
    BY <1>4, <2>2, <2>5
  <2> QED BY <2>1, <2>3, <2>4, <2>5
<1>6. buffer' = Nothing /\ stored' = stored \cup buffer.ids
  BY DEF Open, OpenThrows, PassOnBuffer
<1>7. buffer.ids \in SUBSET Nat
  BY <1>1 DEF Chunk
<1>8. PassedOn
  BY <1>1, <1>2, <1>5, <1>6, <1>7 DEF PassedOn
<1> QED BY <1>1, <1>3, <1>5, <1>6, <1>7, <1>8 DEF Open, OpenThrows, FileTypeOK

(* Closing and flushing pass it on to the file that is open.               *)
LEMMA CloseFacts ==
    ASSUME FileTypeOK, Order, Close \/ Flush
    PROVE  PassedOn /\ FileTypeOK' /\ UNCHANGED filename_
<1>1. /\ files \in [Names -> File] /\ buffer \in Chunk /\ filename_ \in Names
      /\ stored \in SUBSET Nat /\ buffer.ids \in SUBSET Nat
  BY DEF FileTypeOK, Chunk
<1>2. /\ Flushed \in [Names -> File]
      /\ \A n \in Names : n # filename_ => Flushed[n].ids = files[n].ids
      /\ \A n \in Names : Flushed[n].ids \subseteq files[n].ids \cup buffer.ids
      /\ ~ fd_ => Flushed = files
  BY FlushedFacts DEF Order
<1>3. Nothing \in Chunk
  BY DEF Nothing, Chunk
<1>4. /\ files' = Flushed /\ buffer' = Nothing /\ stored' = stored \cup buffer.ids
      /\ UNCHANGED filename_ /\ fd_' \in BOOLEAN
  BY DEF Close, Flush, PassOnBuffer, FileTypeOK
<1> QED BY <1>1, <1>2, <1>3, <1>4 DEF PassedOn, FileTypeOK

-----------------------------------------------------------------------------
(* The types of the sink's own variables.                                  *)
SinkTypeOK ==
    /\ now \in Times /\ msgTime \in Times /\ latest \in Times
    /\ rotation_tp_ \in 0 .. (Horizon + Period)
    /\ filenames_q_ \in Seq(Names) /\ Len(filenames_q_) <= MaxFiles
    /\ pc \in {"none", "construct_tp", "construct_q", "idle", "open",
               "rotation_tp", "write", "delete_old"}
    /\ shouldRotate \in BOOLEAN
    /\ nextId \in Nat \ {0}
    /\ known \subseteq Names
    /\ failed \subseteq MayFail

(* The type invariant is that of the file helper and that of the sink.     *)
LEMMA TypeSplit == TypeOK <=> FileTypeOK /\ SinkTypeOK
  BY DEF TypeOK, SinkTypeOK

(* Times and names are numbers.                                            *)
LEMMA NumberFacts ==
    ASSUME SinkTypeOK
    PROVE  /\ now \in Nat /\ msgTime \in Nat /\ latest \in Nat /\ rotation_tp_ \in Nat
           /\ NameAt(now) \in Nat /\ NameAt(now) \in Names
           /\ NameAt(msgTime) \in Nat /\ NameAt(msgTime) \in Names
           /\ NameAt(rotation_tp_) \in Nat
           /\ \A n \in Names : n \in Nat
           /\ nextId \in Nat
<1>1. now \in Nat /\ msgTime \in Nat /\ latest \in Nat /\ rotation_tp_ \in Nat /\ nextId \in Nat
  BY TimedAssumption DEF SinkTypeOK, Times
<1>2. NameAt(now) \in Names /\ NameAt(msgTime) \in Names
  BY TimeFacts DEF SinkTypeOK
<1>3. NameAt(now) \in Nat /\ NameAt(msgTime) \in Nat /\ NameAt(rotation_tp_) \in Nat
  BY <1>1, NameFacts
<1>4. NameAt(Horizon) \in Nat /\ Names = 0 .. NameAt(Horizon)
  BY NameFacts, TimedAssumption
<1> QED BY <1>1, <1>2, <1>3, <1>4

(* There is no sink and no file at the start.                              *)
LEMMA InitIInv == Init => IInv
<1> SUFFICES ASSUME Init
             PROVE  IInv
  OBVIOUS
<1>1. /\ files = [n \in Names |-> NoFile] /\ fd_ = FALSE /\ buffer = Nothing /\ stored = {}
      /\ filename_ = 0 /\ now \in Times /\ rotation_tp_ = 0 /\ filenames_q_ = <<>> /\ pc = "none"
      /\ msgTime = 0 /\ shouldRotate = FALSE /\ nextId = 1 /\ latest = 0 /\ known = {}
      /\ failed = {}
  BY DEF Init, FileInit
<1>2. NoFile \in File /\ NoFile.ids = {} /\ Nothing \in Chunk /\ Nothing.ids = {}
  BY DEF NoFile, File, Nothing, Chunk
<1>3. 0 \in Times /\ 0 \in 0 .. (Horizon + Period) /\ MaxFiles \in Nat
  BY TimedAssumption DEF Times
<1>4. 0 \in Names /\ NameAt(now) \in Nat
  BY <1>1, <1>3, TimedAssumption, TimeFacts, NameFacts
<1>5. FileTypeOK
  BY <1>1, <1>2, <1>4 DEF FileTypeOK
<1>6. SinkTypeOK
  <2>1. filenames_q_ \in Seq(Names) /\ Len(filenames_q_) <= MaxFiles
    BY <1>1, <1>3
  <2>2. shouldRotate \in BOOLEAN
    BY <1>1
  <2> QED BY <1>1, <1>3, <2>1, <2>2 DEF SinkTypeOK
<1>7. Order /\ FilesInOrder
  BY <1>1, <1>2, <1>4 DEF Order, FilesInOrder, HasContents, InHand, OnlyLateFindNoStream
<1> QED BY <1>5, <1>6, <1>7, TypeSplit DEF IInv

(* The clock goes on. *)
LEMMA TickStep == ASSUME IInv, Tick PROVE IInv'
<1>1. now' \in Times /\ now' = now + 1 /\ now \in Times /\ now \in Nat
  BY TypeSplit, NumberFacts, TimedAssumption DEF Tick, IInv, SinkTypeOK, Times
<1>2. NameAt(now) <= NameAt(now') /\ NameAt(now) \in Nat /\ NameAt(now') \in Nat
  BY <1>1, NameFacts, NameMonotone
<1>3. /\ UNCHANGED <<files, filename_, fd_, buffer, stored, rotation_tp_, filenames_q_, pc,
                     msgTime, shouldRotate, nextId, latest, known, failed>>
  BY DEF Tick, fileVars, streamVars, callVars
<1>4. filename_ \in Nat /\ (\A n \in Names : n \in Nat) /\ msgTime \in Nat
  BY TypeSplit, NumberFacts DEF IInv, FileTypeOK
<1>5. FileTypeOK' /\ SinkTypeOK'
  BY <1>1, <1>3, TypeSplit DEF IInv, FileTypeOK, SinkTypeOK
<1>6. TypeOK'
  BY <1>5 DEF TypeOK, FileTypeOK, SinkTypeOK
<1>7. Order' /\ FilesInOrder'
  BY <1>1, <1>2, <1>3, <1>4 DEF IInv, Order, FilesInOrder, HasContents, InHand,
                               OnlyLateFindNoStream
<1> QED BY <1>6, <1>7 DEF IInv

(* The constructor: the file of the current period is not before any that  *)
(* has contents, and the next rotation is in the future.                   *)
LEMMA ConstructStep ==
    ASSUME IInv, Construct \/ ConstructThrows \/ ConstructRotation \/ ConstructQueue
    PROVE  IInv'
<1>1. FileTypeOK /\ SinkTypeOK /\ Order /\ FilesInOrder /\ now \in Times
  BY TypeSplit DEF IInv, SinkTypeOK
<1>2. /\ NameAt(now) \in Names /\ NameAt(now) \in Nat /\ \A n \in Names : n \in Nat
      /\ filename_ \in Nat /\ rotation_tp_ \in Nat /\ latest \in Nat
      /\ NameAt(rotation_tp_) \in Nat
  BY <1>1, NumberFacts DEF FileTypeOK
<1>3. CASE Construct \/ ConstructThrows
  <2>1. PassedOn /\ FileTypeOK' /\ filename_' = NameAt(now)
    BY <1>1, <1>2, <1>3, OpenFacts DEF Construct, ConstructThrows
  <2>2. /\ FilesInOrder'
        /\ \A n \in Names : HasContents(n)' => HasContents(n) \/ (fd_ /\ n = filename_)
        /\ \A n \in Names : \A x \in files'[n].ids : x < nextId
    BY <1>1, <2>1, OrderAfterPassOn
  <2>3. /\ UNCHANGED <<now, rotation_tp_, filenames_q_, msgTime, shouldRotate, nextId>>
        /\ pc = "none" /\ pc' \in {"none", "construct_tp"} /\ (pc' = "construct_tp" => fd_')
        /\ latest' \in {0, latest} /\ known' \subseteq Names /\ failed' \subseteq MayFail
        /\ fd_' \in BOOLEAN
    BY <1>1, <1>2, <1>3 DEF Construct, ConstructThrows, Open, OpenThrows, Fails, callVars, SinkTypeOK
  <2>4. SinkTypeOK'
    BY <1>1, <2>3, TimedAssumption DEF SinkTypeOK, Times
  <2>5. Order'
    BY <1>1, <1>2, <2>1, <2>2, <2>3
    DEF Order, PassedOn, Nothing, HasContents, InHand, OnlyLateFindNoStream
  <2> QED BY <2>1, <2>2, <2>4, <2>5 DEF IInv, TypeOK, SinkTypeOK
<1>4. CASE ConstructRotation
  <2>1. /\ UNCHANGED <<files, filename_, fd_, buffer, stored, now, filenames_q_, msgTime,
                       shouldRotate, nextId, latest, known, failed>>
        /\ pc = "construct_tp" /\ pc' = "construct_q" /\ rotation_tp_' = NextRotation(now)
    BY <1>4 DEF ConstructRotation, fileVars, streamVars, callVars
  <2>2. /\ NextRotation(now) \in 0 .. (Horizon + Period)
        /\ NameAt(now) <= NameAt(NextRotation(now)) /\ NameAt(NextRotation(now)) \in Nat
    BY <1>1, NextRotationFacts, NameFacts
  <2>3. FileTypeOK' /\ SinkTypeOK'
    BY <1>1, <2>1, <2>2 DEF FileTypeOK, SinkTypeOK
  <2>4. Order' /\ FilesInOrder'
    BY <1>1, <1>2, <2>1, <2>2
    DEF Order, FilesInOrder, HasContents, InHand, OnlyLateFindNoStream
  <2> QED BY <2>3, <2>4 DEF IInv, TypeOK, FileTypeOK, SinkTypeOK
<1>5. CASE ConstructQueue
  <2>1. /\ UNCHANGED <<files, filename_, fd_, buffer, stored, now, rotation_tp_, msgTime,
                       shouldRotate, nextId, latest, failed>>
        /\ pc = "construct_q" /\ pc' = "idle"
    BY <1>5 DEF ConstructQueue, fileVars, streamVars, callVars
  <2>2. filenames_q_' \in Seq(Names) /\ Len(filenames_q_') <= MaxFiles
    <3>1. CASE MaxFiles > 0
      <4>1. filenames_q_' = KeptFiles
        BY <1>5, <3>1 DEF ConstructQueue
      <4> QED BY <1>1, <4>1, KeptFacts
    <3>2. CASE ~ (MaxFiles > 0)
      <4>1. filenames_q_' = <<>>
        BY <1>5, <3>2 DEF ConstructQueue
      <4> QED BY <4>1, TimedAssumption
    <3> QED BY <3>1, <3>2
  <2>3. known' \subseteq Names
    <3>1. known' = {filenames_q_'[x] : x \in DOMAIN filenames_q_'}
      BY <1>5 DEF ConstructQueue, Range
    <3>2. \A x \in DOMAIN filenames_q_' : filenames_q_'[x] \in Names
      BY <2>2
    <3> QED BY <3>1, <3>2
  <2>4. FileTypeOK' /\ SinkTypeOK'
    BY <1>1, <2>1, <2>2, <2>3 DEF FileTypeOK, SinkTypeOK
  <2>5. Order' /\ FilesInOrder'
    BY <1>1, <1>2, <2>1 DEF Order, FilesInOrder, HasContents, InHand, OnlyLateFindNoStream
  <2> QED BY <2>4, <2>5 DEF IInv, TypeOK, FileTypeOK, SinkTypeOK
<1> QED BY <1>3, <1>4, <1>5

(* A message comes, late or not; if it makes the sink rotate, it is of no   *)
(* earlier period than what has been written.                              *)
LEMMA SinkItStep ==
    ASSUME IInv, NEW time \in Times, time <= now, SinkIt(time)
    PROVE  IInv'
<1>1. FileTypeOK /\ SinkTypeOK /\ Order /\ FilesInOrder
  BY TypeSplit DEF IInv
<1>2. /\ \A n \in Names : n \in Nat
      /\ rotation_tp_ \in Nat /\ latest \in Nat /\ time \in Nat /\ nextId \in Nat \ {0}
  BY <1>1, NumberFacts, TimedAssumption DEF SinkTypeOK, Times
<1>3. /\ UNCHANGED <<files, filename_, fd_, buffer, stored, now, rotation_tp_, filenames_q_,
                     known, failed>>
      /\ pc = "idle" /\ msgTime' = time /\ shouldRotate' = (time >= rotation_tp_)
      /\ pc' = IF time >= rotation_tp_ THEN "open" ELSE "write"
      /\ nextId' = nextId + 1 /\ latest' = IF time > latest THEN time ELSE latest
  BY DEF SinkIt, fileVars, streamVars
<1>4. FileTypeOK' /\ SinkTypeOK'
  <2>1. shouldRotate' \in BOOLEAN
    BY <1>3
  <2> QED BY <1>1, <1>2, <1>3, <2>1 DEF FileTypeOK, SinkTypeOK
<1>5. files \in [Names -> File] /\ buffer \in Chunk
  BY <1>1 DEF FileTypeOK
<1>6. /\ \A n \in Names : \A x \in files[n].ids : x \in Nat /\ x < nextId
      /\ \A x \in buffer.ids : x \in Nat /\ x < nextId
  BY <1>1, <1>5 DEF Order, File, Chunk
<1>7. Order' /\ FilesInOrder'
  BY <1>1, <1>2, <1>3, <1>6 DEF Order, FilesInOrder, HasContents, InHand, OnlyLateFindNoStream
<1> QED BY <1>4, <1>7 DEF IInv, TypeOK, FileTypeOK, SinkTypeOK

(* The sink rotates. *)
LEMMA OpenNextStep ==
    ASSUME IInv, OpenNext \/ OpenNextThrows
    PROVE  IInv'
<1>1. FileTypeOK /\ SinkTypeOK /\ Order /\ FilesInOrder /\ pc = "open"
  BY TypeSplit DEF IInv, OpenNext, OpenNextThrows
<1>2. /\ NameAt(now) \in Nat /\ NameAt(msgTime) \in Names /\ NameAt(msgTime) \in Nat
      /\ NameAt(rotation_tp_) \in Nat /\ \A n \in Names : n \in Nat
      /\ rotation_tp_ \in Nat /\ latest \in Nat /\ msgTime \in Nat /\ now \in Nat
      /\ filename_ \in Nat /\ nextId \in Nat
  BY <1>1, NumberFacts DEF FileTypeOK
<1>3. rotation_tp_ <= msgTime /\ msgTime <= latest /\ msgTime <= now
  BY <1>1 DEF Order, InHand
<1>4. NameAt(rotation_tp_) <= NameAt(msgTime) /\ NameAt(msgTime) <= NameAt(now)
  BY <1>2, <1>3, NameMonotone
<1>5. PassedOn /\ FileTypeOK' /\ filename_' = NameAt(msgTime)
  BY <1>1, <1>2, OpenFacts DEF OpenNext, OpenNextThrows
<1>6. /\ FilesInOrder'
      /\ \A n \in Names : HasContents(n)' => HasContents(n) \/ (fd_ /\ n = filename_)
      /\ \A n \in Names : \A x \in files'[n].ids : x < nextId /\ x < nextId - 1
  BY <1>1, <1>5, OrderAfterPassOn DEF InHand
<1>7. /\ UNCHANGED <<now, rotation_tp_, filenames_q_, msgTime, shouldRotate, nextId, latest>>
      /\ \/ pc' = "rotation_tp" /\ fd_'
         \/ pc' = "idle" /\ ~ fd_'
      /\ known' \subseteq Names /\ failed' \subseteq MayFail
  BY <1>1, <1>2 DEF OpenNext, OpenNextThrows, Open, OpenThrows, Fails, callVars, SinkTypeOK
<1>8. SinkTypeOK'
  BY <1>1, <1>7 DEF SinkTypeOK
<1>9. \A n \in Names : HasContents(n)' => n <= NameAt(rotation_tp_)
  BY <1>1, <1>6 DEF Order
<1>10. Order'
  BY <1>1, <1>2, <1>3, <1>4, <1>5, <1>6, <1>7, <1>9
  DEF Order, PassedOn, Nothing, HasContents, InHand, OnlyLateFindNoStream
<1> QED BY <1>5, <1>6, <1>8, <1>10 DEF IInv, TypeOK, SinkTypeOK

(* Now the next rotation is in the future again. *)
LEMMA SetRotationStep ==
    ASSUME IInv, SetRotation
    PROVE  IInv'
<1>1. FileTypeOK /\ SinkTypeOK /\ Order /\ FilesInOrder /\ now \in Times
  BY TypeSplit DEF IInv, SinkTypeOK
<1>2. /\ NameAt(now) \in Nat /\ \A n \in Names : n \in Nat
      /\ filename_ \in Nat
  BY <1>1, NumberFacts DEF FileTypeOK
<1>3. /\ UNCHANGED <<files, filename_, fd_, buffer, stored, now, filenames_q_, msgTime,
                     shouldRotate, nextId, latest, known, failed>>
      /\ pc = "rotation_tp" /\ pc' = "write" /\ rotation_tp_' = NextRotation(now)
  BY DEF SetRotation, fileVars, streamVars, callVars
<1>4. /\ NextRotation(now) \in 0 .. (Horizon + Period)
      /\ NameAt(now) <= NameAt(NextRotation(now)) /\ NameAt(NextRotation(now)) \in Nat
  BY <1>1, NextRotationFacts, NameFacts
<1>5. FileTypeOK' /\ SinkTypeOK'
  BY <1>1, <1>3, <1>4 DEF FileTypeOK, SinkTypeOK
<1>6. Order' /\ FilesInOrder'
  BY <1>1, <1>2, <1>3, <1>4 DEF Order, FilesInOrder, HasContents, InHand, OnlyLateFindNoStream
<1> QED BY <1>5, <1>6 DEF IInv, TypeOK, FileTypeOK, SinkTypeOK

(* The message goes to the stream, after all that was written before.      *)
LEMMA WriteStep ==
    ASSUME IInv, WriteMessage \/ WriteThrows
    PROVE  IInv'
<1>1. FileTypeOK /\ SinkTypeOK /\ Order /\ FilesInOrder /\ pc = "write" /\ fd_
  BY TypeSplit DEF IInv, WriteMessage, WriteThrows
<1>2. /\ UNCHANGED <<files, filename_, fd_, stored, now, rotation_tp_, filenames_q_, msgTime,
                     shouldRotate, nextId, latest, known>>
      /\ pc' \in {"delete_old", "idle"} /\ (pc' = "delete_old" => MaxFiles > 0)
      /\ failed' \subseteq MayFail
      /\ buffer' \in {buffer, [ids |-> buffer.ids \cup {nextId - 1}, bytes |-> buffer.bytes + 1]}
  BY <1>1 DEF WriteMessage, WriteThrows, Write, Fails, fileVars, streamVars, callVars, SinkTypeOK
<1>3. files \in [Names -> File] /\ buffer \in Chunk /\ nextId \in Nat \ {0}
  BY <1>1 DEF FileTypeOK, SinkTypeOK
<1>4. /\ buffer' \in Chunk
      /\ \A x \in buffer'.ids : x \in buffer.ids \/ x = nextId - 1
  BY <1>2, <1>3 DEF Chunk
<1>5. FileTypeOK' /\ SinkTypeOK'
  BY <1>1, <1>2, <1>4 DEF FileTypeOK, SinkTypeOK
<1>6. /\ \A n \in Names : \A x \in files[n].ids : x < nextId - 1
      /\ \A x \in buffer.ids : x < nextId - 1
  BY <1>1 DEF Order, InHand
<1>7. FilesInOrder'
  BY <1>1, <1>2, <1>4, <1>6 DEF FilesInOrder
<1>8. /\ \A n \in Names : \A x \in files'[n].ids : x < nextId'
      /\ \A x \in buffer'.ids : x < nextId'
  BY <1>1, <1>2, <1>3, <1>4, <1>6 DEF Order
<1>9. Order'
  BY <1>1, <1>2, <1>8 DEF Order, HasContents, InHand, OnlyLateFindNoStream
<1> QED BY <1>5, <1>7, <1>9 DEF IInv, TypeOK, FileTypeOK, SinkTypeOK

(* A file is removed, and the queue makes room. *)
LEMMA DeleteStep ==
    ASSUME IInv, DeleteOld \/ DeleteOldThrows
    PROVE  IInv'
<1>1. FileTypeOK /\ SinkTypeOK /\ Order /\ FilesInOrder /\ pc = "delete_old"
  BY TypeSplit DEF IInv, DeleteOld, DeleteOldThrows
<1>2. /\ UNCHANGED <<filename_, fd_, buffer, stored, now, rotation_tp_, msgTime, shouldRotate,
                     nextId, latest, known>>
      /\ pc' = "idle" /\ failed' \subseteq MayFail
  BY <1>1 DEF DeleteOld, DeleteOldThrows, Fails, fileVars, streamVars, callVars, SinkTypeOK
<1>3. files \in [Names -> File] /\ filename_ \in Names
  BY <1>1 DEF FileTypeOK
<1>4. NoFile \in File /\ NoFile.ids = {}
  BY DEF NoFile, File
<1>5. /\ files' \in [Names -> File]
      /\ \A n \in Names : files'[n].ids \subseteq files[n].ids
  BY <1>3, <1>4 DEF DeleteOld, DeleteOldThrows, fileVars
<1>6. filenames_q_' \in Seq(Names) /\ Len(filenames_q_') <= MaxFiles
  <2>1. /\ filenames_q_ \in Seq(Names) /\ Len(filenames_q_) <= MaxFiles
        /\ Len(filenames_q_) \in Nat /\ MaxFiles \in Nat /\ MaxFiles > 0
    BY <1>1, LenProperties, TimedAssumption DEF SinkTypeOK, Order
  <2>2. CASE filenames_q_' = Append(filenames_q_, filename_) /\ Len(filenames_q_) # MaxFiles
    BY <1>3, <2>1, <2>2, AppendProperties
  <2>3. CASE filenames_q_' = Append(Tail(filenames_q_), filename_) /\ Len(filenames_q_) = MaxFiles
    <3>1. filenames_q_ # <<>>
      BY <2>1, <2>3
    <3>2. Tail(filenames_q_) \in Seq(Names) /\ Len(Tail(filenames_q_)) = Len(filenames_q_) - 1
      BY <2>1, <3>1, HeadTailProperties
    <3> QED BY <1>3, <2>1, <2>3, <3>2, AppendProperties
  <2> QED BY <2>2, <2>3 DEF DeleteOld, DeleteOldThrows
<1>7. FileTypeOK' /\ SinkTypeOK'
  BY <1>1, <1>2, <1>5, <1>6 DEF FileTypeOK, SinkTypeOK
<1>8. Order' /\ FilesInOrder'
  BY <1>1, <1>2, <1>3, <1>5 DEF Order, FilesInOrder, HasContents, InHand, OnlyLateFindNoStream
<1> QED BY <1>7, <1>8 DEF IInv, TypeOK, FileTypeOK, SinkTypeOK

(* Flushing, the end of the sink and the end of the process. *)
LEMMA LeavingStep ==
    ASSUME IInv, FlushSink \/ Destroy \/ Crash
    PROVE  IInv'
<1>1. FileTypeOK /\ SinkTypeOK /\ Order /\ FilesInOrder
  BY TypeSplit DEF IInv
<1>2. /\ UNCHANGED <<now, rotation_tp_, filenames_q_, msgTime, shouldRotate, nextId, latest,
                     known, failed, filename_>>
      /\ pc' \in {pc, "none"}
  BY DEF FlushSink, Destroy, Crash, callVars, Flush, Close, StreamIsLost
<1>3. CASE FlushSink \/ Destroy
  <2>1. PassedOn /\ FileTypeOK'
    BY <1>1, <1>3, CloseFacts DEF FlushSink, Destroy
  <2>2. /\ FilesInOrder'
        /\ \A n \in Names : HasContents(n)' => HasContents(n) \/ (fd_ /\ n = filename_)
        /\ \A n \in Names : \A x \in files'[n].ids : x < nextId /\ (InHand => x < nextId - 1)
    BY <1>1, <2>1, OrderAfterPassOn
  <2>3. SinkTypeOK'
    BY <1>1, <1>2 DEF SinkTypeOK
  <2>4. \/ pc' = pc /\ fd_' = fd_
        \/ pc' = "none" /\ ~ fd_' /\ pc = "idle"
    BY <1>3 DEF FlushSink, Flush, Destroy, Close
  <2>5. filename_ \in Nat /\ \A n \in Names : n \in Nat
    BY <1>1, NumberFacts DEF FileTypeOK
  <2>6. buffer' = Nothing /\ buffer'.ids = {}
    BY <2>1 DEF PassedOn, Nothing
  <2>7. Order'
    BY <1>1, <1>2, <2>2, <2>4, <2>5, <2>6 DEF Order, HasContents, InHand, OnlyLateFindNoStream
  <2> QED BY <2>1, <2>2, <2>3, <2>7 DEF IInv, TypeOK, SinkTypeOK
<1>4. CASE Crash
  <2>1. /\ UNCHANGED <<files, stored>> /\ buffer' = Nothing /\ ~ fd_' /\ fd_' \in BOOLEAN
        /\ pc' = "none"
    BY <1>4 DEF Crash, StreamIsLost
  <2>2. Nothing \in Chunk /\ Nothing.ids = {}
    BY DEF Nothing, Chunk
  <2>3. FileTypeOK' /\ SinkTypeOK'
    BY <1>1, <1>2, <2>1, <2>2 DEF FileTypeOK, SinkTypeOK
  <2>4. Order' /\ FilesInOrder'
    BY <1>1, <1>2, <2>1, <2>2 DEF Order, FilesInOrder, HasContents, InHand, OnlyLateFindNoStream
  <2> QED BY <2>3, <2>4 DEF IInv, TypeOK, FileTypeOK, SinkTypeOK
<1> QED BY <1>3, <1>4

(* Every step keeps the invariant. *)
LEMMA NextIInv == IInv /\ [Next]_vars => IInv'
<1> SUFFICES ASSUME IInv, [Next]_vars
             PROVE  IInv'
  OBVIOUS
<1>1. CASE UNCHANGED vars
  BY <1>1 DEF vars, fileVars, streamVars, callVars, IInv, TypeOK, FileTypeOK, Order,
              FilesInOrder, HasContents, InHand, OnlyLateFindNoStream
<1>2. CASE Tick
  BY <1>2, TickStep
<1>3. CASE Construct \/ ConstructThrows \/ ConstructRotation \/ ConstructQueue
  BY <1>3, ConstructStep
<1>4. CASE \E time \in Times : now - MaxDelay <= time /\ time <= now /\ SinkIt(time)
  BY <1>4, SinkItStep
<1>5. CASE OpenNext \/ OpenNextThrows
  BY <1>5, OpenNextStep
<1>6. CASE SetRotation
  BY <1>6, SetRotationStep
<1>7. CASE WriteMessage \/ WriteThrows
  BY <1>7, WriteStep
<1>8. CASE DeleteOld \/ DeleteOldThrows
  BY <1>8, DeleteStep
<1>9. CASE FlushSink \/ Destroy \/ Crash
  BY <1>9, LeavingStep
<1> QED BY <1>1, <1>2, <1>3, <1>4, <1>5, <1>6, <1>7, <1>8, <1>9 DEF Next

-----------------------------------------------------------------------------
(* The invariant of the retention, for rotation at the start of a period.  *)
(* The names that the sink knows are before the next rotation, so a file   *)
(* that it opens is later than all in the queue, which is in order: what   *)
(* it removes is older than as many names as there is room for.            *)
Queued == pc \in {"idle", "open", "rotation_tp", "write", "delete_old"}
Rotating == pc \in {"rotation_tp", "delete_old"} \/ (pc = "write" /\ shouldRotate)

Ordered(q) == \A a, b \in DOMAIN q : a < b => q[a] < q[b]

KnownInOrder ==
    /\ \A n \in There : n <= NameAt(now)
    /\ pc \in {"construct_tp", "construct_q"} => \A n \in There : n <= filename_
    /\ pc = "construct_q" => filename_ < NameAt(rotation_tp_)
    /\ pc \in {"idle", "open", "write", "delete_old"} =>
          \A n \in known : n < NameAt(rotation_tp_)
    /\ pc = "rotation_tp" => \A n \in known : n <= filename_
    /\ pc \in {"open", "rotation_tp"} => shouldRotate
    /\ Rotating => filename_ \in known /\ \A n \in Range(filenames_q_) : n < filename_
    /\ Queued => Range(filenames_q_) \subseteq known /\ Ordered(filenames_q_)

(* The last max_files names have a file; of the others, only what could    *)
(* not be written or removed.                                              *)
Later(n) == {m \in known : m > n}
Current == IF Rotating THEN {filename_} ELSE {}

LastAreThere == \A n \in known : Cardinality(Later(n)) < MaxFiles => n \in There
OthersAreGone == failed \subseteq {"open"} => known \cap There \subseteq Range(filenames_q_) \cup Current

Kept == Queued /\ MaxFiles > 0 => LastAreThere /\ OthersAreGone

RInv == IInv /\ KnownInOrder /\ Kept

(* Rotation at the start of a period is always in the next one.            *)
LEMMA NextPeriod ==
    ASSUME RotateAt = 0, NEW time \in Times
    PROVE  NameAt(time) < NameAt(NextRotation(time))
<1> DEFINE a == NameAt(time)
           r == NextRotation(time)
           b == NameAt(r)
<1>1. Period \in Nat \ {0} /\ time \in Nat /\ a \in Nat /\ a * Period <= time
  <2>1. Period \in Nat \ {0} /\ time \in Nat
    BY TimedAssumption, TimeFacts
  <2> QED BY <2>1, NameFacts
<1>2. r = a * Period + Period
  BY <1>1 DEF NextRotation
<1>3. r \in Nat
  BY <1>1, <1>2
<1>4. b \in Nat /\ r < b * Period + Period
  BY <1>3, NameFacts
<1> HIDE DEF a, b, r
<1>5. ASSUME b <= a PROVE FALSE
  <2>1. b * Period <= a * Period
    BY <1>1, <1>4, <1>5, SMTT(20)
  <2> QED BY <1>1, <1>2, <1>4, <2>1
<1>6. a < b
  BY <1>1, <1>4, <1>5
<1> QED BY <1>6 DEF a, b, r

(* What opening a file does to the files that are there.                   *)
LEMMA ThereAfterOpen ==
    ASSUME FileTypeOK, NEW name \in Names,
           Open(name, Truncate) \/ OpenThrows(name, Truncate)
    PROVE  /\ There \subseteq There' /\ There' \subseteq There \cup {name}
           /\ Open(name, Truncate) => name \in There'
<1>1. files \in [Names -> File] /\ buffer \in Chunk /\ filename_ \in Names
  BY DEF FileTypeOK
<1>2. /\ Flushed \in [Names -> [there : BOOLEAN, ids : SUBSET Nat, bytes : Nat]]
      /\ \A n \in Names : Flushed[n].there = files[n].there
  <2>1. CASE ~ fd_
    BY <1>1, <2>1 DEF Flushed, File
  <2>2. CASE fd_
    <3> DEFINE new == Appended(files[filename_], buffer)
    <3>1. files[filename_] \in File
      BY <1>1
    <3>2. /\ files[filename_].ids \cup buffer.ids \in SUBSET Nat
          /\ files[filename_].bytes + buffer.bytes \in Nat
      BY <1>1, <3>1 DEF File, Chunk
    <3>3. new \in File /\ new.there = files[filename_].there
      BY <3>1, <3>2 DEF Appended, File
    <3>4. Flushed = [files EXCEPT ![filename_] = new]
      BY <2>2 DEF Flushed
    <3> HIDE DEF new
    <3> QED BY <1>1, <3>3, <3>4 DEF File
  <2> QED BY <2>1, <2>2
<1>3. EmptyFile.there
  BY DEF EmptyFile
<1>4. [Flushed[name] EXCEPT !.there = TRUE].there
  <2>1. Flushed[name] \in [there : BOOLEAN, ids : SUBSET Nat, bytes : Nat]
    BY <1>2
  <2> QED BY <2>1
<1>5. ASSUME NEW f, f.there, files' = [Flushed EXCEPT ![name] = f]
      PROVE  There \subseteq There' /\ There' \subseteq There \cup {name} /\ name \in There'
  <2>1. \A n \in Names : files'[n].there <=> files[n].there \/ n = name
    BY <1>2, <1>5
  <2> QED BY <2>1 DEF There
<1>6. CASE files' = Flushed /\ OpenThrows(name, Truncate) /\ ~ Open(name, Truncate)
  <2>1. There' = There
    BY <1>2, <1>6 DEF There
  <2> QED BY <1>6, <2>1
<1>7. CASE files' = [Flushed EXCEPT ![name] = EmptyFile]
  BY <1>3, <1>5, <1>7
<1>8. CASE files' = [Flushed EXCEPT ![name] = [Flushed[name] EXCEPT !.there = TRUE]]
  BY <1>4, <1>5, <1>8
<1>9. Open(name, Truncate) => \/ files' = [Flushed EXCEPT ![name] = EmptyFile]
                              \/ files' = [Flushed EXCEPT ![name] = [Flushed[name] EXCEPT !.there = TRUE]]
  BY DEF Open
<1>10. OpenThrows(name, Truncate) => files' = Flushed \/ files' = [Flushed EXCEPT ![name] = EmptyFile]
  BY DEF OpenThrows
<1> QED BY <1>6, <1>7, <1>8, <1>9, <1>10

(* Passing the buffer on creates and removes nothing.                      *)
LEMMA ThereAfterClose ==
    ASSUME FileTypeOK, Close \/ Flush
    PROVE  There' = There
<1>1. files \in [Names -> File] /\ buffer \in Chunk /\ filename_ \in Names
  BY DEF FileTypeOK
<1>2. files' = Flushed
  BY DEF Close, Flush
<1>3. CASE ~ fd_
  BY <1>2, <1>3 DEF Flushed, There
<1>4. CASE fd_
  <2>1. Appended(files[filename_], buffer).there = files[filename_].there
    BY DEF Appended
  <2>2. files' = [files EXCEPT ![filename_] = Appended(files[filename_], buffer)]
    BY <1>2, <1>4 DEF Flushed
  <2>3. \A n \in Names : files'[n].there = files[n].there
    BY <1>1, <2>1, <2>2
  <2> QED BY <2>3 DEF There
<1> QED BY <1>3, <1>4

(* Sets of names are finite.                                               *)
LEMMA FiniteNames ==
    ASSUME NEW S \in SUBSET Names, NEW T \in SUBSET S
    PROVE  /\ IsFiniteSet(S) /\ Cardinality(S) \in Nat
           /\ Cardinality(T) \in Nat /\ Cardinality(T) <= Cardinality(S)
<1>1. Names = 0 .. NameAt(Horizon) /\ NameAt(Horizon) \in Nat
  BY NameFacts, TimedAssumption
<1>2. IsFiniteSet(Names)
  BY <1>1, FS_Interval
<1>3. IsFiniteSet(S) /\ IsFiniteSet(T)
  BY <1>2, FS_Subset
<1> QED BY <1>3, FS_Subset, FS_CardinalityType

(* The queue that the constructor fills is in order, and its files are     *)
(* there (daily_file_sink.h:129-151).                                      *)
LEMMA KeptInOrder ==
    ASSUME now \in Times
    PROVE  Ordered(KeptFiles) /\ Range(KeptFiles) \subseteq There
<1> DEFINE kept == {k \in 0 .. MaxFiles :
                       \A j \in 0 .. (k - 1) :
                           NameAt(now) - j \in Names /\ files[NameAt(now) - j].there}
           n == CHOOSE k \in kept : \A j \in kept : j <= k
<1>1. MaxFiles \in Nat /\ kept \in SUBSET (0 .. MaxFiles)
  BY TimedAssumption
<1>2. 0 \in kept
  BY <1>1
<1>3. n \in kept
  BY <1>1, <1>2, GreatestExists
<1>4. n \in 0 .. MaxFiles /\ \A j \in 0 .. (n - 1) : NameAt(now) - j \in There
  BY <1>3 DEF There
<1>5. NameAt(now) \in Nat
  BY TimeFacts, NameFacts
<1>6. KeptFiles = [j \in 1 .. n |-> NameAt(now) - n + j]
  BY DEF KeptFiles
<1> HIDE DEF n, kept
<1>7. Ordered(KeptFiles)
  BY <1>1, <1>4, <1>5, <1>6 DEF Ordered
<1>8. ASSUME NEW j \in 1 .. n PROVE KeptFiles[j] \in There
  <2>1. n - j \in 0 .. (n - 1) /\ NameAt(now) - (n - j) = NameAt(now) - n + j
    BY <1>1, <1>4, <1>5
  <2> QED BY <1>4, <1>6, <2>1
<1>9. DOMAIN KeptFiles = 1 .. n
  BY <1>6
<1> QED BY <1>7, <1>8, <1>9 DEF Range

(* A queue in order stays so when it gets a later name, with or without    *)
(* its first one.                                                          *)
LEMMA QueueAfterDelete ==
    ASSUME NEW q \in Seq(Names), Ordered(q), NEW name \in Names,
           \A n \in Range(q) : n < name
    PROVE  /\ Ordered(Append(q, name)) /\ Range(Append(q, name)) = Range(q) \cup {name}
           /\ q # <<>> =>
                 /\ Ordered(Append(Tail(q), name))
                 /\ Range(Append(Tail(q), name)) = (Range(q) \ {Head(q)}) \cup {name}
                 /\ Append(Tail(q), name) \in Injection(1 .. Len(q), Range(Append(Tail(q), name)))
                 /\ \A n \in Range(Append(Tail(q), name)) : n > Head(q)
                 /\ Head(q) \in Range(q)
<1>1. Names \subseteq Nat
  BY TimedAssumption
<1>2. /\ Len(q) \in Nat /\ DOMAIN q = 1 .. Len(q)
      /\ \A k \in 1 .. Len(q) : q[k] \in Names /\ q[k] \in Range(q)
      /\ \A n \in Range(q) : \E k \in 1 .. Len(q) : n = q[k]
  BY LenProperties DEF Range
<1>3. ASSUME NEW s \in Seq(Names), Ordered(s), \A n \in Range(s) : n < name
      PROVE  /\ Ordered(Append(s, name)) /\ Range(Append(s, name)) = Range(s) \cup {name}
             /\ DOMAIN Append(s, name) = 1 .. (Len(s) + 1)
  <2> DEFINE t == Append(s, name)
  <2>1. /\ Len(s) \in Nat /\ DOMAIN s = 1 .. Len(s)
        /\ \A k \in 1 .. Len(s) : s[k] \in Names /\ s[k] \in Range(s)
    BY LenProperties DEF Range
  <2>2. /\ DOMAIN t = 1 .. (Len(s) + 1)
        /\ \A k \in 1 .. Len(s) : t[k] = s[k]
        /\ t[Len(s) + 1] = name
    <3>1. t \in Seq(Names) /\ Len(t) = Len(s) + 1
      BY AppendProperties
    <3>2. DOMAIN t = 1 .. Len(t)
      BY <3>1, LenProperties
    <3> QED BY <3>1, <3>2, AppendProperties
  <2> HIDE DEF t
  <2>3. Ordered(t)
    <3> SUFFICES ASSUME NEW a \in DOMAIN t, NEW b \in DOMAIN t, a < b PROVE t[a] < t[b]
      BY DEF Ordered
    <3>1. a \in 1 .. Len(s)
      BY <2>1, <2>2
    <3>2. CASE b \in 1 .. Len(s)
      BY <1>3, <2>1, <2>2, <3>1, <3>2 DEF Ordered
    <3>3. CASE b = Len(s) + 1
      BY <1>3, <2>1, <2>2, <3>1, <3>3
    <3> QED BY <2>1, <2>2, <3>2, <3>3
  <2>4. Range(t) = Range(s) \cup {name}
    <3>1. ASSUME NEW n PROVE n \in Range(t) => n \in Range(s) \cup {name}
      <4> SUFFICES ASSUME NEW k \in 1 .. (Len(s) + 1), n = t[k] PROVE n \in Range(s) \cup {name}
        BY <2>2 DEF Range
      <4>1. k \in 1 .. Len(s) \/ k = Len(s) + 1
        BY <2>1
      <4> QED BY <2>1, <2>2, <4>1
    <3>2. ASSUME NEW n \in Range(s) PROVE n \in Range(t)
      <4>1. PICK k \in 1 .. Len(s) : n = s[k]
        BY <2>1 DEF Range
      <4>2. k \in 1 .. (Len(s) + 1)
        BY <2>1
      <4> QED BY <2>2, <4>1, <4>2 DEF Range
    <3>3. name \in Range(t)
      <4>1. Len(s) + 1 \in 1 .. (Len(s) + 1)
        BY <2>1
      <4> QED BY <2>2, <4>1 DEF Range
    <3> QED BY <3>1, <3>2, <3>3
  <2> QED BY <2>2, <2>3, <2>4 DEF t
<1>4. ASSUME q # <<>>
      PROVE  /\ Ordered(Append(Tail(q), name))
             /\ Range(Append(Tail(q), name)) = (Range(q) \ {Head(q)}) \cup {name}
             /\ Append(Tail(q), name) \in Injection(1 .. Len(q), Range(Append(Tail(q), name)))
             /\ \A n \in Range(Append(Tail(q), name)) : n > Head(q)
             /\ Head(q) \in Range(q)
  <2> DEFINE s == Tail(q)
             t == Append(s, name)
  <2>1. /\ s \in Seq(Names) /\ Len(s) = Len(q) - 1 /\ Len(q) > 0
        /\ \A k \in 1 .. Len(s) : s[k] = q[k + 1]
        /\ DOMAIN s = 1 .. Len(s) /\ Head(q) = q[1]
    <3>1. s \in Seq(Names) /\ Len(s) = Len(q) - 1 /\ \A k \in 1 .. Len(s) : s[k] = q[k + 1]
      BY <1>4, HeadTailProperties
    <3>2. Len(s) \in Nat /\ DOMAIN s = 1 .. Len(s)
      BY <3>1, LenProperties
    <3> QED BY <1>2, <3>1, <3>2
  <2> HIDE DEF s
  <2>2. Ordered(s)
    <3> SUFFICES ASSUME NEW a \in 1 .. Len(s), NEW b \in 1 .. Len(s), a < b PROVE s[a] < s[b]
      BY <2>1 DEF Ordered
    <3>1. a + 1 \in 1 .. Len(q) /\ b + 1 \in 1 .. Len(q) /\ a + 1 < b + 1
      BY <1>2, <2>1
    <3> QED BY <1>2, <2>1, <3>1 DEF Ordered
  <2>3. Range(s) = Range(q) \ {Head(q)} /\ \A n \in Range(s) : n > Head(q)
    <3>1. ASSUME NEW n \in Range(s) PROVE n \in Range(q) /\ n > Head(q) /\ n # Head(q)
      <4>1. PICK k \in 1 .. Len(s) : n = s[k]
        BY <2>1 DEF Range
      <4>2. k + 1 \in 1 .. Len(q) /\ n = q[k + 1] /\ 1 < k + 1 /\ 1 \in 1 .. Len(q)
        BY <1>2, <2>1, <4>1
      <4>3. q[1] < q[k + 1] /\ q[1] \in Nat /\ q[k + 1] \in Nat
        BY <1>1, <1>2, <4>2 DEF Ordered
      <4> QED BY <1>2, <2>1, <4>2, <4>3
    <3>2. ASSUME NEW n \in Range(q), n # Head(q) PROVE n \in Range(s)
      <4>1. PICK k \in 1 .. Len(q) : n = q[k]
        BY <1>2
      <4>2. k - 1 \in 1 .. Len(s) /\ s[k - 1] = n
        BY <1>2, <2>1, <3>2, <4>1
      <4> QED BY <2>1, <4>2 DEF Range
    <3> QED BY <3>1, <3>2
  <2>4. Head(q) \in Range(q)
    BY <1>2, <2>1
  <2>5. \A n \in Range(s) : n < name
    BY <2>3
  <2>6. /\ Ordered(t) /\ Range(t) = Range(s) \cup {name}
        /\ DOMAIN t = 1 .. Len(q)
    <3>1. Len(s) + 1 = Len(q)
      BY <1>2, <2>1
    <3> QED BY <1>3, <2>1, <2>2, <2>5, <3>1
  <2>7. t \in Injection(1 .. Len(q), Range(t))
    <3>1. t \in [1 .. Len(q) -> Range(t)]
      <4>1. t \in Seq(Names)
        BY <2>1, AppendProperties
      <4> HIDE DEF t
      <4>2. t \in [1 .. Len(q) -> Names]
        BY <2>6, <4>1, LenProperties
      <4>3. \A k \in 1 .. Len(q) : t[k] \in Range(t)
        BY <2>6 DEF Range
      <4> QED BY <4>2, <4>3
    <3> HIDE DEF t
    <3>2. ASSUME NEW a \in 1 .. Len(q), NEW b \in 1 .. Len(q), t[a] = t[b] PROVE a = b
      <4>1. Range(t) \subseteq Nat
        <5>1. Range(q) \subseteq Nat
          BY <1>1, <1>2
        <5> QED BY <1>1, <2>3, <2>6, <5>1
      <4>2. t[a] \in Nat /\ t[b] \in Nat
        BY <3>1, <4>1
      <4>3. ~ (a < b) /\ ~ (b < a)
        BY <2>6, <3>2, <4>2 DEF Ordered
      <4> QED BY <1>2, <4>3
    <3> QED BY <3>1, <3>2 DEF Injection, IsInjective
  <2>8. name > Head(q)
    BY <1>1, <2>4
  <2> QED BY <2>3, <2>4, <2>6, <2>7, <2>8 DEF s
<1>5. Ordered(Append(q, name)) /\ Range(Append(q, name)) = Range(q) \cup {name}
  BY <1>3
<1> QED BY <1>4, <1>5

(* The numbers and sets that the steps compare.                            *)
LEMMA RetentionTypes ==
    ASSUME IInv
    PROVE  /\ FileTypeOK /\ SinkTypeOK /\ Order
           /\ now \in Times /\ msgTime \in Times /\ now \in Nat /\ msgTime \in Nat
           /\ NameAt(now) \in Nat /\ NameAt(now) \in Names
           /\ NameAt(msgTime) \in Nat /\ NameAt(msgTime) \in Names
           /\ rotation_tp_ \in Nat /\ NameAt(rotation_tp_) \in Nat
           /\ filename_ \in Names /\ filename_ \in Nat /\ filename_ <= NameAt(now)
           /\ Names \subseteq Nat /\ There \subseteq Names /\ known \subseteq Names
           /\ filenames_q_ \in Seq(Names) /\ Range(filenames_q_) \subseteq Names
           /\ MaxFiles \in Nat /\ files \in [Names -> File]
<1>1. FileTypeOK /\ SinkTypeOK /\ Order
  BY TypeSplit DEF IInv
<1>2. filename_ \in Names /\ now \in Times /\ msgTime \in Times /\ known \subseteq Names
      /\ filenames_q_ \in Seq(Names) /\ filename_ <= NameAt(now) /\ files \in [Names -> File]
  BY <1>1 DEF FileTypeOK, SinkTypeOK, Order
<1>3. Range(filenames_q_) \subseteq Names
  BY <1>2 DEF Range
<1>4. There \subseteq Names
  BY DEF There
<1> QED BY <1>1, <1>2, <1>3, <1>4, NumberFacts, TimedAssumption

(* A step that neither opens, writes nor removes a file.                   *)
LEMMA QuietRetention ==
    ASSUME RInv, IInv', There' = There, NameAt(now) <= NameAt(now)',
           UNCHANGED <<known, filenames_q_, filename_, rotation_tp_, failed>>,
           UNCHANGED <<pc, shouldRotate>> \/ pc' = "none"
    PROVE  KnownInOrder' /\ Kept'
<1>1. /\ NameAt(now) \in Nat /\ NameAt(now)' \in Nat /\ There \subseteq Nat
  <2>1. now' \in Nat
    BY TimedAssumption DEF IInv, TypeOK, Times
  <2> QED BY <2>1, NameFacts, RetentionTypes DEF RInv
<1>2. KnownInOrder /\ Kept
  BY DEF RInv
<1>3. \A n \in There' : n <= NameAt(now)'
  BY <1>1, <1>2 DEF KnownInOrder
<1>4. CASE pc' = "none"
  BY <1>3, <1>4 DEF KnownInOrder, Kept, Queued, Rotating
<1>5. CASE UNCHANGED <<pc, shouldRotate>>
  <2>1. KnownInOrder'
    BY <1>2, <1>3, <1>5 DEF KnownInOrder, Queued, Rotating
  <2>2. Kept'
    <3>1. (Queued' <=> Queued) /\ Current' = Current /\ \A n : Later(n)' = Later(n)
      BY <1>5 DEF Queued, Current, Rotating, Later
    <3> QED BY <1>2, <3>1 DEF Kept, LastAreThere, OthersAreGone
  <2> QED BY <2>1, <2>2
<1> QED BY <1>4, <1>5

(* The constructor: what it knows is in the queue, and is there.           *)
LEMMA ConstructRetention ==
    ASSUME RotateAt = 0, RInv, IInv',
           Construct \/ ConstructThrows \/ ConstructRotation \/ ConstructQueue
    PROVE  KnownInOrder' /\ Kept'
<1>1. /\ FileTypeOK /\ NameAt(now) \in Nat /\ NameAt(now) \in Names /\ There \subseteq Nat
      /\ filename_ \in Nat /\ filename_ <= NameAt(now) /\ now \in Times
      /\ KnownInOrder /\ Kept
  BY RetentionTypes DEF RInv
<1>2. CASE Construct \/ ConstructThrows
  <2>1. There' \subseteq There \cup {NameAt(now)} /\ filename_' = NameAt(now) /\ now' = now
    BY <1>1, <1>2, ThereAfterOpen DEF Construct, ConstructThrows, Open, OpenThrows
  <2>2. pc' \in {"construct_tp", "none"}
    BY <1>2 DEF Construct, ConstructThrows
  <2>3. \A n \in There' : n <= NameAt(now)
    BY <1>1, <2>1 DEF KnownInOrder
  <2> QED BY <2>1, <2>2, <2>3 DEF KnownInOrder, Kept, Queued, Rotating
<1>3. CASE ConstructRotation
  <2>1. /\ UNCHANGED <<files, filename_, now>> /\ pc = "construct_tp" /\ pc' = "construct_q"
        /\ rotation_tp_' = NextRotation(now)
    BY <1>3 DEF ConstructRotation, fileVars, streamVars
  <2>2. There' = There
    BY <2>1 DEF There
  <2>3. NameAt(now) < NameAt(rotation_tp_') /\ NameAt(rotation_tp_') \in Nat
    <3>1. rotation_tp_' \in Nat
      BY TimedAssumption DEF IInv, TypeOK
    <3> QED BY <1>1, <2>1, <3>1, NextPeriod, NameFacts
  <2>4. filename_' < NameAt(rotation_tp_')
    BY <1>1, <2>1, <2>3
  <2> QED BY <1>1, <2>1, <2>2, <2>4 DEF KnownInOrder, Kept, Queued, Rotating
<1>4. CASE ConstructQueue
  <2>1. /\ UNCHANGED <<files, filename_, now, rotation_tp_>> /\ pc = "construct_q"
        /\ pc' = "idle" /\ known' = Range(filenames_q_')
        /\ filenames_q_' = IF MaxFiles > 0 THEN KeptFiles ELSE <<>>
    BY <1>4 DEF ConstructQueue, fileVars, streamVars
  <2>2. There' = There
    BY <2>1 DEF There
  <2>3. Ordered(filenames_q_') /\ Range(filenames_q_') \subseteq There
    <3>1. CASE MaxFiles > 0
      BY <1>1, <2>1, <3>1, KeptInOrder
    <3>2. CASE ~ (MaxFiles > 0)
      BY <2>1, <3>2 DEF Ordered, Range
    <3> QED BY <3>1, <3>2
  <2>4. \A n \in known' : n < NameAt(rotation_tp_)
    <3>1. NameAt(rotation_tp_) \in Nat /\ filename_ < NameAt(rotation_tp_)
      BY <1>1, <2>1, RetentionTypes DEF RInv, KnownInOrder
    <3>2. \A n \in There : n <= filename_ /\ n \in Nat
      BY <1>1, <2>1 DEF KnownInOrder
    <3>3. known' \subseteq There /\ filename_ \in Nat
      BY <1>1, <2>1, <2>3
    <3> QED BY <3>1, <3>2, <3>3
  <2>5. KnownInOrder'
    BY <1>1, <2>1, <2>2, <2>3, <2>4 DEF KnownInOrder, Queued, Rotating
  <2>6. Kept'
    BY <2>1, <2>2, <2>3 DEF Kept, LastAreThere, OthersAreGone
  <2> QED BY <2>5, <2>6
<1> QED BY <1>2, <1>3, <1>4

(* A message comes. *)
LEMMA SinkItRetention ==
    ASSUME RInv, IInv', NEW time \in Times, SinkIt(time)
    PROVE  KnownInOrder' /\ Kept'
<1>1. /\ UNCHANGED <<files, filename_, now, rotation_tp_, filenames_q_, known, failed>>
      /\ pc = "idle" /\ shouldRotate' = (time >= rotation_tp_)
      /\ pc' = IF time >= rotation_tp_ THEN "open" ELSE "write"
  BY DEF SinkIt, fileVars, streamVars
<1>2. There' = There /\ KnownInOrder /\ Kept
  BY <1>1 DEF There, RInv
<1>3. /\ ~ Rotating' /\ ~ Rotating /\ Queued /\ Queued' /\ pc' \in {"open", "write"}
      /\ pc' = "open" => shouldRotate'
  BY <1>1 DEF Rotating, Queued
<1>4. KnownInOrder'
  BY <1>1, <1>2, <1>3 DEF KnownInOrder
<1>5. Kept'
  <2>1. Current' = Current /\ \A n : Later(n)' = Later(n)
    BY <1>1, <1>3 DEF Current, Later
  <2> QED BY <1>1, <1>2, <1>3, <2>1 DEF Kept, LastAreThere, OthersAreGone
<1> QED BY <1>4, <1>5

(* The file that the sink rotates to is later than all that it knows.      *)
LEMMA OpenRetention ==
    ASSUME RInv, IInv', OpenNext \/ OpenNextThrows
    PROVE  KnownInOrder' /\ Kept'
<1> DEFINE new == NameAt(msgTime)
<1>1. /\ FileTypeOK /\ new \in Nat /\ new \in Names /\ There \subseteq Nat /\ known \subseteq Names
      /\ NameAt(now) \in Nat /\ NameAt(rotation_tp_) \in Nat /\ Names \subseteq Nat
      /\ now \in Nat /\ msgTime \in Nat /\ rotation_tp_ \in Nat
      /\ KnownInOrder /\ Kept
  BY RetentionTypes DEF RInv
<1>2. rotation_tp_ <= msgTime /\ msgTime <= now /\ pc = "open"
  BY RetentionTypes DEF RInv, Order, InHand, OpenNext, OpenNextThrows
<1>3. NameAt(rotation_tp_) <= new /\ new <= NameAt(now)
  BY <1>1, <1>2, NameMonotone
<1>4. \A n \in known : n < new
  BY <1>1, <1>2, <1>3 DEF KnownInOrder
<1>5. /\ UNCHANGED <<now, rotation_tp_, filenames_q_, shouldRotate>>
      /\ There \subseteq There' /\ There' \subseteq There \cup {new}
  BY <1>1, ThereAfterOpen DEF OpenNext, OpenNextThrows, callVars
<1>6. Queued /\ Queued' /\ shouldRotate /\ ~ Rotating
  BY <1>1, <1>2 DEF Queued, OpenNext, OpenNextThrows, KnownInOrder, Rotating
<1>7. Range(filenames_q_) \subseteq known /\ Ordered(filenames_q_)
  BY <1>1, <1>6 DEF KnownInOrder
<1>8. \A n \in There' : n <= NameAt(now)
  BY <1>1, <1>3, <1>5 DEF KnownInOrder
<1> HIDE DEF new
<1>9. CASE OpenNext
  <2>1. /\ filename_' = new /\ known' = known \cup {new} /\ pc' = "rotation_tp"
        /\ new \in There' /\ failed' = failed
    BY <1>1, <1>9, ThereAfterOpen DEF OpenNext, Open, new
  <2>2. KnownInOrder'
    <3>1. \A n \in known' : n <= filename_'
      BY <1>1, <1>4, <2>1
    <3>2. filename_' \in known' /\ \A n \in Range(filenames_q_') : n < filename_'
      BY <1>4, <1>5, <1>7, <2>1
    <3>3. Range(filenames_q_') \subseteq known' /\ Ordered(filenames_q_')
      BY <1>5, <1>7, <2>1
    <3>4. shouldRotate' /\ \A n \in There' : n <= NameAt(now)'
      BY <1>5, <1>6, <1>8
    <3> QED BY <2>1, <3>1, <3>2, <3>3, <3>4 DEF KnownInOrder
  <2>3. ASSUME MaxFiles > 0, NEW n \in known', Cardinality(Later(n)') < MaxFiles
        PROVE  n \in There'
    <3>1. CASE n = new
      BY <2>1, <3>1
    <3>2. CASE n \in known
      <4>1. Later(n) \subseteq Later(n)' /\ Later(n)' \subseteq Names
        BY <1>1, <2>1 DEF Later
      <4>2. Cardinality(Later(n)) <= Cardinality(Later(n)') /\ Cardinality(Later(n)) \in Nat
            /\ Cardinality(Later(n)') \in Nat
        BY <4>1, FiniteNames
      <4>3. Cardinality(Later(n)) < MaxFiles
        BY <2>3, <4>2, RetentionTypes DEF RInv
      <4> QED BY <1>1, <1>5, <1>6, <2>3, <3>2, <4>3 DEF Kept, LastAreThere
    <3> QED BY <2>1, <3>1, <3>2
  <2>4. ASSUME MaxFiles > 0, failed' \subseteq {"open"}
        PROVE  known' \cap There' \subseteq Range(filenames_q_') \cup Current'
    <3>1. Current' = {new} /\ Current = {}
      BY <1>6, <2>1 DEF Current, Rotating
    <3>2. known \cap There \subseteq Range(filenames_q_)
      BY <1>1, <1>6, <2>1, <2>4, <3>1 DEF Kept, OthersAreGone
    <3> QED BY <1>5, <2>1, <3>1, <3>2
  <2> QED BY <2>2, <2>3, <2>4 DEF Kept, LastAreThere, OthersAreGone
<1>10. CASE OpenNextThrows
  <2>1. known' = known /\ pc' = "idle" /\ failed = failed' \cap failed
    BY <1>10 DEF OpenNextThrows, Fails
  <2>2. KnownInOrder'
    BY <1>1, <1>2, <1>5, <1>6, <1>7, <1>8, <2>1 DEF KnownInOrder, Rotating
  <2>3. known \cap There' = known \cap There
    <3>1. new \notin known
      BY <1>1, <1>4
    <3> QED BY <1>5, <3>1
  <2>4. Current' = {} /\ Current = {} /\ \A n : Later(n)' = Later(n)
    BY <1>6, <2>1 DEF Current, Rotating, Later
  <2>5. Kept'
    BY <1>1, <1>5, <1>6, <2>1, <2>3, <2>4 DEF Kept, LastAreThere, OthersAreGone
  <2> QED BY <2>2, <2>5
<1> QED BY <1>9, <1>10

(* The next rotation is in the next period, after all that the sink knows. *)
LEMMA SetRotationRetention ==
    ASSUME RotateAt = 0, RInv, IInv', SetRotation
    PROVE  KnownInOrder' /\ Kept'
<1>1. /\ UNCHANGED <<files, filename_, now, filenames_q_, known, failed, shouldRotate>>
      /\ pc = "rotation_tp" /\ pc' = "write" /\ rotation_tp_' = NextRotation(now)
  BY DEF SetRotation, fileVars, streamVars, callVars
<1>2. /\ There' = There /\ KnownInOrder /\ Kept /\ now \in Times /\ NameAt(now) \in Nat
      /\ filename_ \in Nat /\ filename_ <= NameAt(now) /\ known \subseteq Nat
  BY <1>1, RetentionTypes DEF There, RInv
<1>3. NameAt(now) < NameAt(rotation_tp_') /\ NameAt(rotation_tp_') \in Nat
  <2>1. rotation_tp_' \in Nat
    BY TimedAssumption DEF IInv, TypeOK
  <2> QED BY <1>1, <1>2, <2>1, NextPeriod, NameFacts
<1>4. \A n \in known : n < NameAt(rotation_tp_')
  BY <1>1, <1>2, <1>3 DEF KnownInOrder
<1>5. Rotating /\ Rotating' /\ Queued /\ Queued'
  BY <1>1, <1>2 DEF Rotating, Queued, KnownInOrder
<1>6. KnownInOrder'
  BY <1>1, <1>2, <1>4, <1>5 DEF KnownInOrder
<1>7. Kept'
  <2>1. Current' = Current /\ \A n : Later(n)' = Later(n)
    BY <1>1, <1>5 DEF Current, Later
  <2> QED BY <1>1, <1>2, <1>5, <2>1 DEF Kept, LastAreThere, OthersAreGone
<1> QED BY <1>6, <1>7

(* A rotation goes on to the deletion, unless the message is not written.  *)
LEMMA WriteRetention ==
    ASSUME RInv, IInv', WriteMessage \/ WriteThrows
    PROVE  KnownInOrder' /\ Kept'
<1>1. /\ UNCHANGED <<files, filename_, now, rotation_tp_, filenames_q_, known, shouldRotate>>
      /\ pc = "write" /\ pc' \in {"delete_old", "idle"} /\ failed \subseteq failed'
      /\ pc' = "delete_old" => shouldRotate
      /\ \/ pc' = "idle" /\ "write" \in failed'
         \/ failed' = failed /\ (pc' = "idle" /\ MaxFiles > 0 => ~ shouldRotate)
  BY DEF WriteMessage, WriteThrows, Write, Fails, fileVars, streamVars, callVars
<1>2. There' = There /\ KnownInOrder /\ Kept
  BY <1>1 DEF There, RInv
<1>3. Queued /\ Queued' /\ (Rotating' => Rotating) /\ pc' # "rotation_tp" /\ pc' # "open"
      /\ pc' \notin {"construct_tp", "construct_q"}
  BY <1>1 DEF Queued, Rotating
<1>4. KnownInOrder'
  BY <1>1, <1>2, <1>3 DEF KnownInOrder
<1>5. Kept'
  <2>1. \A n : Later(n)' = Later(n)
    BY <1>1 DEF Later
  <2>2. LastAreThere => LastAreThere'
    BY <1>1, <1>2, <2>1 DEF LastAreThere
  <2>3. ASSUME MaxFiles > 0, failed' \subseteq {"open"} PROVE failed' = failed /\ Current' = Current
    <3>1. failed' = failed /\ (pc' = "idle" => ~ shouldRotate)
      BY <1>1, <2>3
    <3>2. Rotating' <=> Rotating
      BY <1>1, <3>1 DEF Rotating
    <3> QED BY <1>1, <3>1, <3>2 DEF Current
  <2> QED BY <1>1, <1>2, <1>3, <2>2, <2>3 DEF Kept, OthersAreGone
<1> QED BY <1>4, <1>5

(* The deletion removes a name that as many later ones follow as there is  *)
(* room for.                                                               *)
LEMMA DeleteRetention ==
    ASSUME RInv, IInv', DeleteOld \/ DeleteOldThrows
    PROVE  KnownInOrder' /\ Kept'
<1> DEFINE q == filenames_q_
<1>1. /\ UNCHANGED <<filename_, now, rotation_tp_, known>>
      /\ pc = "delete_old" /\ pc' = "idle" /\ failed \subseteq failed'
  BY DEF DeleteOld, DeleteOldThrows, Fails, fileVars, streamVars, callVars
<1>2. /\ q \in Seq(Names) /\ Range(q) \subseteq Names /\ filename_ \in Names /\ known \subseteq Names
      /\ Names \subseteq Nat /\ MaxFiles \in Nat /\ MaxFiles > 0 /\ files \in [Names -> File]
      /\ KnownInOrder /\ Kept
  BY <1>1, RetentionTypes DEF RInv, Order
<1>3. Queued /\ Queued' /\ Rotating /\ ~ Rotating' /\ Current = {filename_} /\ Current' = {}
  BY <1>1 DEF Queued, Rotating, Current
<1>4. /\ filename_ \in known /\ \A n \in Range(q) : n < filename_
      /\ Range(q) \subseteq known /\ Ordered(q)
  BY <1>2, <1>3 DEF KnownInOrder
<1>5. Len(q) \in Nat /\ (Len(q) = MaxFiles => q # <<>>)
  BY <1>2, LenProperties
<1>6. \A n : Later(n)' = Later(n)
  BY <1>1 DEF Later
<1>7. CASE DeleteOld /\ Len(q) # MaxFiles
  <2>1. filenames_q_' = Append(q, filename_) /\ files' = files /\ failed' = failed
    BY <1>7 DEF DeleteOld
  <2>2. Ordered(filenames_q_') /\ Range(filenames_q_') = Range(q) \cup {filename_}
    BY <1>2, <1>4, <2>1, QueueAfterDelete
  <2>3. There' = There
    BY <2>1 DEF There
  <2>4. KnownInOrder'
    BY <1>1, <1>2, <1>3, <1>4, <2>2, <2>3 DEF KnownInOrder
  <2>5. Kept'
    BY <1>1, <1>2, <1>3, <1>6, <2>1, <2>2, <2>3 DEF Kept, LastAreThere, OthersAreGone
  <2> QED BY <2>4, <2>5
<1>8. CASE DeleteOldThrows \/ (DeleteOld /\ Len(q) = MaxFiles)
  <2>1. /\ filenames_q_' = Append(Tail(q), filename_) /\ Len(q) = MaxFiles
        /\ \/ files' = [files EXCEPT ![Head(q)] = NoFile] /\ failed' = failed
           \/ files' = files /\ "remove" \in failed'
    BY <1>8 DEF DeleteOld, DeleteOldThrows, Fails, fileVars
  <2>2. /\ Ordered(filenames_q_')
        /\ Range(filenames_q_') = (Range(q) \ {Head(q)}) \cup {filename_}
        /\ filenames_q_' \in Injection(1 .. MaxFiles, Range(filenames_q_'))
        /\ \A n \in Range(filenames_q_') : n > Head(q)
        /\ Head(q) \in Range(q)
    BY <1>2, <1>4, <1>5, <2>1, QueueAfterDelete
  <2>3. There' \subseteq There /\ \A n \in There : n # Head(q) => n \in There'
    <3>1. CASE files' = [files EXCEPT ![Head(q)] = NoFile]
      <4>1. ~ NoFile.there /\ Head(q) \in Names
        BY <1>2, <2>2 DEF NoFile
      <4>2. \A n \in Names : files'[n] = IF n = Head(q) THEN NoFile ELSE files[n]
        BY <1>2, <3>1
      <4> QED BY <4>1, <4>2 DEF There
    <3>2. CASE files' = files
      BY <3>2 DEF There
    <3> QED BY <2>1, <3>1, <3>2
  <2>5. KnownInOrder'
    BY <1>1, <1>2, <1>3, <1>4, <2>2, <2>3 DEF KnownInOrder
  <2>6. ~ (Cardinality(Later(Head(q))) < MaxFiles)
    <3>1. Range(filenames_q_') \subseteq Later(Head(q)) /\ Later(Head(q)) \subseteq Names
      BY <1>2, <1>4, <2>2 DEF Later
    <3>2. /\ IsFiniteSet(Range(filenames_q_'))
          /\ Cardinality(Range(filenames_q_')) <= Cardinality(Later(Head(q)))
          /\ Cardinality(Range(filenames_q_')) \in Nat /\ Cardinality(Later(Head(q))) \in Nat
      BY <3>1, FiniteNames
    <3>3. Cardinality(1 .. MaxFiles) <= Cardinality(Range(filenames_q_'))
      BY <2>2, <3>2, FS_Injection
    <3>4. Cardinality(1 .. MaxFiles) = MaxFiles
      BY <1>2, FS_Interval
    <3> QED BY <1>2, <3>2, <3>3, <3>4
  <2>7. LastAreThere'
    BY <1>1, <1>2, <1>3, <1>6, <2>3, <2>6 DEF Kept, LastAreThere
  <2>8. OthersAreGone'
    <3> SUFFICES ASSUME failed' \subseteq {"open"} PROVE known \cap There' \subseteq Range(filenames_q_')
      BY <1>1, <1>3 DEF OthersAreGone
    <3>1. files' = [files EXCEPT ![Head(q)] = NoFile] /\ failed' = failed
      BY <2>1
    <3>2. Head(q) \notin There'
      BY <1>2, <2>2, <3>1 DEF There, NoFile
    <3>3. known \cap There \subseteq Range(q) \cup {filename_}
      BY <1>2, <1>3, <3>1 DEF Kept, OthersAreGone
    <3> QED BY <2>2, <2>3, <3>2, <3>3
  <2> QED BY <2>5, <2>7, <2>8 DEF Kept
<1> QED BY <1>7, <1>8

(* Every step keeps the last files. *)
LEMMA NextRInv ==
    ASSUME RotateAt = 0
    PROVE  RInv /\ [Next]_vars => RInv'
<1> SUFFICES ASSUME RInv, [Next]_vars PROVE KnownInOrder' /\ Kept' /\ IInv'
  BY DEF RInv
<1>1. IInv' /\ IInv /\ FileTypeOK
  BY NextIInv, RetentionTypes DEF RInv
<1>2. CASE UNCHANGED vars \/ Tick \/ FlushSink \/ Destroy \/ Crash
  <2>1. /\ UNCHANGED <<known, filenames_q_, filename_, rotation_tp_, failed>>
        /\ UNCHANGED <<pc, shouldRotate>> \/ pc' = "none"
        /\ now' = now \/ now' = now + 1
        /\ UNCHANGED files \/ Close \/ Flush
    BY <1>2 DEF vars, fileVars, streamVars, callVars, Tick, FlushSink, Destroy, Crash, Flush,
                Close, StreamIsLost
  <2>2. There' = There
    BY <1>1, <2>1, ThereAfterClose DEF There
  <2>3. NameAt(now) <= NameAt(now)'
    <3>1. now \in Nat /\ now' \in Nat /\ now <= now'
      <4>1. now \in Nat
        BY <1>1, RetentionTypes
      <4> QED BY <2>1, <4>1
    <3> QED BY <3>1, NameMonotone
  <2> QED BY <1>1, <2>1, <2>2, <2>3, QuietRetention
<1>3. CASE Construct \/ ConstructThrows \/ ConstructRotation \/ ConstructQueue
  BY <1>1, <1>3, ConstructRetention
<1>4. CASE \E time \in Times : now - MaxDelay <= time /\ time <= now /\ SinkIt(time)
  BY <1>1, <1>4, SinkItRetention
<1>5. CASE OpenNext \/ OpenNextThrows
  BY <1>1, <1>5, OpenRetention
<1>6. CASE SetRotation
  BY <1>1, <1>6, SetRotationRetention
<1>7. CASE WriteMessage \/ WriteThrows
  BY <1>1, <1>7, WriteRetention
<1>8. CASE DeleteOld \/ DeleteOldThrows
  BY <1>1, <1>8, DeleteRetention
<1> QED BY <1>2, <1>3, <1>4, <1>5, <1>6, <1>7, <1>8 DEF Next

(* A sequence has no more elements than its length.                        *)
LEMMA RangeCardinality ==
    ASSUME NEW S, NEW q \in Seq(S)
    PROVE  IsFiniteSet(Range(q)) /\ Cardinality(Range(q)) <= Len(q)
<1>1. Len(q) \in Nat /\ q \in [1 .. Len(q) -> S] /\ DOMAIN q = 1 .. Len(q)
  BY LenProperties
<1>2. q \in Surjection(1 .. Len(q), Range(q))
  BY <1>1 DEF Surjection, Range
<1>3. IsFiniteSet(1 .. Len(q)) /\ Cardinality(1 .. Len(q)) = Len(q)
  BY <1>1, FS_Interval
<1> QED BY <1>2, <1>3, FS_Surjection

-----------------------------------------------------------------------------
(* The invariant holds in every state.                                     *)
THEOREM Invariant == Spec => []IInv
  BY InitIInv, NextIInv, PTL DEF Spec

(* Every variable keeps its type; among others, the queue of files never   *)
(* holds more than max_files names, so that its overrun is never needed    *)
(* (daily_file_sink.h:129-194).                                            *)
THEOREM TypeCorrect == Spec => []TypeOK
<1>1. IInv => TypeOK
  BY DEF IInv
<1> QED BY <1>1, Invariant, PTL

(* A file of an earlier period holds what arrived before the contents of a *)
(* later one, however late messages come, at whatever instant the sink     *)
(* rotates, and whatever fails (daily_file_sink.h:102-121,                 *)
(* hourly_file_sink.h:73-92).                                              *)
THEOREM FilesAlwaysInOrder == Spec => []FilesInOrder
<1>1. IInv => FilesInOrder
  BY DEF IInv
<1> QED BY <1>1, Invariant, PTL

(* Only a message that comes late can find the sink without a stream after *)
(* a file could not be opened (daily_file_sink.h:102-115).                 *)
THEOREM OnlyLateEverFindNoStream == Spec => []OnlyLateFindNoStream
<1>1. IInv => OnlyLateFindNoStream
  BY DEF IInv, Order
<1> QED BY <1>1, Invariant, PTL

(* If the sink rotates at the start of the period, then after each call,   *)
(* whatever fails and however often the process ends, the last max_files   *)
(* of the files that it knows are there; the others are gone unless one    *)
(* could not be written or removed (daily_file_sink.h:102-194).            *)
THEOREM LastFilesRetained ==
    ASSUME RotateAt = 0
    PROVE  Spec => []RetainsLastFiles
<1>1. Init => RInv
  <2>1. Init => KnownInOrder /\ Kept
    BY DEF Init, FileInit, KnownInOrder, Kept, There, NoFile, Queued, Rotating
  <2> QED BY <2>1, InitIInv DEF RInv
<1>2. RInv /\ [Next]_vars => RInv'
  BY NextRInv
<1>3. RInv => RetainsLastFiles
  <2> SUFFICES ASSUME RInv, pc = "idle", MaxFiles > 0
               PROVE  /\ LastAreThere
                      /\ failed \subseteq {"open"} => Cardinality(known \cap There) <= MaxFiles
    BY DEF RetainsLastFiles, LastAreThere, Later
  <2>1. LastAreThere /\ OthersAreGone /\ Current = {}
    BY DEF RInv, Kept, Queued, Current, Rotating
  <2>2. /\ filenames_q_ \in Seq(Names) /\ Len(filenames_q_) \in Nat
        /\ Len(filenames_q_) <= MaxFiles /\ MaxFiles \in Nat
        /\ Range(filenames_q_) \in SUBSET Names
    BY RetentionTypes, LenProperties DEF RInv, SinkTypeOK
  <2>3. Cardinality(Range(filenames_q_)) <= Len(filenames_q_)
    BY <2>2, RangeCardinality
  <2>4. ASSUME failed \subseteq {"open"} PROVE Cardinality(known \cap There) <= MaxFiles
    <3>1. known \cap There \in SUBSET Range(filenames_q_)
      BY <2>1, <2>4 DEF OthersAreGone
    <3>2. /\ Cardinality(known \cap There) \in Nat /\ Cardinality(Range(filenames_q_)) \in Nat
          /\ Cardinality(known \cap There) <= Cardinality(Range(filenames_q_))
      BY <2>2, <3>1, FiniteNames
    <3> QED BY <2>2, <2>3, <3>2
  <2> QED BY <2>1, <2>4
<1> QED BY <1>1, <1>2, <1>3, PTL DEF Spec
=============================================================================
