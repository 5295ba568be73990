---------------------------- MODULE VSIFileProofs ----------------------------
(* Proofs about VSIFile for files of any size and calls of any count.       *)
EXTENDS VSIFile, SequenceTheorems, TLAPS

(* A pointer to a freed handle is left only by a close() that reported an   *)
(* error: the destructor and a close() without error reset it.              *)
FreedByError == m_fp = "freed" \/ misused => closeError

(* While the loop runs the handle is open, what has been read is the file   *)
(* from where the loop began to the offset, the indicator is set only at    *)
(* the end, and the loop is over because eof() was TRUE.  The offset may be *)
(* beyond the end of the file only where the loop began.                    *)
LoopSoFar ==
    /\ reader = "off" => start = 0 /\ got = << >>
    /\ reader # "off" =>
           /\ m_fp = "open"
           /\ start <= pos /\ (start < pos => pos <= Len(content))
           /\ got = SubSeq(content, start + 1, pos)
           /\ eof => pos >= Len(content)
    /\ reader = "done" => AtEnd

IInv == TypeOK /\ FreedByError /\ LoopSoFar
-----------------------------------------------------------------------------
(* A file is a sequence of at most MaxSize bytes.                           *)
LEMMA FileIsSeq ==
  ASSUME NEW s \in Files
  PROVE  s \in Seq(Byte) /\ Len(s) \in 0..MaxSize /\ s \in [1..Len(s) -> Byte]
  <1>1. PICK n \in 0..MaxSize : s \in [1..n -> Byte]
    BY DEF Files
  <1>2. n \in Nat
    BY VSIFileAssumption
  <1>3. Len(s) = n /\ s \in Seq(Byte)
    BY <1>1, <1>2
  <1> QED BY <1>1, <1>3

LEMMA SeqIsFile ==
  ASSUME NEW s \in Seq(Byte), Len(s) <= MaxSize
  PROVE  s \in Files
  <1>1. Len(s) \in 0..MaxSize /\ s \in [1..Len(s) -> Byte]
    BY VSIFileAssumption
  <1> QED BY <1>1 DEF Files

LEMMA EmptyIsFile == << >> \in Files
  <1>1. << >> \in Seq(Byte) /\ Len(<< >>) <= MaxSize
    BY VSIFileAssumption
  <1> QED BY <1>1, SeqIsFile

(* A file of n bytes given one by one.                                      *)
LEMMA FunctionIsFile ==
  ASSUME NEW n \in 0..MaxSize, NEW s \in [1..n -> Byte]
  PROVE  s \in Files
  BY DEF Files

(* What k bytes read from the offset are.                                   *)
LEMMA TakenBytes ==
  ASSUME TypeOK, NEW n \in 1..MaxCount, NEW k \in 0..Smaller(n, Left)
  PROVE  /\ k \in Nat /\ pos + k \in 0..MaxSize
         /\ k > 0 => pos + k <= Len(content)
         /\ n > Left /\ k = Left => pos + k >= Len(content)
  <1>1. content \in Files /\ pos \in Nat /\ pos <= MaxSize /\ MaxSize \in Nat /\ MaxCount \in Nat
    BY VSIFileAssumption DEF TypeOK
  <1>2. Len(content) \in Nat /\ Len(content) <= MaxSize
    BY <1>1, FileIsSeq
  <1> QED BY <1>1, <1>2 DEF Smaller, Left

(* Bytes put at the offset make a file as long as the offset allows.        *)
LEMMA PutIsFile ==
  ASSUME TypeOK, NEW bytes \in Seq(Byte), pos + Len(bytes) <= MaxSize
  PROVE  Put(bytes) \in Files
  <1> DEFINE n == IF pos + Len(bytes) > Len(content) THEN pos + Len(bytes) ELSE Len(content)
  <1>1. content \in Files /\ pos \in Nat /\ Zero \in Byte /\ MaxSize \in Nat
    BY VSIFileAssumption DEF TypeOK
  <1>2. content \in Seq(Byte) /\ Len(content) \in Nat /\ Len(content) <= MaxSize
    BY <1>1, FileIsSeq
  <1>3. n \in 0..MaxSize
    BY <1>1, <1>2
  <1>4. \A i \in 1..n : Put(bytes)[i] \in Byte
    BY <1>1, <1>2 DEF Put
  <1>5. Put(bytes) \in [1..n -> Byte]
    BY <1>4 DEF Put
  <1> QED BY <1>3, <1>5, FunctionIsFile

LEMMA InitInv == Init => IInv
  <1> SUFFICES ASSUME Init PROVE IInv
    OBVIOUS
  <1>1. /\ m_fp = "null" /\ m_access \in Access /\ mode = m_access
        /\ stored \in Files /\ content = stored
    BY DEF Init
  <1>2. TypeOK
    <2>1. pos \in 0..MaxSize /\ start \in 0..MaxSize /\ got \in Files
      BY EmptyIsFile, VSIFileAssumption DEF Init
    <2>2. /\ {reportVSIFErrorAsEof, eof, error, misused, closeError} \subseteq BOOLEAN
          /\ reader = "off"
      BY DEF Init
    <2> QED BY <1>1, <2>1, <2>2 DEF TypeOK
  <1>3. FreedByError /\ LoopSoFar
    BY DEF Init, FreedByError, LoopSoFar
  <1> QED BY <1>2, <1>3 DEF IInv
-----------------------------------------------------------------------------
(* No method is called during the loop, so none of them disturbs it.        *)
LEMMA OutsideLoop ==
  ASSUME LoopSoFar, Idle, UNCHANGED loop
  PROVE  LoopSoFar'
  BY DEF LoopSoFar, Idle, loop

(* A method of an object whose handle was freed.                            *)
LEMMA DanglingKeeps ==
  ASSUME IInv, Idle, Dangling
  PROVE  IInv'
  <1>1. LoopSoFar'
    BY OutsideLoop DEF IInv, Dangling
  <1>2. FreedByError'
    BY DEF IInv, FreedByError, Dangling
  <1>3. TypeOK'
    BY DEF IInv, TypeOK, Dangling, object, handle, loop
  <1> QED BY <1>1, <1>2, <1>3 DEF IInv

LEMMA OpenKeeps ==
  ASSUME IInv, open
  PROVE  IInv'
  <1>1. LoopSoFar'
    BY OutsideLoop DEF IInv, open
  <1>2. FreedByError'
    BY DEF IInv, FreedByError, open
  <1>3. content' \in Files
    BY EmptyIsFile DEF IInv, TypeOK, open
  <1>4. TypeOK'
    <2>1. /\ m_fp' = "open" /\ mode' = m_access /\ stored' = content'
          /\ UNCHANGED <<m_access, reportVSIFErrorAsEof, misused, closeError,
                         reader, start, got>>
      BY DEF open, loop
    <2>2. pos' \in 0..MaxSize
      BY VSIFileAssumption DEF open
    <2>3. {reportVSIFErrorAsEof', eof', error', misused', closeError'} \subseteq BOOLEAN
      BY <2>1 DEF IInv, TypeOK, open
    <2> QED BY <1>3, <2>1, <2>2, <2>3 DEF IInv, TypeOK
  <1> QED BY <1>1, <1>2, <1>4 DEF IInv

LEMMA CloseKeeps ==
  ASSUME IInv, close
  PROVE  IInv'
  <1>1. CASE Dangling
    BY <1>1, DanglingKeeps DEF close
  <1>2. CASE ~ Dangling
    <2>1. PICK ok \in BOOLEAN :
            /\ m_fp' = AfterClose(ok)
            /\ closeError' = (closeError \/ ~ok)
            /\ stored' \in IF ok THEN {content} ELSE {content, stored}
      BY <1>2 DEF close
    <2>2. Idle /\ UNCHANGED <<m_access, reportVSIFErrorAsEof, handle, misused, loop>>
      BY <1>2 DEF close
    <2>3. LoopSoFar'
      BY <2>2, OutsideLoop DEF IInv
    <2>4. FreedByError'
      BY <2>1, <2>2 DEF IInv, FreedByError, AfterClose, Idle, TypeOK
    <2>5. TypeOK'
      BY <2>1, <2>2 DEF IInv, TypeOK, AfterClose, handle, loop
    <2> QED BY <2>3, <2>4, <2>5 DEF IInv
  <1> QED BY <1>1, <1>2

LEMMA DestroyKeeps ==
  ASSUME IInv, destroy
  PROVE  IInv'
  <1>1. CASE Dangling
    BY <1>1, DanglingKeeps DEF destroy
  <1>2. CASE ~ Dangling
    <2>1. /\ Idle /\ m_fp' = "null" /\ stored' \in {content, stored}
          /\ UNCHANGED <<m_access, reportVSIFErrorAsEof, handle, misused, closeError, loop>>
      BY <1>2 DEF destroy
    <2>2. LoopSoFar'
      BY <2>1, OutsideLoop DEF IInv
    <2>3. FreedByError'
      BY <2>1 DEF IInv, FreedByError
    <2>4. TypeOK'
      BY <2>1 DEF IInv, TypeOK, handle, loop
    <2> QED BY <2>2, <2>3, <2>4 DEF IInv
  <1> QED BY <1>1, <1>2

LEMMA SettersKeep ==
  ASSUME IInv, set_access \/ setReport
  PROVE  IInv'
  <1>1. Idle /\ UNCHANGED <<m_fp, handle, stored, misused, closeError, loop>>
    BY DEF set_access, setReport
  <1>2. LoopSoFar'
    BY <1>1, OutsideLoop DEF IInv
  <1>3. FreedByError'
    BY <1>1 DEF IInv, FreedByError
  <1>4. TypeOK'
    <2>1. CASE set_access
      <3>1. m_fp = "null" /\ m_access' \in Access /\ UNCHANGED reportVSIFErrorAsEof
        BY <2>1 DEF set_access, MaySetAccess
      <3> QED BY <1>1, <3>1 DEF IInv, TypeOK, handle, loop
    <2>2. CASE setReport
      <3>1. UNCHANGED m_access /\ reportVSIFErrorAsEof' \in BOOLEAN
        BY <2>2 DEF setReport
      <3> QED BY <1>1, <3>1 DEF IInv, TypeOK, handle, loop
    <2> QED BY <2>1, <2>2
  <1> QED BY <1>2, <1>3, <1>4 DEF IInv
-----------------------------------------------------------------------------
(* The methods that move the offset, or set the indicators, or flush.       *)
Moves ==
    /\ Idle /\ m_fp = "open"
    /\ pos' \in 0..MaxSize /\ eof' \in BOOLEAN /\ error' \in BOOLEAN
    /\ stored' \in {stored, content}
    /\ UNCHANGED <<object, mode, content, misused, closeError, loop>>

LEMMA MovesKeeps ==
  ASSUME IInv, Moves
  PROVE  IInv'
  <1>1. LoopSoFar'
    BY OutsideLoop DEF IInv, Moves
  <1>2. FreedByError'
    BY DEF IInv, FreedByError, Moves, object
  <1>3. TypeOK'
    BY DEF IInv, TypeOK, Moves, object, loop
  <1> QED BY <1>1, <1>2, <1>3 DEF IInv

LEMMA MoversMove ==
  ASSUME IInv, seek \/ rewind \/ read \/ flush \/ ingest \/ tell, ~ Dangling
  PROVE  Moves
  <1>1. /\ pos \in 0..MaxSize /\ MaxSize \in Nat /\ eof \in BOOLEAN /\ error \in BOOLEAN
        /\ Len(content) \in 0..MaxSize
    BY VSIFileAssumption, FileIsSeq DEF IInv, TypeOK
  <1>2. CASE seek
    <2>1. PICK offset \in 0..MaxSize, origin \in {0, pos, Len(content)} :
            pos' = origin + offset /\ pos' <= MaxSize
      BY <1>2 DEF seek
    <2>2. pos' \in 0..MaxSize
      BY <1>1, <2>1
    <2> QED BY <1>1, <1>2, <2>2 DEF seek, Moves
  <1>3. CASE rewind
    <2>1. /\ Idle /\ m_fp = "open" /\ pos' = 0 /\ eof' = FALSE
          /\ UNCHANGED <<object, mode, content, error, stored, misused, closeError, loop>>
      BY <1>3 DEF rewind
    <2>2. pos' \in 0..MaxSize
      BY <1>1, <2>1
    <2> QED BY <1>1, <2>1, <2>2 DEF Moves
  <1>4. CASE read
    <2>1. PICK n \in 1..MaxCount, k \in 0..MaxCount : Reads(n, k)
      BY <1>4 DEF read
    <2>2. pos' \in 0..MaxSize
      BY <2>1, TakenBytes DEF Reads, IInv
    <2>3. eof' \in BOOLEAN /\ error' \in BOOLEAN
      BY <2>1 DEF Reads
    <2> QED BY <1>4, <2>2, <2>3 DEF read, Moves
  <1>5. CASE flush
    BY <1>1, <1>5 DEF flush, Moves, handle
  <1>6. CASE ingest
    <2>1. /\ Idle /\ m_fp = "open" /\ pos' \in 0..Len(content)
          /\ eof' \in BOOLEAN /\ error' \in {error, TRUE}
          /\ UNCHANGED <<object, mode, content, stored, misused, closeError, loop>>
      BY <1>6 DEF ingest
    <2>2. pos' \in 0..MaxSize
      BY <1>1, <2>1
    <2> QED BY <1>1, <2>1, <2>2 DEF Moves
  <1>7. CASE tell
    BY <1>7 DEF tell
  <1> QED BY <1>2, <1>3, <1>4, <1>5, <1>6, <1>7

(* The methods that change the file.                                        *)
Changes ==
    /\ Idle /\ m_fp = "open" /\ Writable(mode)
    /\ content' \in Files /\ stored' \in {stored, content'}
    /\ pos' \in 0..MaxSize /\ error' \in BOOLEAN
    /\ UNCHANGED <<object, mode, eof, misused, closeError, loop>>

LEMMA ChangesKeeps ==
  ASSUME IInv, Changes
  PROVE  IInv'
  <1>1. LoopSoFar'
    BY OutsideLoop DEF IInv, Changes
  <1>2. FreedByError'
    BY DEF IInv, FreedByError, Changes, object
  <1>3. TypeOK'
    BY DEF IInv, TypeOK, Changes, object, loop
  <1> QED BY <1>1, <1>2, <1>3 DEF IInv

LEMMA WriteChanges ==
  ASSUME IInv, write, ~ Dangling
  PROVE  Changes
  <1>0. TypeOK /\ pos \in Nat /\ content \in Files /\ error \in BOOLEAN /\ MaxSize \in Nat
    BY VSIFileAssumption DEF IInv, TypeOK
  <1>n. PICK n \in 1..MaxCount : \E bytes \in [1..n -> Byte], k \in 0..n :
          /\ pos + k <= MaxSize
          /\ content' = IF k = 0 THEN content ELSE Put(SubSeq(bytes, 1, k))
          /\ pos' = pos + k
          /\ error' = (error \/ k < n)
    BY DEF write
  <1>1. PICK bytes \in [1..n -> Byte], k \in 0..n :
          /\ pos + k <= MaxSize
          /\ content' = IF k = 0 THEN content ELSE Put(SubSeq(bytes, 1, k))
          /\ pos' = pos + k
          /\ error' = (error \/ k < n)
    BY <1>n
  <1>2. k \in Nat /\ n \in Nat /\ k <= n
    BY VSIFileAssumption
  <1>3. SubSeq(bytes, 1, k) \in Seq(Byte) /\ (k > 0 => Len(SubSeq(bytes, 1, k)) = k)
    <2>1. \A i \in 1..k : bytes[i] \in Byte
      BY <1>2
    <2> QED BY <1>2, <2>1, SubSeqProperties
  <1>4. content' \in Files
    <2>1. CASE k = 0
      BY <1>0, <1>1, <2>1
    <2>2. CASE k > 0
      <3>1. pos + Len(SubSeq(bytes, 1, k)) <= MaxSize
        BY <1>1, <1>3, <2>2
      <3>2. Put(SubSeq(bytes, 1, k)) \in Files
        BY <1>0, <1>3, <3>1, PutIsFile
      <3> QED BY <1>1, <2>2, <3>2
    <2> QED BY <1>2, <2>1, <2>2
  <1>5. pos' \in 0..MaxSize /\ error' \in BOOLEAN
    BY <1>0, <1>1, <1>2
  <1> QED BY <1>4, <1>5 DEF write, Changes

LEMMA TruncateChanges ==
  ASSUME IInv, truncate, ~ Dangling
  PROVE  Changes
  <1>0. content \in Files /\ pos \in 0..MaxSize /\ error \in BOOLEAN /\ Zero \in Byte
    BY VSIFileAssumption DEF IInv, TypeOK
  <1>1. PICK size \in 0..MaxSize :
          content' = [i \in 1..size |-> IF i <= Len(content) THEN content[i] ELSE Zero]
    BY DEF truncate
  <1>2. content \in Seq(Byte) /\ Len(content) \in Nat
    BY <1>0, FileIsSeq
  <1>3. \A i \in 1..size : (IF i <= Len(content) THEN content[i] ELSE Zero) \in Byte
    BY <1>0, <1>2, VSIFileAssumption
  <1>4. content' \in [1..size -> Byte]
    BY <1>1, <1>3
  <1>5. content' \in Files
    BY <1>4, FunctionIsFile
  <1> QED BY <1>0, <1>5 DEF truncate, Changes
-----------------------------------------------------------------------------
(* The loop.                                                                *)

LEMMA BeginLoopKeeps ==
  ASSUME IInv, BeginLoop
  PROVE  IInv'
  <1>1. /\ m_fp = "open" /\ reader' = "test" /\ start' = pos /\ got' = << >> /\ ~ eof
        /\ UNCHANGED <<object, handle, stored, misused, closeError>>
    BY DEF BeginLoop
  <1>2. TypeOK'
    BY <1>1, EmptyIsFile DEF IInv, TypeOK, object, handle
  <1>3. FreedByError'
    BY <1>1 DEF IInv, FreedByError, object
  <1>4. LoopSoFar'
    <2>1. pos \in Nat /\ UNCHANGED <<m_fp, pos, eof, content>>
      BY <1>1, VSIFileAssumption DEF IInv, TypeOK, object, handle
    <2>2. SubSeq(content, pos + 1, pos) = << >>
      BY <2>1, SubSeqEmpty
    <2> QED BY <1>1, <2>1, <2>2 DEF LoopSoFar
  <1> QED BY <1>2, <1>3, <1>4 DEF IInv

LEMMA LoopTestKeeps ==
  ASSUME IInv, LoopTest
  PROVE  IInv'
  <1>1. /\ reader = "test" /\ reader' = IF AtEnd THEN "done" ELSE "read"
        /\ UNCHANGED <<object, handle, stored, misused, closeError, start, got>>
    BY DEF LoopTest
  <1>2. TypeOK'
    BY <1>1 DEF IInv, TypeOK, object, handle
  <1>3. FreedByError'
    BY <1>1 DEF IInv, FreedByError, object
  <1>4. LoopSoFar'
    BY <1>1 DEF IInv, LoopSoFar, AtEnd, object, handle
  <1> QED BY <1>2, <1>3, <1>4 DEF IInv

(* What a call reads continues what was read before.                        *)
LEMMA LoopReadKeeps ==
  ASSUME IInv, LoopRead
  PROVE  IInv'
  <1>1. PICK n \in 1..MaxCount, k \in 0..MaxCount :
          Reads(n, k) /\ got' = got \o Taken(k)
    BY DEF LoopRead
  <1>2. /\ reader = "read" /\ reader' = "test"
        /\ UNCHANGED <<object, mode, content, stored, misused, closeError, start>>
    BY DEF LoopRead
  <1>3. /\ k \in 0..Smaller(n, Left) /\ pos' = pos + k
        /\ error' = (error \/ k < Smaller(n, Left))
        /\ eof' = (eof \/ (n > Left /\ k = Left))
    BY <1>1 DEF Reads
  <1>4. /\ k \in Nat /\ pos + k \in 0..MaxSize
        /\ k > 0 => pos + k <= Len(content)
        /\ n > Left /\ k = Left => pos + k >= Len(content)
    BY <1>3, TakenBytes DEF IInv
  <1>5. /\ m_fp = "open" /\ start <= pos /\ (start < pos => pos <= Len(content))
        /\ got = SubSeq(content, start + 1, pos) /\ (eof => pos >= Len(content))
    BY <1>2 DEF IInv, LoopSoFar
  <1>6. /\ content \in Seq(Byte) /\ Len(content) \in Nat /\ Len(content) <= MaxSize
        /\ start \in Nat /\ pos \in Nat /\ MaxSize \in Nat
    <2>1. content \in Files /\ MaxSize \in Nat
      BY VSIFileAssumption DEF IInv, TypeOK
    <2> QED BY <2>1, FileIsSeq DEF IInv, TypeOK
  <1>7. got' = SubSeq(content, start + 1, pos + k)
    <2>1. CASE k = 0
      <3>1. Taken(k) = << >>
        BY <1>6, <2>1, SubSeqEmpty DEF Taken
      <3>2. SubSeq(content, start + 1, pos) \in Seq(Byte)
        BY <1>4, <1>5, <1>6, SubSeqProperties
      <3> QED BY <1>1, <1>4, <1>5, <1>6, <2>1, <3>1, <3>2
    <2>2. CASE k > 0
      <3>1. start + 1 \in 1..(Len(content) + 1)
        BY <1>4, <1>5, <1>6, <2>2
      <3>2. pos \in (start + 1) - 1..Len(content) /\ pos + k \in pos..Len(content)
        BY <1>4, <1>5, <1>6, <2>2
      <3> QED BY <1>1, <1>5, <1>6, <3>1, <3>2, ConcatAdjacentSubSeq DEF Taken
    <2> QED BY <1>4, <2>1, <2>2
  <1>8. got' \in Files
    <2>1. \A i \in (start + 1)..(pos + k) : content[i] \in Byte
      BY <1>4, <1>5, <1>6
    <2>2. got' \in Seq(Byte)
      BY <1>4, <1>6, <1>7, <2>1, SubSeqProperties
    <2>3. Len(got') <= MaxSize
      BY <1>4, <1>5, <1>6, <1>7, <2>1, SubSeqProperties
    <2> QED BY <2>2, <2>3, SeqIsFile
  <1>9. TypeOK'
    <2>1. eof' \in BOOLEAN /\ error' \in BOOLEAN /\ pos' \in 0..MaxSize
      BY <1>3, <1>4
    <2> QED BY <1>2, <1>8, <2>1 DEF IInv, TypeOK, object
  <1>10. FreedByError'
    BY <1>2 DEF IInv, FreedByError, object
  <1>11. LoopSoFar'
    <2>1. start <= pos' /\ (start < pos' => pos' <= Len(content))
      BY <1>3, <1>4, <1>5, <1>6
    <2>2. ASSUME eof' PROVE pos' >= Len(content)
      <3>1. CASE eof
        BY <1>3, <1>4, <1>5, <1>6, <3>1
      <3>2. CASE n > Left /\ k = Left
        BY <1>3, <1>4, <3>2
      <3> QED BY <1>3, <2>2, <3>1, <3>2
    <2>3. m_fp' = "open" /\ got' = SubSeq(content, start + 1, pos')
      BY <1>2, <1>3, <1>5, <1>7 DEF object
    <2> QED BY <1>2, <2>1, <2>2, <2>3 DEF LoopSoFar
  <1> QED BY <1>9, <1>10, <1>11 DEF IInv

LEMMA AfterLoopKeeps ==
  ASSUME IInv, AfterLoop
  PROVE  IInv'
  <1>1. /\ reader' = "off" /\ start' = 0 /\ got' = << >>
        /\ UNCHANGED <<object, handle, stored, misused, closeError>>
    BY DEF AfterLoop
  <1>2. TypeOK'
    BY <1>1, EmptyIsFile, VSIFileAssumption DEF IInv, TypeOK, object, handle
  <1>3. FreedByError' /\ LoopSoFar'
    BY <1>1 DEF IInv, FreedByError, LoopSoFar, object
  <1> QED BY <1>2, <1>3 DEF IInv

LEMMA StepInv == IInv /\ [Next]_vars => IInv'
  <1> SUFFICES ASSUME IInv, [Next]_vars PROVE IInv'
    OBVIOUS
  <1>1. CASE open
    BY <1>1, OpenKeeps
  <1>2. CASE close
    BY <1>2, CloseKeeps
  <1>3. CASE destroy
    BY <1>3, DestroyKeeps
  <1>4. CASE set_access \/ setReport
    BY <1>4, SettersKeep
  <1>5. CASE seek \/ rewind \/ read \/ flush \/ ingest \/ tell
    <2>1. Idle
      BY <1>5 DEF seek, rewind, read, flush, ingest, tell
    <2> QED BY <1>5, <2>1, DanglingKeeps, MoversMove, MovesKeeps
  <1>6. CASE write \/ truncate
    <2>1. Idle
      BY <1>6 DEF write, truncate
    <2> QED BY <1>6, <2>1, DanglingKeeps, WriteChanges, TruncateChanges, ChangesKeeps
  <1>7. CASE BeginLoop
    BY <1>7, BeginLoopKeeps
  <1>8. CASE Loop
    BY <1>8, LoopTestKeeps, LoopReadKeeps DEF Loop
  <1>9. CASE AfterLoop
    BY <1>9, AfterLoopKeeps
  <1>10. CASE UNCHANGED vars
    <2>1. UNCHANGED <<object, handle, stored, misused, closeError, loop>>
      BY <1>10 DEF vars
    <2>2. TypeOK' /\ FreedByError'
      BY <2>1 DEF IInv, TypeOK, FreedByError, object, handle, loop
    <2>3. LoopSoFar'
      BY <2>1 DEF IInv, LoopSoFar, AtEnd, object, handle, loop
    <2> QED BY <2>2, <2>3 DEF IInv
  <1> QED BY <1>1, <1>2, <1>3, <1>4, <1>5, <1>6, <1>7, <1>8, <1>9, <1>10 DEF Next

-----------------------------------------------------------------------------
(* get_access() tells the access of the open handle, only a handle for      *)
(* writing has unwritten bytes, and no call leaves the variables' sets.     *)
THEOREM TypeCorrect == Spec => []TypeOK
  <1>1. IInv => TypeOK
    BY DEF IInv
  <1> QED BY <1>1, InitInv, StepInv, PTL DEF Spec

(* In any order of the methods a handle is freed once and not used after,   *)
(* but for an object whose close() has reported an error.                   *)
THEOREM FreedOnce == Spec => []HandleFreedOnce
  <1>1. IInv => HandleFreedOnce
    BY DEF IInv, FreedByError, HandleFreedOnce
  <1> QED BY <1>1, InitInv, StepInv, PTL DEF Spec

(* A loop over eof() and read() that met no error has read the rest of the  *)
(* file, each byte once and in order, for any sizes of the reads.           *)
THEOREM LoopIsComplete == Spec => []LoopReadsAll
  <1>1. IInv => LoopReadsAll
    <2> SUFFICES ASSUME IInv, reader = "done", ~ error
                 PROVE  got = SubSeq(content, start + 1, Len(content))
      BY DEF LoopReadsAll
    <2>1. eof
      BY DEF IInv, LoopSoFar, AtEnd
    <2>2. /\ start <= pos /\ (start < pos => pos <= Len(content))
          /\ got = SubSeq(content, start + 1, pos) /\ pos >= Len(content)
      BY <2>1 DEF IInv, LoopSoFar
    <2>3. start \in Nat /\ pos \in Nat /\ Len(content) \in Nat
      BY VSIFileAssumption, FileIsSeq DEF IInv, TypeOK
    <2>4. CASE start < pos
      BY <2>2, <2>3, <2>4
    <2>5. CASE start = pos
      <3>1. got = << >>
        BY <2>2, <2>3, <2>5, SubSeqEmpty
      <3>2. SubSeq(content, start + 1, Len(content)) = << >>
        BY <2>2, <2>3, <2>5, SubSeqEmpty
      <3> QED BY <3>1, <3>2
    <2> QED BY <2>2, <2>3, <2>4, <2>5
  <1> QED BY <1>1, InitInv, StepInv, PTL DEF Spec
-----------------------------------------------------------------------------
(* What is left of the loop: the bytes to come and the sign that ends it,   *)
(* each of which takes a read() and a look at eof().                        *)
Pending  == Left + IF AtEnd THEN 0 ELSE 1
Distance == 2 * Pending + IF reader = "test" THEN 1 ELSE 0

NearsEnd ==
    reader \in {"test", "read"} /\ reportVSIFErrorAsEof =>
        Distance \in Nat /\ Distance' \in Nat /\ Distance' < Distance

(* A call of read() that is not the last one gets at least a byte.          *)
LEMMA ReadLowersPending ==
  ASSUME IInv, LoopRead, reportVSIFErrorAsEof, ~ AtEnd
  PROVE  Pending \in Nat /\ Pending' \in Nat /\ Pending' < Pending
  <1>1. PICK n \in 1..MaxCount, k \in 0..MaxCount : Reads(n, k)
    BY DEF LoopRead
  <1>2. /\ k \in 0..Smaller(n, Left) /\ pos' = pos + k
        /\ error' = (error \/ k < Smaller(n, Left))
        /\ eof' = (eof \/ (n > Left /\ k = Left))
        /\ content' = content /\ reportVSIFErrorAsEof' = reportVSIFErrorAsEof
    BY <1>1 DEF Reads, LoopRead, object
  <1>3. n \in Nat \ {0} /\ pos \in Nat /\ Len(content) \in Nat
    BY VSIFileAssumption, FileIsSeq DEF IInv, TypeOK
  <1>4. Left \in Nat /\ (Left > 0 => Left = Len(content) - pos)
    BY <1>3 DEF Left
  <1>5. k \in Nat /\ k <= Left /\ k <= n /\ (k < n => k = Left \/ k < Smaller(n, Left))
    BY <1>2, <1>3, <1>4 DEF Smaller
  <1>6. Left' \in Nat /\ Left' <= Left /\ (k > 0 => Left' < Left)
    BY <1>2, <1>3, <1>4, <1>5 DEF Left
  <1>7. ~ AtEnd' => k = n
    <2>1. k < Smaller(n, Left) \/ (n > Left /\ k = Left) \/ k = n
      BY <1>3, <1>4, <1>5 DEF Smaller
    <2>2. k < Smaller(n, Left) => error' /\ reportVSIFErrorAsEof'
      BY <1>2
    <2>3. n > Left /\ k = Left => eof'
      BY <1>2
    <2> QED BY <2>1, <2>2, <2>3, Zenon DEF AtEnd
  <1>8. Pending = Left + 1
    BY DEF Pending
  <1>9. CASE AtEnd'
    <2>1. Pending' = Left' + 0
      BY <1>9, Zenon DEF Pending
    <2>2. \A a, b \in Nat : b <= a => a + 1 \in Nat /\ b + 0 \in Nat /\ b + 0 < a + 1
      OBVIOUS
    <2> QED BY <1>4, <1>6, <1>8, <2>1, <2>2, Zenon
  <1>10. CASE ~ AtEnd'
    <2>1. Pending' = Left' + 1
      BY <1>10, Zenon DEF Pending
    <2>2. k = n
      BY <1>7, <1>10, Zenon
    <2>3. Left' < Left
      BY <1>3, <1>6, <2>2
    <2>4. \A a, b \in Nat : b < a => a + 1 \in Nat /\ b + 1 \in Nat /\ b + 1 < a + 1
      OBVIOUS
    <2> QED BY <1>4, <1>6, <1>8, <2>1, <2>3, <2>4, Zenon
  <1> QED BY <1>9, <1>10

(* The loop is begun again only by the user, and read() is called only when *)
(* eof() has been FALSE.                                                    *)
LEMMA ReadsBeforeEnd ==
  ASSUME [Next]_vars, reader = "read" => ~ AtEnd
  PROVE  (reader = "read" => ~ AtEnd)'
  <1>1. CASE Next
    <2>1. CASE LoopTest
      BY <2>1 DEF LoopTest, AtEnd, object, handle
    <2>2. CASE LoopRead \/ BeginLoop \/ AfterLoop
      BY <2>2 DEF LoopRead, BeginLoop, AfterLoop
    <2>3. CASE Idle /\ UNCHANGED loop
      BY <2>3 DEF Idle, loop
    <2>4. (Idle /\ UNCHANGED loop) \/ LoopTest \/ LoopRead \/ BeginLoop \/ AfterLoop
      BY <1>1 DEF Next, Loop, open, close, destroy, set_access, setReport, seek, rewind,
                  read, write, truncate, flush, ingest, tell, Dangling
    <2> QED BY <2>1, <2>2, <2>3, <2>4
  <1>2. CASE UNCHANGED vars
    BY <1>2 DEF vars, object, handle, loop, AtEnd
  <1> QED BY <1>1, <1>2

(* The safety half of LoopEnds, for files and reads of any size: as long as *)
(* the loop of an object with reportVSIFErrorAsEof runs, only the loop has  *)
(* the turn and every step of it brings its end nearer, also when every     *)
(* read fails.                                                              *)
THEOREM LoopNearsEnd == Spec => [][NearsEnd]_vars
  <1> DEFINE NotAtEnd == reader = "read" => ~ AtEnd
  <1>1. Init => NotAtEnd
    BY DEF Init
  <1>2. NotAtEnd /\ [Next]_vars => NotAtEnd'
    BY ReadsBeforeEnd
  <1>3. IInv /\ NotAtEnd /\ [Next]_vars => [NearsEnd]_vars
    <2> SUFFICES ASSUME IInv, NotAtEnd, Next, reader \in {"test", "read"},
                        reportVSIFErrorAsEof
                 PROVE  Distance \in Nat /\ Distance' \in Nat /\ Distance' < Distance
      BY DEF NearsEnd
    <2>1. Loop
      BY DEF Next, open, close, destroy, set_access, setReport, seek, rewind, read, write,
             truncate, flush, ingest, tell, BeginLoop, AfterLoop, Idle
    <2>2. CASE LoopRead
      <3>1. reader = "read" /\ reader' = "test"
        BY <2>2 DEF LoopRead
      <3>2. Pending \in Nat /\ Pending' \in Nat /\ Pending' < Pending
        BY <2>2, <3>1, ReadLowersPending
      <3>3. Distance = 2 * Pending /\ Distance' = 2 * Pending' + 1
        BY <3>1, <3>2 DEF Distance
      <3>4. \A a, b \in Nat :
               b < a => 2 * a \in Nat /\ 2 * b + 1 \in Nat /\ 2 * b + 1 < 2 * a
        OBVIOUS
      <3> QED BY <3>2, <3>3, <3>4, Zenon
    <2>3. CASE LoopTest
      <3>1. reader = "test" /\ reader' # "test" /\ UNCHANGED <<object, handle>>
        BY <2>3 DEF LoopTest
      <3>2. pos \in Nat /\ Len(content) \in Nat
        BY VSIFileAssumption, FileIsSeq DEF IInv, TypeOK
      <3>3. Pending \in Nat /\ Pending' = Pending
        <4>1. Left \in Nat
          BY <3>2 DEF Left
        <4>2. Left' = Left /\ AtEnd' = AtEnd
          BY <3>1 DEF object, handle, Left, AtEnd
        <4> QED BY <4>1, <4>2 DEF Pending
      <3>4. Distance = 2 * Pending + 1 /\ Distance' = 2 * Pending
        BY <3>1, <3>3 DEF Distance
      <3> QED BY <3>3, <3>4
    <2> QED BY <2>1, <2>2, <2>3 DEF Loop
  <1> QED BY <1>1, <1>2, <1>3, InitInv, StepInv, PTL DEF Spec
=============================================================================
