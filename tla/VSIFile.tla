------------------------------- MODULE VSIFile -------------------------------
(***************************************************************************)
(* Class VSIFile: an object that owns a handle of GDAL's virtual file      *)
(* system (VSIVirtualHandle), and the loop with which an R user reads a    *)
(* file until eof() is TRUE.                                               *)
(*                                                                         *)
(* One object, one file.  The library's handle is an external part, as     *)
(* the code uses it: reads and writes may be short and then set the error  *)
(* indicator, bytes written may stay in the handle until flush or close,   *)
(* and VSIFCloseL() frees the handle whatever it returns.                  *)
(***************************************************************************)
EXTENDS Integers, Sequences

CONSTANTS
    Byte,      \* bytes an R user writes
    Zero,      \* the byte of a gap
    MaxSize,   \* bound: size of the file
    MaxCount   \* bound: bytes read or written by one call

ASSUME VSIFileAssumption ==
    Zero \in Byte /\ MaxSize \in Nat /\ MaxCount \in Nat \ {0}

VARIABLES
    m_fp,       \* what the pointer points to: "null", "open" or "freed"
    m_access,   \* the access for the next open()
    reportVSIFErrorAsEof,
    mode,       \* the access of the open handle
    content,    \* the file as the handle sees it
    stored,     \* the file in storage
    pos,        \* the offset of the handle
    eof,        \* the end-of-file indicator of the handle
    error,      \* the error indicator of the handle
    misused,    \* a freed handle was used or freed again
    closeError, \* history: VSIFCloseL() has reported an error
    reader,     \* the user's loop: "off", "test", "read" or "done"
    start, got  \* where the loop began and what it has read

object == <<m_fp, m_access, reportVSIFErrorAsEof>>
handle == <<mode, content, pos, eof, error>>
loop   == <<reader, start, got>>
vars == <<object, handle, stored, misused, closeError, loop>>

\* set_access() takes any string of one to three characters: others than these
\* (binary forms, misspellings) mean one of these to open(), or make it fail
Access == {"r", "r+", "w", "w+"}
Creates(a)  == a \in {"w", "w+"}
Writable(a) == a # "r"
Readable(a) == a # "w"
Files == UNION {[1..n -> Byte] : n \in 0..MaxSize}

\* new(VSIFile) without a file name has the default access and no handle
Init ==
    /\ m_fp = "null" /\ m_access \in Access
    /\ reportVSIFErrorAsEof \in BOOLEAN
    /\ mode = m_access
    /\ stored \in Files /\ content = stored
    /\ pos = 0 /\ eof = FALSE /\ error = FALSE
    /\ misused = FALSE /\ closeError = FALSE
    /\ reader = "off" /\ start = 0 /\ got = << >>

\* R code calls one method at a time; no method is called during the loop
Idle == reader = "off" /\ ~misused

\* every method but open(), close() and set_access() raises an R error
\* when the pointer is null; a freed handle is used as if it were open
Uses == m_fp # "null"

Dangling ==
    /\ m_fp = "freed" /\ misused' = TRUE
    /\ UNCHANGED <<object, handle, stored, closeError, loop>>

-----------------------------------------------------------------------------
open ==
    /\ Idle /\ m_fp = "null"
    /\ m_fp' = "open"
    /\ mode' = m_access
    /\ content' = IF Creates(m_access) THEN << >> ELSE stored
    /\ stored' = content'
    /\ pos' = 0 /\ eof' = FALSE /\ error' = FALSE
    /\ UNCHANGED <<m_access, reportVSIFErrorAsEof, misused, closeError, loop>>

\* Fault: the pointer is kept in any case.
AfterClose_Kept(ok) == "freed"

\* the pointer is reset only if the library reported no error
AfterClose(ok) == IF ok THEN "null" ELSE "freed"

close ==
    /\ Idle /\ Uses
    /\ \/ Dangling
       \/ /\ m_fp = "open"
          /\ \E ok \in BOOLEAN :
                /\ m_fp' = AfterClose(ok)
                /\ closeError' = (closeError \/ ~ok)
                /\ stored' \in IF ok THEN {content} ELSE {content, stored}
          /\ UNCHANGED <<m_access, reportVSIFErrorAsEof, handle, misused, loop>>

\* the destructor, when R has collected the object; another one may follow
destroy ==
    /\ Idle /\ Uses
    /\ \/ Dangling
       \/ /\ m_fp = "open"
          /\ m_fp' = "null"
          /\ stored' \in {content, stored}
          /\ UNCHANGED <<m_access, reportVSIFErrorAsEof, handle, misused,
                         closeError, loop>>

\* Fault: the access is set while the file is open.
MaySetAccess_Always == TRUE

MaySetAccess == m_fp = "null"

set_access ==
    /\ Idle /\ MaySetAccess
    /\ m_access' \in Access
    /\ UNCHANGED <<m_fp, reportVSIFErrorAsEof, handle, stored, misused,
                   closeError, loop>>

\* the field that can be written from R
setReport ==
    /\ Idle
    /\ reportVSIFErrorAsEof' \in BOOLEAN
    /\ UNCHANGED <<m_fp, m_access, handle, stored, misused, closeError, loop>>

-----------------------------------------------------------------------------
\* the offset is unsigned; SEEK_SET, SEEK_CUR and SEEK_END
seek ==
    /\ Idle /\ Uses
    /\ \/ Dangling
       \/ /\ m_fp = "open"
          /\ \E offset \in 0..MaxSize, origin \in {0, pos, Len(content)} :
                pos' = origin + offset /\ pos' <= MaxSize
          /\ eof' = FALSE
          /\ UNCHANGED <<object, mode, content, error, stored, misused,
                         closeError, loop>>

rewind ==
    /\ Idle /\ Uses
    /\ \/ Dangling
       \/ /\ m_fp = "open"
          /\ pos' = 0 /\ eof' = FALSE
          /\ UNCHANGED <<object, mode, content, error, stored, misused,
                         closeError, loop>>

Left == IF pos < Len(content) THEN Len(content) - pos ELSE 0
Smaller(m, n) == IF m < n THEN m ELSE n

\* n bytes are asked for and k come: all there are, or fewer and an error
Reads(n, k) ==
    /\ k \in 0..Smaller(n, Left)
    /\ pos' = pos + k
    /\ error' = (error \/ k < Smaller(n, Left))
    /\ eof' = (eof \/ (n > Left /\ k = Left))

Taken(k) == SubSeq(content, pos + 1, pos + k)

read ==
    /\ Idle /\ Uses
    /\ \/ Dangling
       \/ /\ m_fp = "open" /\ Readable(mode)
          /\ \E n \in 1..MaxCount, k \in 0..MaxCount : Reads(n, k)
          /\ UNCHANGED <<object, mode, content, stored, misused, closeError,
                         loop>>

\* the file with bytes put at the offset, a gap filled with zeros
Put(bytes) ==
    [i \in 1..(IF pos + Len(bytes) > Len(content) THEN pos + Len(bytes)
                                                  ELSE Len(content)) |->
        IF i \in (pos + 1)..(pos + Len(bytes)) THEN bytes[i - pos]
        ELSE IF i <= Len(content) THEN content[i] ELSE Zero]

\* the number of bytes written is returned, fewer when there is an error;
\* the handle may keep them or write them through
write ==
    /\ Idle /\ Uses
    /\ \/ Dangling
       \/ /\ m_fp = "open" /\ Writable(mode)
          /\ \E n \in 1..MaxCount : \E bytes \in [1..n -> Byte], k \in 0..n :
                /\ pos + k <= MaxSize
                /\ content' = IF k = 0 THEN content ELSE Put(SubSeq(bytes, 1, k))
                /\ pos' = pos + k
                /\ error' = (error \/ k < n)
          /\ stored' \in {stored, content'}
          /\ UNCHANGED <<object, mode, eof, misused, closeError, loop>>

truncate ==
    /\ Idle /\ Uses
    /\ \/ Dangling
       \/ /\ m_fp = "open" /\ Writable(mode)
          /\ \E size \in 0..MaxSize :
                content' = [i \in 1..size |-> IF i <= Len(content)
                                               THEN content[i] ELSE Zero]
          /\ stored' \in {stored, content'}
          /\ UNCHANGED <<object, mode, pos, eof, error, misused, closeError, loop>>

flush ==
    /\ Idle /\ Uses
    /\ \/ Dangling
       \/ /\ m_fp = "open"
          /\ stored' \in {stored, content}
          /\ UNCHANGED <<object, handle, misused, closeError, loop>>

\* the whole file is read from its beginning, unless it is too large; where the
\* handle is then, and with which indicators, the library does not say
ingest ==
    /\ Idle /\ Uses
    /\ \/ Dangling
       \/ /\ m_fp = "open"
          /\ pos' \in 0..Len(content)
          /\ eof' \in BOOLEAN /\ error' \in {error, TRUE}
          /\ UNCHANGED <<object, mode, content, stored, misused, closeError, loop>>

\* tell() and eof() change nothing unless the handle is freed
tell == Idle /\ Uses /\ Dangling

-----------------------------------------------------------------------------
\* Fault: the error indicator is not looked at.
AtEnd_NoError == eof

\* Fault: a position at the end is taken for the end of the file.
AtEnd_ByPosition == pos + 1 >= Len(content) \/ (error /\ reportVSIFErrorAsEof)

\* what eof() returns
AtEnd == eof \/ (error /\ reportVSIFErrorAsEof)

(***************************************************************************)
(* The loop of a user: while (!vf$eof()) append the bytes of vf$read(n).   *)
(* It begins after open(), seek() or rewind(), not after a read beyond the *)
(* end, whose indicator would still be set.                                *)
(***************************************************************************)
BeginLoop ==
    /\ Idle /\ m_fp = "open" /\ Readable(mode) /\ ~eof
    /\ reader' = "test" /\ start' = pos /\ got' = << >>
    /\ UNCHANGED <<object, handle, stored, misused, closeError>>

LoopTest ==
    /\ reader = "test"
    /\ reader' = IF AtEnd THEN "done" ELSE "read"
    /\ UNCHANGED <<object, handle, stored, misused, closeError, start, got>>

LoopRead ==
    /\ reader = "read"
    /\ \E n \in 1..MaxCount, k \in 0..MaxCount :
          Reads(n, k) /\ got' = got \o Taken(k)
    /\ reader' = "test"
    /\ UNCHANGED <<object, mode, content, stored, misused, closeError, start>>

Loop == LoopTest \/ LoopRead

AfterLoop ==
    /\ reader = "done"
    /\ reader' = "off" /\ start' = 0 /\ got' = << >>
    /\ UNCHANGED <<object, handle, stored, misused, closeError>>

Next ==
    \/ open \/ close \/ destroy \/ set_access \/ setReport
    \/ seek \/ rewind \/ read \/ write \/ truncate \/ flush \/ ingest \/ tell
    \/ BeginLoop \/ Loop \/ AfterLoop

\* R code that has begun a loop goes on with it
Spec == Init /\ [][Next]_vars /\ WF_vars(Loop)

-----------------------------------------------------------------------------
(* The variables hold what they should.  get_access() tells the access of   *)
(* the open handle, and only a handle for writing has unwritten bytes.      *)
TypeOK ==
    /\ m_fp \in {"null", "open", "freed"}
    /\ {m_access, mode} \subseteq Access
    /\ m_fp = "open" => mode = m_access
    /\ {content, stored} \subseteq Files
    /\ m_fp = "open" /\ ~Writable(m_access) => stored = content
    /\ pos \in 0..MaxSize
    /\ {reportVSIFErrorAsEof, eof, error, misused, closeError} \subseteq BOOLEAN
    /\ reader \in {"off", "test", "read", "done"}
    /\ start \in 0..MaxSize /\ got \in Files

(***************************************************************************)
(* A handle is not used after it was freed and is freed once, in whatever  *)
(* order the methods are called, the destructor included: but for an       *)
(* object whose close() has reported an error.                             *)
(***************************************************************************)
HandleFreedOnce == misused => closeError

(***************************************************************************)
(* When the loop ends and no error occurred, it has read every byte from   *)
(* where it began to the end of the file, each once and in order, however  *)
(* many bytes each call asked for.                                         *)
(***************************************************************************)
LoopReadsAll ==
    reader = "done" /\ ~error =>
        got = SubSeq(content, start + 1, Len(content))

(***************************************************************************)
(* With reportVSIFErrorAsEof, the default, the loop ends, also when the    *)
(* file system reports errors for ever.                                    *)
(***************************************************************************)
LoopEnds == reader = "test" /\ reportVSIFErrorAsEof ~> reader = "done"
=============================================================================
