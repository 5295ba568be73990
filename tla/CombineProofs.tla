---------------------------- MODULE CombineProofs ----------------------------
(* Proofs about CmbTable for any set of combinations and increments, and    *)
(* about combine() for rasters of any size and any pixel values.            *)
EXTENDS Combine, FiniteSetTheorems, TLAPS

(* The IDs are 1..m_last_ID, none missing and none twice, and an ID that    *)
(* was returned is never withdrawn: TypeOK supplies the arithmetic, and     *)
(* IDsAreDense alone is what makes m_last_ID + 1 a fresh ID.                *)
IInv == TypeOK /\ IDsAreDense /\ ReturnedIDsStayValid

LEMMA InitIInv == Init => IInv
  <1> SUFFICES ASSUME Init PROVE IInv
    OBVIOUS
  <1>1. DOMAIN m_cmb_map = {} /\ m_last_ID = 0 /\ log = <<>>
    BY DEF Init
  <1>2. TypeOK
    BY <1>1 DEF TypeOK, Init, Entry
  <1>3. IDsAreDense
    BY <1>1 DEF IDsAreDense
  <1>4. ReturnedIDsStayValid
    BY <1>1 DEF ReturnedIDsStayValid
  <1> QED BY <1>2, <1>3, <1>4 DEF IInv

(* A call to update() adds the visited combination and nothing else. *)
LEMMA UpdateInsertsHead ==
  ASSUME TypeOK, update
  PROVE  /\ Head(todo) \in Key
         /\ DOMAIN m_cmb_map' = DOMAIN m_cmb_map \cup {Head(todo)}
         /\ m_cmb_map'[Head(todo)] = [ID |-> NextID(Head(todo)), count |-> NextCount(Head(todo))]
         /\ \A k \in DOMAIN m_cmb_map : k # Head(todo) => m_cmb_map'[k] = m_cmb_map[k]
         /\ m_last_ID' = LastID(Head(todo))
         /\ log' = Append(log, [key |-> Head(todo), incr |-> incr, ID |-> NextID(Head(todo))])
  <1>1. Head(todo) \in Key
    BY DEF TypeOK, update
  <1> QED BY <1>1 DEF update, Insert

(* The ID of the visited combination: the stored one, or m_last_ID + 1. *)
LEMMA NextIDCases ==
  ASSUME TypeOK, IDsAreDense, NEW key \in Key
  PROVE  /\ NextID(key) \in Nat /\ NextCount(key) \in Nat /\ LastID(key) \in Nat
         /\ key \in DOMAIN m_cmb_map =>
               NextID(key) = m_cmb_map[key].ID /\ LastID(key) = m_last_ID
         /\ key \notin DOMAIN m_cmb_map =>
               NextID(key) = m_last_ID + 1 /\ LastID(key) = m_last_ID + 1
  <1>1. incr \in Nat /\ m_last_ID \in Nat
    BY CmbAssumption DEF TypeOK
  <1>2. CASE key \in DOMAIN m_cmb_map
    <2>1. m_cmb_map[key] \in Entry /\ m_cmb_map[key].ID \in 1..m_last_ID
      BY <1>2 DEF TypeOK, IDsAreDense
    <2> QED BY <1>1, <1>2, <2>1 DEF NextID, NextCount, LastID, Lookup, Entry
  <1>3. CASE key \notin DOMAIN m_cmb_map
    BY <1>1, <1>3 DEF NextID, NextCount, LastID, Lookup
  <1> QED BY <1>2, <1>3

LEMMA UpdateIInv == IInv /\ update => IInv'
  <1> SUFFICES ASSUME IInv, update PROVE IInv'
    OBVIOUS
  <1> DEFINE key == Head(todo)
  <1>0. TypeOK /\ IDsAreDense /\ ReturnedIDsStayValid
    BY DEF IInv
  <1>1. /\ key \in Key
        /\ DOMAIN m_cmb_map' = DOMAIN m_cmb_map \cup {key}
        /\ m_cmb_map'[key] = [ID |-> NextID(key), count |-> NextCount(key)]
        /\ \A k \in DOMAIN m_cmb_map : k # key => m_cmb_map'[k] = m_cmb_map[k]
        /\ m_last_ID' = LastID(key)
        /\ log' = Append(log, [key |-> key, incr |-> incr, ID |-> NextID(key)])
    BY <1>0, UpdateInsertsHead
  <1>2. /\ NextID(key) \in Nat /\ NextCount(key) \in Nat /\ LastID(key) \in Nat
        /\ key \in DOMAIN m_cmb_map =>
              NextID(key) = m_cmb_map[key].ID /\ LastID(key) = m_last_ID
        /\ key \notin DOMAIN m_cmb_map =>
              NextID(key) = m_last_ID + 1 /\ LastID(key) = m_last_ID + 1
    BY <1>0, <1>1, NextIDCases
  <1> HIDE DEF key
  <1>3. TypeOK'
    <2>1. DOMAIN m_cmb_map' \subseteq Key
      BY <1>0, <1>1 DEF TypeOK
    <2>2. m_cmb_map' \in [DOMAIN m_cmb_map' -> Entry]
      <3>1. \A k \in DOMAIN m_cmb_map' : m_cmb_map'[k] \in Entry
        BY <1>0, <1>1, <1>2 DEF TypeOK, Entry
      <3>2. m_cmb_map' = [k \in DOMAIN m_cmb_map' |-> m_cmb_map'[k]]
        BY DEF update, Insert
      <3> QED BY <3>1, <3>2
    <2>3. todo' \in Seq(Key) /\ incr' \in Increment
      BY <1>0 DEF TypeOK, update
    <2>4. out' \in Seq(Nat)
      BY <1>0, <1>2 DEF TypeOK, update, key
    <2>5. log' \in Seq([key : Key, incr : Increment, ID : Nat])
      BY <1>0, <1>1, <1>2 DEF TypeOK
    <2> QED BY <1>1, <1>2, <2>1, <2>2, <2>3, <2>4, <2>5 DEF TypeOK
  <1>4. IDsAreDense'
    <2>1. CASE key \in DOMAIN m_cmb_map
      <3>1. DOMAIN m_cmb_map' = DOMAIN m_cmb_map /\ m_last_ID' = m_last_ID
        BY <1>1, <1>2, <2>1
      <3>2. \A k \in DOMAIN m_cmb_map : m_cmb_map'[k].ID = m_cmb_map[k].ID
        BY <1>1, <1>2, <2>1
      <3> QED BY <1>0, <3>1, <3>2 DEF IDsAreDense
    <2>2. CASE key \notin DOMAIN m_cmb_map
      <3>1. m_last_ID' = m_last_ID + 1 /\ m_last_ID \in Nat
        BY <1>0, <1>1, <1>2, <2>2 DEF TypeOK
      <3>2. m_cmb_map'[key].ID = m_last_ID + 1
        BY <1>1, <1>2, <2>2
      <3>3. \A k \in DOMAIN m_cmb_map :
               m_cmb_map'[k].ID = m_cmb_map[k].ID /\ m_cmb_map[k].ID \in 1..m_last_ID
        BY <1>0, <1>1, <2>2 DEF IDsAreDense
      <3>4. \A k \in DOMAIN m_cmb_map' : m_cmb_map'[k].ID \in 1..m_last_ID'
        BY <1>1, <3>1, <3>2, <3>3
      <3>5. \A k, l \in DOMAIN m_cmb_map' : m_cmb_map'[k].ID = m_cmb_map'[l].ID => k = l
        BY <1>0, <1>1, <3>1, <3>2, <3>3 DEF IDsAreDense
      <3>6. \A id \in 1..m_last_ID' : \E k \in DOMAIN m_cmb_map' : m_cmb_map'[k].ID = id
        <4> TAKE id \in 1..m_last_ID'
        <4>1. CASE id = m_last_ID + 1
          BY <1>1, <3>2, <4>1
        <4>2. CASE id \in 1..m_last_ID
          BY <1>0, <1>1, <3>3, <4>2 DEF IDsAreDense
        <4> QED BY <3>1, <4>1, <4>2
      <3> QED BY <3>4, <3>5, <3>6 DEF IDsAreDense
    <2> QED BY <2>1, <2>2
  <1>5. ReturnedIDsStayValid'
    <2>1. \A k \in DOMAIN m_cmb_map :
             k \in DOMAIN m_cmb_map' /\ m_cmb_map'[k].ID = m_cmb_map[k].ID
      BY <1>1, <1>2
    <2>2. key \in DOMAIN m_cmb_map' /\ m_cmb_map'[key].ID = NextID(key)
      BY <1>1, <1>2
    <2>3. log \in Seq([key : Key, incr : Increment, ID : Nat])
      BY <1>0 DEF TypeOK
    <2>4. /\ DOMAIN log' = 1..(Len(log) + 1)
          /\ \A i \in DOMAIN log : log'[i] = log[i]
          /\ log'[Len(log) + 1] = [key |-> key, incr |-> incr, ID |-> NextID(key)]
      BY <1>1, <2>3
    <2>5. \A i \in DOMAIN log' : i \in DOMAIN log \/ i = Len(log) + 1
      BY <2>3, <2>4
    <2> QED BY <1>0, <2>1, <2>2, <2>4, <2>5 DEF ReturnedIDsStayValid
  <1> QED BY <1>3, <1>4, <1>5 DEF IInv

LEMMA CallIInv ==
  ASSUME IInv, NEW columns \in Matrices, updateFromMatrix(columns)
  PROVE  IInv'
  <1>1. columns \in Seq(Key)
    BY DEF Matrices
  <1>2. TypeOK'
    BY <1>1 DEF IInv, TypeOK, updateFromMatrix
  <1>3. IDsAreDense' /\ ReturnedIDsStayValid'
    BY DEF IInv, IDsAreDense, ReturnedIDsStayValid, updateFromMatrix
  <1> QED BY <1>2, <1>3 DEF IInv

LEMMA StepIInv == IInv /\ [Next]_vars => IInv'
  <1> SUFFICES ASSUME IInv, [Next]_vars PROVE IInv'
    OBVIOUS
  <1>1. CASE update
    BY <1>1, UpdateIInv
  <1>2. CASE \E columns \in Matrices : updateFromMatrix(columns)
    BY <1>2, CallIInv
  <1>3. CASE UNCHANGED vars
    BY <1>3 DEF IInv, TypeOK, IDsAreDense, ReturnedIDsStayValid, vars
  <1> QED BY <1>1, <1>2, <1>3 DEF Next

(* The table numbers its combinations 1..n without gap or duplicate. *)
THEOREM DenseIDs == Spec => []IDsAreDense
  <1>1. IInv => IDsAreDense
    BY DEF IInv
  <1> QED BY <1>1, InitIInv, StepIInv, PTL DEF Spec

(* An ID that was returned denotes the same combination for ever. *)
THEOREM ValidIDs == Spec => []ReturnedIDsStayValid
  <1>1. IInv => ReturnedIDsStayValid
    BY DEF IInv
  <1> QED BY <1>1, InitIInv, StepIInv, PTL DEF Spec

(* The table is always well formed. *)
THEOREM TypeCorrect == Spec => []TypeOK
  <1>1. IInv => TypeOK
    BY DEF IInv
  <1> QED BY <1>1, InitIInv, StepIInv, PTL DEF Spec
-----------------------------------------------------------------------------
(* The table implements the count of module CmbCount.  The abstract number  *)
(* of a combination is one more than the number of combinations seen, the   *)
(* table's is one more than m_last_ID: they agree because m_last_ID is the  *)
(* size of the table.                                                       *)
SizeInv ==
    /\ IsFiniteSet(DOMAIN m_cmb_map)
    /\ Cardinality(DOMAIN m_cmb_map) = m_last_ID

LEMMA InitSizeInv == Init => SizeInv
  <1> SUFFICES ASSUME Init PROVE SizeInv
    OBVIOUS
  <1>1. DOMAIN m_cmb_map = {} /\ m_last_ID = 0
    BY DEF Init
  <1> QED BY <1>1, FS_EmptySet DEF SizeInv

LEMMA StepSizeInv == IInv /\ SizeInv /\ [Next]_vars => SizeInv'
  <1> SUFFICES ASSUME IInv, SizeInv, [Next]_vars PROVE SizeInv'
    OBVIOUS
  <1>1. CASE update
    <2>1. TypeOK /\ IDsAreDense
      BY DEF IInv
    <2>2. /\ Head(todo) \in Key
          /\ DOMAIN m_cmb_map' = DOMAIN m_cmb_map \cup {Head(todo)}
          /\ m_last_ID' = LastID(Head(todo))
      BY <1>1, <2>1, UpdateInsertsHead
    <2>3. CASE Head(todo) \in DOMAIN m_cmb_map
      BY <2>1, <2>2, <2>3, NextIDCases DEF SizeInv
    <2>4. CASE Head(todo) \notin DOMAIN m_cmb_map
      <3>1. m_last_ID' = m_last_ID + 1
        BY <2>1, <2>2, <2>4, NextIDCases
      <3>2. /\ IsFiniteSet(DOMAIN m_cmb_map')
            /\ Cardinality(DOMAIN m_cmb_map') = Cardinality(DOMAIN m_cmb_map) + 1
        BY <2>2, <2>4, FS_AddElement DEF SizeInv
      <3> QED BY <3>1, <3>2 DEF SizeInv
    <2> QED BY <2>3, <2>4
  <1>2. CASE \E columns \in Matrices : updateFromMatrix(columns)
    BY <1>2 DEF SizeInv, updateFromMatrix
  <1>3. CASE UNCHANGED vars
    BY <1>3 DEF SizeInv, vars
  <1> QED BY <1>1, <1>2, <1>3 DEF Next

(* The IDs and the counts of the table, as the abstract variables.          *)
IDsOf == [k \in DOMAIN m_cmb_map |-> m_cmb_map[k].ID]
CountsOf == [k \in DOMAIN m_cmb_map |-> m_cmb_map[k].count]

LEMMA InitIsCount == Init => Counter!Init
  <1> SUFFICES ASSUME Init PROVE Counter!Init
    OBVIOUS
  <1>1. DOMAIN m_cmb_map = {}
    BY DEF Init
  <1> QED BY <1>1 DEF Counter!Init

(* The size of a set is the same in both modules.                           *)
LEMMA SameSize == \A S : Counter!Cardinality(S) = Cardinality(S)
  BY DEF Cardinality, Counter!Cardinality

(* A known combination keeps its ID and its count grows.                    *)
LEMMA KnownIsSeenAgain ==
  ASSUME IInv, update, Head(todo) \in DOMAIN m_cmb_map
  PROVE  Counter!SeenAgain(Head(todo), incr)
  <1> DEFINE key == Head(todo)
  <1>0. TypeOK /\ IDsAreDense
    BY DEF IInv
  <1>1. /\ key \in Key
        /\ DOMAIN m_cmb_map' = DOMAIN m_cmb_map
        /\ m_cmb_map'[key] = [ID |-> NextID(key), count |-> NextCount(key)]
        /\ \A k \in DOMAIN m_cmb_map : k # key => m_cmb_map'[k] = m_cmb_map[k]
    BY <1>0, UpdateInsertsHead
  <1>2. NextID(key) = m_cmb_map[key].ID /\ NextCount(key) = m_cmb_map[key].count + incr
    BY <1>0, <1>1, NextIDCases DEF NextCount, Lookup
  <1> HIDE DEF key
  <1>3. \A k \in DOMAIN m_cmb_map :
           /\ m_cmb_map'[k].ID = m_cmb_map[k].ID
           /\ m_cmb_map'[k].count = IF k = key THEN m_cmb_map[key].count + incr
                                               ELSE m_cmb_map[k].count
    BY <1>1, <1>2
  <1>4. IDsOf' = IDsOf
    BY <1>1, <1>3 DEF IDsOf
  <1>5. CountsOf' = [CountsOf EXCEPT ![key] = @ + incr]
    BY <1>1, <1>3 DEF CountsOf
  <1>6. key \in DOMAIN IDsOf
    BY DEF IDsOf, key
  <1> QED BY <1>4, <1>5, <1>6
          DEF Counter!SeenAgain, Counter!Seen, IDsOf, CountsOf, key

(* A new combination gets the next number, and the increment as its count.  *)
LEMMA NewIsFirstSight ==
  ASSUME IInv, SizeInv, update, Head(todo) \notin DOMAIN m_cmb_map
  PROVE  Counter!FirstSight(Head(todo), incr)
  <1> DEFINE key == Head(todo)
  <1>0. TypeOK /\ IDsAreDense /\ incr \in Nat
    BY CmbAssumption DEF IInv, TypeOK
  <1>1. /\ key \in Key
        /\ DOMAIN m_cmb_map' = DOMAIN m_cmb_map \cup {key}
        /\ m_cmb_map'[key] = [ID |-> NextID(key), count |-> NextCount(key)]
        /\ \A k \in DOMAIN m_cmb_map : k # key => m_cmb_map'[k] = m_cmb_map[k]
    BY <1>0, UpdateInsertsHead
  <1>2. NextID(key) = m_last_ID + 1 /\ NextCount(key) = incr
    BY <1>0, <1>1, NextIDCases DEF NextCount, Lookup
  <1> HIDE DEF key
  <1>3. DOMAIN IDsOf = DOMAIN m_cmb_map /\ key \notin DOMAIN m_cmb_map
    BY DEF IDsOf, key
  <1>4. m_last_ID = Cardinality(DOMAIN IDsOf)
    BY <1>3 DEF SizeInv
  <1>5. IDsOf' = [k \in DOMAIN IDsOf \cup {key} |->
                    IF k = key THEN Cardinality(DOMAIN IDsOf) + 1 ELSE IDsOf[k]]
    BY <1>1, <1>2, <1>3, <1>4 DEF IDsOf
  <1>6. CountsOf' = [k \in DOMAIN IDsOf \cup {key} |->
                       IF k = key THEN incr ELSE CountsOf[k]]
    BY <1>1, <1>2, <1>3 DEF CountsOf
  <1> QED BY <1>3, <1>5, <1>6, SameSize
          DEF Counter!FirstSight, Counter!Seen, IDsOf, CountsOf, key

LEMMA StepIsCount ==
  ASSUME IInv, SizeInv, [Next]_vars
  PROVE  [Counter!Next]_<<IDsOf, CountsOf>>
  <1>1. CASE update
    <2>1. Head(todo) \in Key /\ incr \in Increment
      BY <1>1, UpdateInsertsHead DEF IInv, TypeOK
    <2>2. Counter!FirstSight(Head(todo), incr) \/ Counter!SeenAgain(Head(todo), incr)
      BY <1>1, KnownIsSeenAgain, NewIsFirstSight
    <2>3. Counter!Next
      BY <2>1, <2>2 DEF Counter!Next, Counter!FirstSight, Counter!SeenAgain
    <2> QED BY <2>3 DEF IDsOf, CountsOf
  <1>2. CASE \E columns \in Matrices : updateFromMatrix(columns)
    BY <1>2 DEF updateFromMatrix, IDsOf, CountsOf
  <1>3. CASE UNCHANGED vars
    BY <1>3 DEF vars, IDsOf, CountsOf
  <1> QED BY <1>1, <1>2, <1>3 DEF Next

(* CmbTable implements CmbCount: combinations are numbered in the order of  *)
(* first sight and every increment of update() is added up.                 *)
THEOREM TableCounts == Spec => CountsByFirstSight
  <1>1. Init => Counter!Init
    BY InitIsCount
  <1>2. IInv /\ SizeInv /\ [Next]_vars => [Counter!Next]_<<IDsOf, CountsOf>>
    BY StepIsCount
  <1>3. IInv /\ SizeInv /\ [Next]_vars => IInv' /\ SizeInv'
    BY StepIInv, StepSizeInv
  <1> QED BY <1>1, <1>2, <1>3, InitIInv, InitSizeInv, PTL
          DEF Spec, CountsByFirstSight, Counter!Spec, IDsOf, CountsOf

-----------------------------------------------------------------------------
(* The walk of combine() over the rows.                                     *)

(* The overlay at row i and column j, and the rows and pixels done.         *)
At(i, j) == Overlay(<<i, j>>)
Visited ==
    ((1..y) \X (1..ncols))
        \cup (IF phase = "count" THEN {y + 1} \X (1..Len(out)) ELSE {})

(* The variables of combine() hold what they should; src is what it was     *)
(* when the rasters were opened, and every row done was in every raster.    *)
CombineTypeOK ==
    /\ phase \in {"user", "check", "open", "read", "count", "returned", "stopped"}
    /\ phase # "user" => src \in [1..NRasters -> Raster]
    /\ out_raster \in BOOLEAN
    /\ rowdata \in Seq([1..ncols -> Pixel])
    /\ y \in Nat
    /\ dst \in Seq([1..ncols -> Nat])
    /\ phase \in {"user", "check", "open"} => rowdata = << >> /\ y = 0 /\ dst = << >>

(* What has been read of the current row.                                   *)
RowsRead ==
    phase \in {"read", "count"} =>
        /\ y < nrows
        /\ Len(rowdata) <= NRasters
        /\ \A r \in 1..Len(rowdata) :
               /\ y < Len(src[r].row) /\ ncols <= src[r].ncols
               /\ rowdata[r] = [x \in 1..ncols |-> src[r].row[y + 1][x]]
        /\ phase = "count" => Len(rowdata) = NRasters

RowsDoneExist ==
    phase \in {"read", "count", "returned"} =>
        \A r \in 1..NRasters :
            y <= Len(src[r].row) /\ (y > 0 => ncols <= src[r].ncols)

(* What was compared is still so, of the rasters nobody replaced.           *)
SameUnlessReplaced ==
    /\ replaced \subseteq 1..NRasters
    /\ phase \in {"open", "read", "count", "returned"} =>
           \A r \in 1..NRasters : {1, r} \cap replaced = {} => SameGrid(r)

(* What has been handed to the table of the current row, and what it gave.  *)
RowHanded ==
    /\ phase \in {"check", "open"} => DOMAIN m_cmb_map = {}
    /\ phase \in {"check", "open", "read", "returned"} => todo = << >>
    /\ phase = "returned" => y = nrows
    /\ phase = "count" =>
           /\ incr = 1
           /\ Len(out) + Len(todo) = ncols
           /\ \A i \in 1..Len(todo) : todo[i] = At(y + 1, Len(out) + i)
           /\ \A j \in 1..Len(out) :
                 /\ At(y + 1, j) \in DOMAIN m_cmb_map
                 /\ m_cmb_map[At(y + 1, j)].ID = out[j]

(* The table is the overlay of the pixels visited.                          *)
TableSoFar ==
    phase \in {"check", "open", "read", "count", "returned"} =>
        /\ IsFiniteSet(Visited)
        /\ DOMAIN m_cmb_map = {Overlay(p) : p \in Visited}
        /\ \A k \in DOMAIN m_cmb_map :
               m_cmb_map[k].count = Cardinality({p \in Visited : Overlay(p) = k})

(* The image holds what the table holds, cut to the output type.            *)
ImageSoFar ==
    phase # "user" =>
        \A i \in 1..Len(dst), j \in 1..ncols :
            /\ At(i, j) \in DOMAIN m_cmb_map
            /\ dst[i][j] = Stored(m_cmb_map[At(i, j)].ID)

DstRows == Len(dst) = IF out_raster THEN y ELSE 0

CInv == CombineTypeOK /\ RowsRead /\ RowsDoneExist /\ SameUnlessReplaced
            /\ RowHanded /\ TableSoFar /\ DstRows /\ ImageSoFar

Inv == IInv /\ CInv
-----------------------------------------------------------------------------
(* The shape of rasters and of the columns handed to the table.             *)

LEMMA RasterRows ==
  ASSUME NEW s \in Raster
  PROVE  /\ Len(s.row) \in Nat /\ Len(s.row) > 0
         /\ s.ncols \in Nat /\ s.ncols > 0 /\ s.ncols \in 1..MaxColumns
         /\ \A i \in 1..Len(s.row), x \in 1..s.ncols : s.row[i][x] \in Pixel
  <1>1. PICK m \in 1..MaxRows, n \in 1..MaxCols : s \in RasterOf(m, n)
    BY DEF Raster
  <1>2. m \in Nat /\ m > 0 /\ n \in Nat /\ n > 0 /\ n \in 1..MaxColumns
    BY CombineAssumption, CmbAssumption
  <1>3. s.row \in [1..m -> [1..n -> Pixel]] /\ s.ncols = n
    BY <1>1 DEF RasterOf
  <1>4. Len(s.row) = m
    BY <1>2, <1>3
  <1> QED BY <1>2, <1>3, <1>4

(* The size of the first raster, when combine() runs.                       *)
LEMMA SizeIs ==
  ASSUME CombineTypeOK, phase # "user"
  PROVE  /\ nrows \in Nat /\ nrows > 0
         /\ ncols \in Nat /\ ncols > 0 /\ ncols \in 1..MaxColumns
  <1>1. src[1] \in Raster
    BY CombineAssumption DEF CombineTypeOK
  <1> QED BY <1>1, RasterRows DEF nrows, ncols

(* While no file is replaced the sizes are what they were.                  *)
LEMMA SameRasters ==
  ASSUME UNCHANGED src
  PROVE  /\ nrows' = nrows /\ ncols' = ncols
         /\ \A r : SameGrid(r)' = SameGrid(r)
  BY DEF nrows, ncols, SameGrid

LEMMA ColumnsAreOverlay ==
  ASSUME CInv, phase = "read", Len(rowdata) = NRasters
  PROVE  /\ Columns \in Matrices
         /\ Columns \in [1..ncols -> Key]
         /\ Len(Columns) = ncols
         /\ \A i \in 1..ncols : Columns[i] = At(y + 1, i)
  <1>1. ncols \in Nat /\ ncols \in 1..MaxColumns /\ NRasters \in Nat
    BY SizeIs, CombineAssumption DEF CInv
  <1>2. rowdata \in [1..NRasters -> [1..ncols -> Pixel]]
    BY <1>1 DEF CInv, CombineTypeOK
  <1>3. \A i \in 1..ncols : [r \in 1..NRasters |-> rowdata[r][i]] \in Key
    <2> TAKE i \in 1..ncols
    <2>1. [r \in 1..NRasters |-> rowdata[r][i]] \in [1..NRasters -> Pixel]
      BY <1>2
    <2> QED BY <2>1, CombineAssumption
  <1>4. Columns \in [1..ncols -> Key]
    BY <1>3 DEF Columns
  <1>5. Columns \in Matrices
    BY <1>1, <1>4 DEF Matrices
  <1>6. Len(Columns) = ncols
    BY <1>1, <1>4
  <1>7. \A r \in 1..NRasters :
           rowdata[r] = [x \in 1..ncols |-> src[r].row[y + 1][x]]
    BY DEF CInv, RowsRead
  <1>8. ASSUME NEW i \in 1..ncols PROVE Columns[i] = At(y + 1, i)
    <2>1. ASSUME NEW r \in 1..NRasters PROVE rowdata[r][i] = src[r].row[y + 1][i]
      <3>1. rowdata[r] = [x \in 1..ncols |-> src[r].row[y + 1][x]]
        BY <1>7
      <3> QED BY <3>1
    <2> QED BY <2>1 DEF Columns, At, Overlay
  <1> QED BY <1>4, <1>5, <1>6, <1>8

-----------------------------------------------------------------------------
(* combine() uses the table as any caller does.                             *)

LEMMA TableStep ==
  ASSUME CInv, [CombineNext]_allvars
  PROVE  [Next]_vars
  <1>1. CASE Hand
    <2>1. Columns \in Matrices /\ updateFromMatrix(Columns)
      BY <1>1, ColumnsAreOverlay DEF Hand
    <2> QED BY <2>1 DEF Next
  <1>2. CASE Count \/ User
    BY <1>2 DEF Count, User, Next
  <1>3. CASE Check \/ Open \/ Read \/ Write \/ (\E r \in 1..NRasters : Replaced(r))
             \/ UNCHANGED allvars
    BY <1>3 DEF Check, Open, Read, Write, Replaced, Stop, allvars
  <1> QED BY <1>1, <1>2, <1>3 DEF CombineNext, CombineStep

LEMMA InitInv == CombineInit => Inv
  <1> SUFFICES ASSUME CombineInit PROVE Inv
    OBVIOUS
  <1>1. Init /\ IInv
    BY InitIInv DEF CombineInit
  <1>2. DOMAIN m_cmb_map = {} /\ todo = << >>
    BY <1>1 DEF Init
  <1>3. phase \in {"user", "check"} /\ rowdata = << >> /\ y = 0 /\ dst = << >>
    BY DEF CombineInit
  <1>4. CombineTypeOK
    <2>1. phase # "user" => src \in [1..NRasters -> Raster]
      BY <1>3 DEF CombineInit
    <2>2. out_raster \in BOOLEAN
      BY DEF CombineInit
    <2>3. rowdata \in Seq([1..ncols -> Pixel]) /\ dst \in Seq([1..ncols -> Nat])
      BY <1>3
    <2> QED BY <1>3, <2>1, <2>2, <2>3 DEF CombineTypeOK
  <1>5. Visited = {}
    BY <1>3 DEF Visited
  <1>6. TableSoFar
    BY <1>2, <1>5, FS_EmptySet DEF TableSoFar
  <1>7. DstRows /\ ImageSoFar /\ RowsRead /\ RowsDoneExist /\ RowHanded
    BY <1>2, <1>3 DEF DstRows, ImageSoFar, RowsRead, RowsDoneExist, RowHanded
  <1>8. SameUnlessReplaced
    BY <1>3 DEF CombineInit, SameUnlessReplaced
  <1> QED BY <1>1, <1>4, <1>6, <1>7, <1>8 DEF Inv, CInv
-----------------------------------------------------------------------------
(* What is kept while the table, the rasters and the pixels done are.       *)

LEMMA SameTable ==
  ASSUME TableSoFar,
         phase \in {"check", "open", "read", "count", "returned"},
         UNCHANGED <<m_cmb_map, src>>,
         Visited' = Visited
  PROVE  TableSoFar'
  <1>1. \A p : Overlay(p)' = Overlay(p)
    BY DEF Overlay
  <1> QED BY <1>1 DEF TableSoFar

LEMMA SameImage ==
  ASSUME ImageSoFar, phase # "user", UNCHANGED <<m_cmb_map, src, dst>>
  PROVE  ImageSoFar'
  BY DEF ImageSoFar, At, Overlay, Stored, ncols

LEMMA SameKept ==
  ASSUME SameUnlessReplaced, phase \in {"open", "read", "count"} \/ phase' = phase,
         UNCHANGED <<src, replaced>>
  PROVE  SameUnlessReplaced'
  BY SameRasters DEF SameUnlessReplaced

-----------------------------------------------------------------------------
(* One lemma per step of combine().                                         *)

LEMMA StopKeeps ==
  ASSUME CInv, phase # "user", Stop
  PROVE  CInv'
  <1>1. /\ phase' = "stopped"
        /\ UNCHANGED <<m_cmb_map, src, out_raster, rowdata, y, dst, replaced>>
    BY DEF Stop, vars
  <1>2. CombineTypeOK'
    BY <1>1, SameRasters DEF CInv, CombineTypeOK
  <1>3. RowsRead' /\ RowsDoneExist' /\ RowHanded' /\ TableSoFar' /\ SameUnlessReplaced'
    BY <1>1 DEF CInv, RowsRead, RowsDoneExist, RowHanded, TableSoFar, SameUnlessReplaced
  <1>4. DstRows' /\ ImageSoFar'
    BY <1>1, SameImage DEF CInv, DstRows
  <1> QED BY <1>2, <1>3, <1>4 DEF CInv

LEMMA CheckKeeps ==
  ASSUME CInv, Check
  PROVE  CInv'
  <1>1. CASE Stop
    BY <1>1, StopKeeps DEF Check
  <1>2. CASE phase' = "open" /\ UNCHANGED <<vars, src, out_raster, rowdata, y, dst, replaced>>
    <2>1. UNCHANGED <<m_cmb_map, todo, incr, out, src, out_raster, rowdata, y, dst, replaced>>
      BY <1>2 DEF vars
    <2>2. phase = "check" /\ phase' = "open"
      BY <1>2 DEF Check
    <2>3. CombineTypeOK' /\ DstRows'
      BY <2>1, <2>2, SameRasters DEF CInv, CombineTypeOK, DstRows
    <2>4. RowsRead' /\ RowsDoneExist' /\ RowHanded'
      BY <2>1, <2>2 DEF CInv, RowsRead, RowsDoneExist, RowHanded
    <2>5. Visited' = Visited
      BY <2>1, <2>2, SameRasters DEF Visited
    <2>6. TableSoFar' /\ ImageSoFar'
      BY <2>1, <2>2, <2>5, SameTable, SameImage DEF CInv
    <2>7. SameUnlessReplaced'
      <3>1. \A r \in 1..NRasters : SameGrid(r)
        BY <1>2, <2>2 DEF Check, Stop
      <3> QED BY <2>1, <3>1, SameRasters DEF CInv, SameUnlessReplaced
    <2> QED BY <2>3, <2>4, <2>6, <2>7 DEF CInv
  <1> QED BY <1>1, <1>2 DEF Check

(* Before the first row is read the table and the image are empty, so it    *)
(* makes no difference that a raster is another one.                        *)
LEMMA NothingDone ==
  ASSUME CInv, phase \in {"check", "open"}
  PROVE  /\ y = 0 /\ dst = << >> /\ rowdata = << >> /\ todo = << >>
         /\ DOMAIN m_cmb_map = {}
  BY DEF CInv, CombineTypeOK, RowHanded

LEMMA ReplacedKeeps ==
  ASSUME CInv, NEW r \in 1..NRasters, Replaced(r)
  PROVE  CInv'
  <1>1. UNCHANGED <<m_cmb_map, todo, incr, out, phase, out_raster, rowdata, y, dst>>
    BY DEF Replaced, vars
  <1>2. phase = "open"
    BY DEF Replaced
  <1>3. y = 0 /\ dst = << >> /\ rowdata = << >> /\ DOMAIN m_cmb_map = {} /\ todo = << >>
    BY <1>2, NothingDone
  <1>4. src' \in [1..NRasters -> Raster]
    BY <1>2 DEF Replaced, CInv, CombineTypeOK
  <1>5. CombineTypeOK' /\ DstRows'
    BY <1>1, <1>2, <1>3, <1>4 DEF CInv, CombineTypeOK, DstRows
  <1>6. RowsRead' /\ RowsDoneExist' /\ RowHanded' /\ ImageSoFar'
    BY <1>1, <1>2, <1>3 DEF RowsRead, RowsDoneExist, RowHanded, ImageSoFar
  <1>7. Visited' = {}
    BY <1>1, <1>2, <1>3 DEF Visited
  <1>8. TableSoFar'
    BY <1>1, <1>3, <1>7, FS_EmptySet DEF TableSoFar
  <1>9. SameUnlessReplaced'
    <2>1. replaced' = replaced \cup {r} /\ replaced \subseteq 1..NRasters
      BY DEF Replaced, CInv, SameUnlessReplaced
    <2>2. ASSUME NEW q \in 1..NRasters, {1, q} \cap replaced' = {}
          PROVE  SameGrid(q)'
      <3>1. {1, q} \cap replaced = {} /\ r # 1 /\ r # q
        BY <2>1, <2>2
      <3>2. SameGrid(q)
        BY <1>2, <3>1 DEF CInv, SameUnlessReplaced
      <3>3. src'[1] = src[1] /\ src'[q] = src[q]
        BY <1>2, <3>1, CombineAssumption DEF Replaced, CInv, CombineTypeOK
      <3> QED BY <3>2, <3>3 DEF SameGrid, nrows, ncols
    <2> QED BY <2>1, <2>2 DEF SameUnlessReplaced
  <1> QED BY <1>5, <1>6, <1>8, <1>9 DEF CInv

LEMMA OpenKeeps ==
  ASSUME CInv, Open
  PROVE  CInv'
  <1>1. CASE Stop
    BY <1>1, StopKeeps DEF Open
  <1>2. CASE phase' = "read" /\ UNCHANGED <<vars, src, out_raster, rowdata, y, dst, replaced>>
    <2>1. UNCHANGED <<m_cmb_map, todo, incr, out, src, out_raster, rowdata, y, dst, replaced>>
      BY <1>2 DEF vars
    <2>2. phase = "open" /\ phase' = "read"
      BY <1>2 DEF Open
    <2>3. y = 0 /\ dst = << >> /\ rowdata = << >> /\ DOMAIN m_cmb_map = {} /\ todo = << >>
      BY <2>2, NothingDone
    <2>4. CombineTypeOK' /\ DstRows' /\ SameUnlessReplaced'
      BY <2>1, <2>2, SameRasters, SameKept DEF CInv, CombineTypeOK, DstRows
    <2>5. \A r \in 1..NRasters : Len(src[r].row) \in Nat /\ Len(src[r].row) > 0
      BY <2>2, RasterRows DEF CInv, CombineTypeOK
    <2>6. RowsRead' /\ RowsDoneExist'
      BY <2>1, <2>2, <2>3, <2>5, CombineAssumption DEF RowsRead, RowsDoneExist, nrows
    <2>7. RowHanded' /\ ImageSoFar'
      BY <2>1, <2>2, <2>3 DEF RowHanded, ImageSoFar
    <2>8. TableSoFar'
      <3>1. Visited' = Visited
        BY <2>1, <2>2, SameRasters DEF Visited
      <3> QED BY <2>1, <2>2, <3>1, SameTable DEF CInv
    <2> QED BY <2>4, <2>6, <2>7, <2>8 DEF CInv
  <1> QED BY <1>1, <1>2 DEF Open

LEMMA ReadKeeps ==
  ASSUME CInv, Read
  PROVE  CInv'
  <1>1. CASE Stop
    BY <1>1, StopKeeps DEF Read
  <1>2. CASE ~ Stop
    <2>1. /\ y < Len(src[ToRead].row) /\ ncols <= src[ToRead].ncols
          /\ rowdata' = Append(rowdata, [x \in 1..ncols |-> src[ToRead].row[y + 1][x]])
          /\ UNCHANGED <<m_cmb_map, todo, incr, out, phase, src, out_raster, y, dst, replaced>>
      BY <1>2 DEF Read, vars
    <2>2. phase = "read" /\ Len(rowdata) < NRasters /\ ToRead = Len(rowdata) + 1
      BY DEF Read, ToRead
    <2>3. rowdata \in Seq([1..ncols -> Pixel]) /\ y \in Nat /\ NRasters \in Nat
      BY CombineAssumption DEF CInv, CombineTypeOK
    <2>4. ToRead \in 1..NRasters
      BY <2>2, <2>3
    <2>5. [x \in 1..ncols |-> src[ToRead].row[y + 1][x]] \in [1..ncols -> Pixel]
      <3>1. src[ToRead] \in Raster /\ ncols \in Nat
        BY <2>2, <2>4, SizeIs DEF CInv, CombineTypeOK
      <3>2. y + 1 \in 1..Len(src[ToRead].row)
        BY <2>1, <2>3, <3>1, RasterRows
      <3>3. \A x \in 1..ncols : x \in 1..src[ToRead].ncols
        BY <2>1, <3>1, RasterRows
      <3>4. \A x \in 1..ncols : src[ToRead].row[y + 1][x] \in Pixel
        BY <3>1, <3>2, <3>3, RasterRows
      <3> QED BY <3>4
    <2>6. /\ rowdata' \in Seq([1..ncols -> Pixel]) /\ Len(rowdata') = Len(rowdata) + 1
          /\ rowdata'[ToRead] = [x \in 1..ncols |-> src[ToRead].row[y + 1][x]]
          /\ \A r \in 1..Len(rowdata) : rowdata'[r] = rowdata[r]
      <3> DEFINE new == [x \in 1..ncols |-> src[ToRead].row[y + 1][x]]
                 Rows == [1..ncols -> Pixel]
      <3>1. new \in Rows /\ rowdata \in Seq(Rows) /\ rowdata' = Append(rowdata, new)
        BY <2>1, <2>3, <2>5
      <3> HIDE DEF new, Rows
      <3>2. /\ rowdata' \in Seq(Rows) /\ Len(rowdata') = Len(rowdata) + 1
            /\ rowdata'[ToRead] = new
            /\ \A r \in 1..Len(rowdata) : rowdata'[r] = rowdata[r]
        BY <2>2, <3>1
      <3> QED BY <3>2 DEF new, Rows
    <2>7. CombineTypeOK' /\ DstRows' /\ SameUnlessReplaced'
      BY <2>1, <2>2, <2>6, SameRasters, SameKept DEF CInv, CombineTypeOK, DstRows
    <2>8. RowsRead'
      <3>1. \A r \in 1..Len(rowdata') : r \in 1..Len(rowdata) \/ r = ToRead
        BY <2>2, <2>3, <2>6
      <3>2. \A r \in 1..Len(rowdata) :
               /\ y < Len(src[r].row) /\ ncols <= src[r].ncols
               /\ rowdata[r] = [x \in 1..ncols |-> src[r].row[y + 1][x]]
        BY <2>2 DEF CInv, RowsRead
      <3>3. \A r \in 1..Len(rowdata') :
               /\ y < Len(src[r].row) /\ ncols <= src[r].ncols
               /\ rowdata'[r] = [x \in 1..ncols |-> src[r].row[y + 1][x]]
        BY <2>1, <2>6, <3>1, <3>2
      <3>4. y < nrows /\ Len(rowdata') <= NRasters
        BY <2>2, <2>3, <2>6 DEF CInv, RowsRead
      <3>5. nrows' = nrows /\ ncols' = ncols
        BY <2>1, SameRasters
      <3> QED BY <2>1, <2>2, <3>3, <3>4, <3>5 DEF RowsRead
    <2>9. RowsDoneExist' /\ RowHanded'
      BY <2>1, <2>2, SameRasters DEF CInv, RowsDoneExist, RowHanded
    <2>10. TableSoFar' /\ ImageSoFar'
      <3>1. Visited' = Visited
        BY <2>1, <2>2, SameRasters DEF Visited
      <3> QED BY <2>1, <2>2, <3>1, SameTable, SameImage DEF CInv
    <2> QED BY <2>7, <2>8, <2>9, <2>10 DEF CInv
  <1> QED BY <1>1, <1>2

(* The row that is handed over is the next row of the overlay.              *)
LEMMA HandKeeps ==
  ASSUME CInv, Hand
  PROVE  CInv'
  <1>1. /\ phase = "read" /\ phase' = "count" /\ Len(rowdata) = NRasters
        /\ todo' = Columns /\ out' = << >> /\ incr' = 1
        /\ UNCHANGED <<m_cmb_map, src, out_raster, rowdata, y, dst, replaced>>
    BY DEF Hand, updateFromMatrix
  <1>2. /\ Len(Columns) = ncols /\ ncols \in Nat
        /\ \A i \in 1..ncols : Columns[i] = At(y + 1, i)
    BY <1>1, ColumnsAreOverlay, SizeIs DEF CInv
  <1>3. CombineTypeOK' /\ DstRows' /\ RowsRead' /\ RowsDoneExist' /\ SameUnlessReplaced'
    BY <1>1, SameRasters, SameKept
       DEF CInv, CombineTypeOK, DstRows, RowsRead, RowsDoneExist
  <1>4. RowHanded'
    BY <1>1, <1>2, SameRasters DEF RowHanded, At, Overlay
  <1>5. Visited' = Visited
    BY <1>1, SameRasters DEF Visited
  <1>6. TableSoFar' /\ ImageSoFar'
    BY <1>1, <1>5, SameTable, SameImage DEF CInv
  <1> QED BY <1>3, <1>4, <1>6 DEF CInv

(* An update keeps every combination and its ID.                            *)
LEMMA IDsAreKept ==
  ASSUME IInv, update, NEW k \in DOMAIN m_cmb_map
  PROVE  k \in DOMAIN m_cmb_map' /\ m_cmb_map'[k].ID = m_cmb_map[k].ID
  <1>1. TypeOK /\ IDsAreDense
    BY DEF IInv
  <1>2. CASE k = Head(todo)
    BY <1>1, <1>2, UpdateInsertsHead, NextIDCases
  <1>3. CASE k # Head(todo)
    BY <1>1, <1>3, UpdateInsertsHead
  <1> QED BY <1>2, <1>3

(* The column that is counted is the next pixel of the row.                 *)
LEMMA CountVisits ==
  ASSUME Inv, Count
  PROVE  /\ Head(todo) = Overlay(<<y + 1, Len(out) + 1>>)
         /\ Len(out) \in Nat /\ y \in Nat
         /\ Visited' = Visited \cup {<<y + 1, Len(out) + 1>>}
         /\ <<y + 1, Len(out) + 1>> \notin Visited
  <1>1. /\ phase = "count" /\ phase' = "count" /\ y' = y
        /\ todo # << >> /\ out' = Append(out, NextID(Head(todo)))
    BY DEF Count, cvars, update
  <1>2. /\ todo \in Seq(Key) /\ out \in Seq(Nat) /\ y \in Nat /\ Len(out) \in Nat
    BY DEF Inv, IInv, TypeOK, CInv, CombineTypeOK
  <1>3. Len(todo) \in Nat /\ Len(todo) > 0 /\ Head(todo) = todo[1]
    BY <1>1, <1>2
  <1>4. todo[1] = At(y + 1, Len(out) + 1)
    BY <1>1, <1>3 DEF Inv, CInv, RowHanded
  <1>5. Len(out') = Len(out) + 1
    BY <1>1, <1>2
  <1>6. 1..(Len(out) + 1) = 1..Len(out) \cup {Len(out) + 1}
    BY <1>2
  <1>7. Visited' = Visited \cup {<<y + 1, Len(out) + 1>>}
    BY <1>1, <1>5, <1>6, SameRasters DEF Visited, Count, cvars
  <1>8. <<y + 1, Len(out) + 1>> \notin Visited
    BY <1>1, <1>2 DEF Visited
  <1> QED BY <1>2, <1>3, <1>4, <1>7, <1>8 DEF At

(* Counting the next pixel: the combination's count is one more, the others *)
(* stay, and a new combination is counted once.                             *)
LEMMA CountTable ==
  ASSUME Inv, Count
  PROVE  TableSoFar'
  <1> DEFINE key == Head(todo)
             q == <<y + 1, Len(out) + 1>>
             Of(k) == {p \in Visited : Overlay(p) = k}
  <1>1. TypeOK /\ IDsAreDense /\ TableSoFar /\ phase = "count" /\ phase' = "count"
    BY DEF Inv, IInv, CInv, Count, cvars
  <1>2. update /\ src' = src /\ incr = 1
    BY <1>1 DEF Count, cvars, Inv, CInv, RowHanded
  <1>3. key = Overlay(q) /\ Visited' = Visited \cup {q} /\ q \notin Visited
    BY CountVisits
  <1>4. /\ DOMAIN m_cmb_map' = DOMAIN m_cmb_map \cup {key}
        /\ m_cmb_map'[key].count = NextCount(key)
        /\ \A k \in DOMAIN m_cmb_map : k # key => m_cmb_map'[k] = m_cmb_map[k]
    BY <1>1, <1>2, UpdateInsertsHead
  <1>5. /\ IsFiniteSet(Visited)
        /\ DOMAIN m_cmb_map = {Overlay(p) : p \in Visited}
        /\ \A k \in DOMAIN m_cmb_map : m_cmb_map[k].count = Cardinality(Of(k))
    BY <1>1 DEF TableSoFar
  <1>6. \A p : Overlay(p)' = Overlay(p)
    BY <1>2 DEF Overlay
  <1> HIDE DEF key, q
  <1>7. IsFiniteSet(Visited')
    BY <1>3, <1>5, FS_AddElement
  <1>8. DOMAIN m_cmb_map' = {Overlay(p) : p \in Visited'}
    BY <1>3, <1>4, <1>5
  <1>9. ASSUME NEW k \in DOMAIN m_cmb_map'
        PROVE  m_cmb_map'[k].count = Cardinality({p \in Visited' : Overlay(p) = k})
    <2>1. CASE k # key
      <3>1. {p \in Visited' : Overlay(p) = k} = Of(k)
        BY <1>3, <2>1
      <3> QED BY <1>4, <1>5, <2>1, <3>1
    <2>2. CASE k = key
      <3>1. {p \in Visited' : Overlay(p) = k} = Of(key) \cup {q} /\ q \notin Of(key)
        BY <1>3, <2>2
      <3>2. IsFiniteSet(Of(key))
        BY <1>5, FS_Subset
      <3>3. Cardinality({p \in Visited' : Overlay(p) = k}) = Cardinality(Of(key)) + 1
        BY <3>1, <3>2, FS_AddElement
      <3>4. NextCount(key) = Cardinality(Of(key)) + 1
        <4>1. CASE key \in DOMAIN m_cmb_map
          BY <1>2, <1>5, <4>1 DEF NextCount, Lookup
        <4>2. CASE key \notin DOMAIN m_cmb_map
          <5>1. Of(key) = {}
            BY <1>5, <4>2
          <5> QED BY <1>2, <4>2, <5>1, FS_EmptySet DEF NextCount, Lookup
        <4> QED BY <4>1, <4>2
      <3> QED BY <1>4, <2>2, <3>3, <3>4
    <2> QED BY <2>1, <2>2
  <1> QED BY <1>1, <1>6, <1>7, <1>8, <1>9 DEF TableSoFar

LEMMA CountRow ==
  ASSUME Inv, Count
  PROVE  RowHanded'
  <1> DEFINE key == Head(todo)
             n == Len(out)
  <1>1. IInv /\ TypeOK /\ IDsAreDense /\ RowHanded
    BY DEF Inv, IInv, CInv
  <1>2. /\ phase = "count" /\ phase' = "count" /\ src' = src /\ y' = y /\ update
        /\ incr' = incr /\ todo' = Tail(todo) /\ out' = Append(out, NextID(key))
    BY DEF Count, cvars, update
  <1>3. key = At(y + 1, n + 1) /\ n \in Nat /\ y \in Nat
    BY CountVisits DEF At
  <1>4. /\ todo \in Seq(Key) /\ todo # << >> /\ out \in Seq(Nat)
        /\ Len(todo) \in Nat /\ ncols \in Nat /\ ncols' = ncols
    BY <1>1, <1>2, SizeIs, SameRasters DEF Inv, CInv, TypeOK, update
  <1>5. NextID(key) \in Nat /\ m_cmb_map'[key].ID = NextID(key) /\ key \in DOMAIN m_cmb_map'
    BY <1>1, <1>2, UpdateInsertsHead, NextIDCases
  <1>6. /\ Len(todo') = Len(todo) - 1 /\ \A i \in 1..Len(todo') : todo'[i] = todo[i + 1]
        /\ Len(out') = n + 1 /\ out'[n + 1] = NextID(key)
        /\ \A j \in 1..n : out'[j] = out[j]
    BY <1>2, <1>4, <1>5
  <1>7. \A i, j : At(i, j)' = At(i, j)
    BY <1>2 DEF At, Overlay
  <1>8. /\ incr = 1 /\ n + Len(todo) = ncols
        /\ \A i \in 1..Len(todo) : todo[i] = At(y + 1, n + i)
        /\ \A j \in 1..n :
              At(y + 1, j) \in DOMAIN m_cmb_map /\ m_cmb_map[At(y + 1, j)].ID = out[j]
    BY <1>1, <1>2 DEF RowHanded
  <1> HIDE DEF key, n
  <1>9. Len(out') + Len(todo') = ncols
    <2>1. n \in Nat /\ Len(todo) \in Nat /\ n + Len(todo) = ncols
      BY <1>3, <1>4, <1>8
    <2>2. Len(out') = n + 1 /\ Len(todo') = Len(todo) - 1
      BY <1>6
    <2> QED BY <2>1, <2>2
  <1>10. ASSUME NEW i \in 1..Len(todo') PROVE todo'[i] = At(y + 1, Len(out') + i)
    <2>1. i + 1 \in 1..Len(todo) /\ n + (i + 1) = Len(out') + i
      BY <1>3, <1>4, <1>6
    <2>2. todo[i + 1] = At(y + 1, n + (i + 1))
      BY <1>8, <2>1
    <2> QED BY <1>6, <2>1, <2>2
  <1>11. ASSUME NEW j \in 1..Len(out')
         PROVE  At(y + 1, j) \in DOMAIN m_cmb_map' /\ m_cmb_map'[At(y + 1, j)].ID = out'[j]
    <2>1. CASE j = n + 1
      BY <1>3, <1>5, <1>6, <2>1
    <2>2. CASE j \in 1..n
      BY <1>1, <1>2, <1>6, <1>8, <2>2, IDsAreKept
    <2> QED BY <1>3, <1>6, <2>1, <2>2
  <1> QED BY <1>2, <1>4, <1>7, <1>8, <1>9, <1>10, <1>11 DEF RowHanded

LEMMA CountKeeps ==
  ASSUME Inv, Count
  PROVE  CInv'
  <1>1. CInv /\ IInv /\ update /\ phase = "count"
        /\ UNCHANGED <<phase, src, out_raster, rowdata, y, dst, replaced>>
    BY DEF Inv, Count, cvars
  <1>2. CombineTypeOK' /\ DstRows' /\ RowsRead' /\ RowsDoneExist' /\ SameUnlessReplaced'
    <2>1. CombineTypeOK' /\ SameUnlessReplaced'
      BY <1>1, SameRasters, SameKept DEF CInv, CombineTypeOK
    <2>2. DstRows' /\ RowsDoneExist'
      BY <1>1, SameRasters DEF CInv, DstRows, RowsDoneExist
    <2>3. RowsRead'
      BY <1>1, SameRasters DEF CInv, RowsRead
    <2> QED BY <2>1, <2>2, <2>3
  <1>3. ImageSoFar'
    <2>1. \A i, j : At(i, j)' = At(i, j)
      BY <1>1 DEF At, Overlay
    <2> QED BY <1>1, <2>1, IDsAreKept, SameRasters DEF CInv, ImageSoFar, Stored
  <1> QED BY <1>2, <1>3, CountTable, CountRow DEF CInv

(* The row is written when every pixel of it has been counted: its pixels   *)
(* are then those of one more row done.                                     *)
LEMMA WriteKeeps ==
  ASSUME Inv, Write
  PROVE  CInv'
  <1>0. CInv /\ phase = "count" /\ todo = << >>
    BY DEF Inv, Write
  <1>1. CASE Stop
    BY <1>0, <1>1, StopKeeps
  <1>2. CASE ~ Stop
    <2>1. /\ dst' = IF out_raster
                      THEN Append(dst, [x \in 1..ncols |-> Stored(out[x])])
                      ELSE dst
          /\ y' = y + 1 /\ rowdata' = << >>
          /\ phase' = IF y + 1 = nrows THEN "returned" ELSE "read"
          /\ UNCHANGED <<m_cmb_map, todo, incr, out, src, out_raster, replaced>>
          /\ ncols' = ncols /\ nrows' = nrows
      BY <1>2, SameRasters DEF Write, NextRow, RowsDone, vars
    <2>2. y \in Nat /\ dst \in Seq([1..ncols -> Nat]) /\ ncols \in Nat /\ TypeMax \in Nat
      BY <1>0, CombineAssumption, SizeIs DEF CInv, CombineTypeOK
    <2>3. /\ Len(out) = ncols /\ out \in Seq(Nat)
          /\ \A j \in 1..ncols :
                /\ At(y + 1, j) \in DOMAIN m_cmb_map
                /\ m_cmb_map[At(y + 1, j)].ID = out[j]
      <3>1. out \in Seq(Nat) /\ Len(out) \in Nat /\ Len(todo) = 0
        BY <1>0 DEF Inv, IInv, TypeOK
      <3> QED BY <1>0, <2>2, <3>1 DEF CInv, RowHanded
    <2>4. /\ y < nrows
          /\ \A r \in 1..NRasters :
                y < Len(src[r].row) /\ Len(src[r].row) \in Nat /\ ncols <= src[r].ncols
      <3>1. \A r \in 1..NRasters : y < Len(src[r].row) /\ ncols <= src[r].ncols
        BY <1>0, CombineAssumption DEF CInv, RowsRead, CombineTypeOK
      <3>2. \A r \in 1..NRasters : Len(src[r].row) \in Nat
        BY <1>0, RasterRows DEF CInv, CombineTypeOK
      <3> QED BY <1>0, <3>1, <3>2 DEF CInv, RowsRead
    <2>5. nrows \in Nat
      BY <1>0, SizeIs DEF CInv
    <2>6. [x \in 1..ncols |-> Stored(out[x])] \in [1..ncols -> Nat]
      BY <2>2, <2>3 DEF Stored
    <2>7. CombineTypeOK'
      <3>1. dst' \in Seq([1..ncols -> Nat])
        <4>1. dst' = dst \/ dst' = Append(dst, [x \in 1..ncols |-> Stored(out[x])])
          BY <2>1
        <4>2. Append(dst, [x \in 1..ncols |-> Stored(out[x])]) \in Seq([1..ncols -> Nat])
          BY <2>2, <2>6
        <4> QED BY <2>2, <4>1, <4>2
      <3>2. phase' \in {"returned", "read"} /\ y' \in Nat /\ rowdata' \in Seq([1..ncols -> Pixel])
        BY <2>1, <2>2
      <3> QED BY <1>0, <2>1, <3>1, <3>2 DEF CInv, CombineTypeOK
    <2>8. RowsRead' /\ RowsDoneExist' /\ SameUnlessReplaced'
      <3>1. RowsRead'
        BY <2>1, <2>2, <2>4, <2>5, CombineAssumption DEF RowsRead
      <3>2. RowsDoneExist'
        BY <2>1, <2>2, <2>4 DEF RowsDoneExist
      <3>3. SameUnlessReplaced'
        BY <1>0, <2>1, SameKept DEF CInv
      <3> QED BY <3>1, <3>2, <3>3
    <2>9. RowHanded'
      BY <1>0, <2>1 DEF RowHanded
    <2>10. TableSoFar'
      <3>1. 1..(y + 1) = (1..y) \cup {y + 1}
        BY <2>2
      <3>2. Visited' = Visited
        BY <1>0, <2>1, <2>3, <3>1 DEF Visited
      <3> QED BY <1>0, <2>1, <3>2, SameTable DEF CInv
    <2>11. DstRows'
      BY <1>0, <2>1, <2>2 DEF CInv, DstRows
    <2>12. ImageSoFar'
      <3>1. CASE ~ out_raster
        BY <1>0, <2>1, <3>1, SameImage DEF CInv
      <3>2. CASE out_raster
        <4>1. /\ Len(dst) = y /\ Len(dst') = y + 1
              /\ dst'[y + 1] = [x \in 1..ncols |-> Stored(out[x])]
              /\ \A i \in 1..y : dst'[i] = dst[i]
          BY <1>0, <2>1, <2>2, <2>6, <3>2 DEF CInv, DstRows
        <4>2. \A i, j : At(i, j)' = At(i, j)
          BY <2>1 DEF At, Overlay
        <4>3. ASSUME NEW i \in 1..(y + 1), NEW j \in 1..ncols
              PROVE  /\ At(i, j) \in DOMAIN m_cmb_map
                     /\ dst'[i][j] = Stored(m_cmb_map[At(i, j)].ID)
          <5>1. CASE i \in 1..y
            BY <1>0, <4>1, <5>1 DEF CInv, ImageSoFar
          <5>2. CASE i = y + 1
            BY <2>3, <4>1, <5>2
          <5> QED BY <2>2, <5>1, <5>2
        <4> QED BY <2>1, <4>1, <4>2, <4>3 DEF ImageSoFar, Stored
      <3> QED BY <3>1, <3>2
    <2> QED BY <2>7, <2>8, <2>9, <2>10, <2>11, <2>12 DEF CInv
  <1> QED BY <1>1, <1>2

(* A table in an R user's hands is no matter of combine().                  *)
LEMMA UserKeeps ==
  ASSUME CInv, User
  PROVE  CInv'
  <1>1. phase = "user" /\ UNCHANGED <<phase, src, out_raster, rowdata, y, dst, replaced>>
    BY DEF User, cvars
  <1>2. CombineTypeOK' /\ DstRows' /\ SameUnlessReplaced'
    BY <1>1, SameRasters, SameKept DEF CInv, CombineTypeOK, DstRows
  <1>3. RowsRead' /\ RowsDoneExist' /\ RowHanded' /\ TableSoFar' /\ ImageSoFar'
    BY <1>1 DEF RowsRead, RowsDoneExist, RowHanded, TableSoFar, ImageSoFar
  <1> QED BY <1>2, <1>3 DEF CInv

LEMMA StutterKeeps ==
  ASSUME CInv, UNCHANGED allvars
  PROVE  CInv'
  <1>1. UNCHANGED <<m_cmb_map, todo, incr, out, phase, src, out_raster, rowdata, y, dst, replaced>>
    BY DEF allvars, vars, cvars
  <1>2. CombineTypeOK' /\ SameUnlessReplaced'
    BY <1>1, SameRasters, SameKept DEF CInv, CombineTypeOK
  <1>3. DstRows' /\ RowsDoneExist'
    BY <1>1, SameRasters DEF CInv, DstRows, RowsDoneExist
  <1>4. RowsRead'
    BY <1>1, SameRasters DEF CInv, RowsRead
  <1>5. RowHanded'
    BY <1>1, SameRasters DEF CInv, RowHanded, At, Overlay
  <1>6. TableSoFar'
    BY <1>1, SameRasters DEF CInv, TableSoFar, Visited, Overlay
  <1>7. ImageSoFar'
    BY <1>1, SameImage DEF CInv, ImageSoFar
  <1> QED BY <1>2, <1>3, <1>4, <1>5, <1>6, <1>7 DEF CInv

LEMMA StepInv == Inv /\ [CombineNext]_allvars => Inv'
  <1> SUFFICES ASSUME Inv, [CombineNext]_allvars PROVE Inv'
    OBVIOUS
  <1>1. IInv /\ CInv
    BY DEF Inv
  <1>2. IInv'
    BY <1>1, TableStep, StepIInv
  <1>3. CInv'
    <2>1. CASE User
      BY <1>1, <2>1, UserKeeps
    <2>2. CASE Check
      BY <1>1, <2>2, CheckKeeps
    <2>3. CASE Open
      BY <1>1, <2>3, OpenKeeps
    <2>4. CASE Read
      BY <1>1, <2>4, ReadKeeps
    <2>5. CASE Hand
      BY <1>1, <2>5, HandKeeps
    <2>6. CASE Count
      BY <2>6, CountKeeps
    <2>7. CASE Write
      BY <2>7, WriteKeeps
    <2>8. CASE \E r \in 1..NRasters : Replaced(r)
      BY <1>1, <2>8, ReplacedKeeps
    <2>9. CASE UNCHANGED allvars
      BY <1>1, <2>9, StutterKeeps
    <2> QED BY <2>1, <2>2, <2>3, <2>4, <2>5, <2>6, <2>7, <2>8, <2>9
            DEF CombineNext, CombineStep
  <1> QED BY <1>2, <1>3 DEF Inv
-----------------------------------------------------------------------------
(* Within combine() the table does nothing it does not do for any caller:   *)
(* the hand-over gives it a matrix of the right shape and an increment it   *)
(* takes, and no step changes it behind its back.                           *)
THEOREM CombineUsesTable == CombineSpec => Spec
  <1>1. CombineInit => Init
    BY DEF CombineInit
  <1>2. Inv /\ [CombineNext]_allvars => [Next]_vars
    BY TableStep DEF Inv
  <1> QED BY <1>1, <1>2, InitInv, StepInv, PTL DEF CombineSpec, Spec

(* Every row of the image written so far holds the IDs of the combinations  *)
(* at its pixels, while the output type can hold the IDs given.             *)
THEOREM ImageIsRight == CombineSpec => []ImageMatchesTable
  <1>1. Inv => ImageMatchesTable
    <2> SUFFICES ASSUME Inv, phase # "user", m_last_ID <= TypeMax,
                        NEW p \in (1..Len(dst)) \X (1..ncols)
                 PROVE  dst[p[1]][p[2]] = m_cmb_map[Overlay(p)].ID
      BY DEF ImageMatchesTable
    <2>1. p = <<p[1], p[2]>> /\ p[1] \in 1..Len(dst) /\ p[2] \in 1..ncols
      OBVIOUS
    <2>2. Overlay(p) = At(p[1], p[2])
      BY <2>1 DEF At
    <2>3. /\ Overlay(p) \in DOMAIN m_cmb_map
          /\ dst[p[1]][p[2]] = Stored(m_cmb_map[Overlay(p)].ID)
      BY <2>1, <2>2 DEF Inv, CInv, ImageSoFar
    <2>4. m_cmb_map[Overlay(p)].ID \in 1..m_last_ID /\ m_last_ID \in Nat
      BY <2>3 DEF Inv, IInv, TypeOK, IDsAreDense
    <2> QED BY <2>3, <2>4, CombineAssumption DEF Stored
  <1> QED BY <1>1, InitInv, StepInv, PTL DEF CombineSpec

(* The data frame that combine() returns has the combinations at all pixels *)
(* of the first raster as it was opened, with their counts; these pixels    *)
(* are in every raster, and are all of every raster that was replaced as    *)
(* little as the first between the check and the opening.                   *)
THEOREM TableIsRight == CombineSpec => []TableIsOverlay
  <1>1. Inv => TableIsOverlay
    <2> SUFFICES ASSUME Inv, phase = "returned" PROVE TableIsOverlay
      BY DEF TableIsOverlay
    <2>1. y = nrows /\ nrows \in Nat /\ nrows > 0 /\ ncols \in Nat
      BY SizeIs DEF Inv, CInv, RowHanded
    <2>2. Visited = PixelsOf(1)
      BY <2>1 DEF Visited, PixelsOf, nrows, ncols
    <2>3. ASSUME NEW r \in 1..NRasters PROVE PixelsOf(1) \subseteq PixelsOf(r)
      <3>1. Len(src[r].row) \in Nat /\ src[r].ncols \in Nat
        BY RasterRows DEF Inv, CInv, CombineTypeOK
      <3>2. nrows <= Len(src[r].row) /\ ncols <= src[r].ncols
        BY <2>1 DEF Inv, CInv, RowsDoneExist
      <3>3. /\ 1..nrows \subseteq 1..Len(src[r].row)
            /\ 1..ncols \subseteq 1..src[r].ncols
        BY <2>1, <3>1, <3>2
      <3> QED BY <3>3 DEF PixelsOf, nrows, ncols
    <2>4. ASSUME NEW r \in 1..NRasters, {1, r} \cap replaced = {}
          PROVE  PixelsOf(r) = PixelsOf(1) /\ src[r].res = src[1].res
      <3>1. SameGrid(r)
        BY <2>4 DEF Inv, CInv, SameUnlessReplaced
      <3> QED BY <3>1 DEF SameGrid, PixelsOf, nrows, ncols
    <2>5. TableSoFar
      BY DEF Inv, CInv
    <2> QED BY <2>2, <2>3, <2>4, <2>5 DEF TableIsOverlay, TableSoFar
  <1> QED BY <1>1, InitInv, StepInv, PTL DEF CombineSpec

(* What the table promises any caller holds within combine().               *)
THEOREM CombineKeepsPromises ==
  CombineSpec => [](TypeOK /\ IDsAreDense /\ ReturnedIDsStayValid) /\ CountsByFirstSight
  BY CombineUsesTable, TypeCorrect, DenseIDs, ValidIDs, TableCounts, PTL
-----------------------------------------------------------------------------
(* The steps combine() still has to make, if nothing fails: the check, the  *)
(* opening, and for every row one for each raster to be read, the handing   *)
(* over, one for each pixel and the writing.                                *)
RowSteps == NRasters + ncols + 2

Distance ==
    CASE phase = "check" -> nrows * RowSteps + 2
      [] phase = "open"  -> nrows * RowSteps + 1
      [] phase = "read"  -> (nrows - y) * RowSteps - Len(rowdata)
      [] phase = "count" -> (nrows - NextRow) * RowSteps + Len(todo) + 1
      [] OTHER           -> 0

NearsEnd ==
    /\ Distance \in Nat /\ Distance' \in Nat
    /\ CombineStep => Distance' < Distance
    /\ Distance' > Distance => phase = "open"

(* The steps of n rows are those of n - 1 rows and of one more.             *)
LEMMA OneRowLess ==
  ASSUME NEW steps \in Nat, NEW n \in Nat
  PROVE  /\ n * steps \in Nat
         /\ n > 0 => n * steps = (n - 1) * steps + steps /\ (n - 1) * steps \in Nat
  OBVIOUS

(* The reads of a row fit into its steps, and so do its pixels after them.  *)
LEMMA WithinRow ==
  ASSUME NEW reads \in Nat, NEW cols \in Nat, NEW n \in Nat, n > 0,
         NEW steps \in Nat, steps = reads + cols + 2
  PROVE  /\ \A k \in 0..reads : n * steps - k \in Nat /\ n * steps - k > 0
         /\ (n - 1) * steps + cols + 1 < n * steps - reads
  <1>1. PICK m \in Nat, p \in Nat : m = n * steps /\ p = (n - 1) * steps
    BY OneRowLess
  <1>2. m = p + steps
    BY <1>1, OneRowLess
  <1>3. \A k \in 0..reads : m - k \in Nat /\ m - k > 0
    BY <1>2
  <1>4. p + cols + 1 < m - reads
    BY <1>2
  <1>5. \A k \in 0..reads : n * steps - k \in Nat /\ n * steps - k > 0
    BY <1>1, <1>3
  <1>6. (n - 1) * steps + cols + 1 < n * steps - reads
    BY <1>1, <1>4
  <1> QED BY <1>5, <1>6

LEMMA StepsOfRow ==
  ASSUME Inv, phase # "user"
  PROVE  RowSteps \in Nat /\ NRasters \in Nat /\ ncols \in Nat
  BY SizeIs, CombineAssumption DEF RowSteps, Inv, CInv

(* The steps of a row stay while no file is replaced.                       *)
LEMMA SameSteps ==
  ASSUME UNCHANGED src
  PROVE  nrows' = nrows /\ ncols' = ncols /\ RowSteps' = RowSteps
  BY SameRasters DEF RowSteps

(* What Distance is, by phase.                                              *)
LEMMA DistanceIs ==
  /\ phase = "check" => Distance = nrows * RowSteps + 2
  /\ phase = "open"  => Distance = nrows * RowSteps + 1
  /\ phase = "read"  => Distance = (nrows - y) * RowSteps - Len(rowdata)
  /\ phase = "count" => Distance = (nrows - (y + 1)) * RowSteps + Len(todo) + 1
  /\ phase \in {"user", "returned", "stopped"} => Distance = 0
  BY DEF Distance, NextRow

(* A row that is begun is one of the first raster's, and the steps it takes *)
(* are more than the pixels to count or the rasters read.                   *)
LEMMA Within ==
  ASSUME Inv
  PROVE  /\ phase # "user" => nrows \in Nat
         /\ y \in Nat /\ Len(rowdata) \in Nat /\ Len(todo) \in Nat
         /\ phase \in {"read", "count"} => y < nrows /\ Len(rowdata) <= NRasters
         /\ phase \in {"check", "open", "read"} => todo = << >>
         /\ phase \in {"check", "open"} => y = 0 /\ rowdata = << >>
  <1>1. phase # "user" => nrows \in Nat
    BY SizeIs DEF Inv, CInv
  <1>2. y \in Nat /\ Len(rowdata) \in Nat /\ Len(todo) \in Nat
    BY DEF Inv, IInv, TypeOK, CInv, CombineTypeOK
  <1>3. phase \in {"read", "count"} => y < nrows /\ Len(rowdata) <= NRasters
    BY DEF Inv, CInv, RowsRead
  <1>4. /\ phase \in {"check", "open", "read"} => todo = << >>
        /\ phase \in {"check", "open"} => y = 0 /\ rowdata = << >>
    BY DEF Inv, CInv, RowHanded, CombineTypeOK
  <1> QED BY <1>1, <1>2, <1>3, <1>4

(* Until it ends, combine() has a step to make.                             *)
LEMMA DistanceIsNat ==
  ASSUME Inv
  PROVE  /\ Distance \in Nat
         /\ phase \in {"check", "open", "read", "count"} => Distance > 0
  <1>1. CASE phase \in {"check", "open"}
    <2>1. nrows \in Nat
      BY <1>1, Within
    <2>2. nrows * RowSteps \in Nat
      BY <1>1, <2>1, StepsOfRow, OneRowLess
    <2> QED BY <1>1, <2>2, DistanceIs
  <1>2. CASE phase = "read"
    <2>1. /\ nrows \in Nat /\ y \in Nat /\ y < nrows
          /\ Len(rowdata) \in Nat /\ Len(rowdata) <= NRasters
      BY <1>2, Within
    <2>2. nrows - y \in Nat /\ nrows - y > 0
      BY <2>1
    <2>3. Len(rowdata) \in 0..NRasters
      BY <2>1, StepsOfRow
    <2>4. /\ (nrows - y) * RowSteps - Len(rowdata) \in Nat
          /\ (nrows - y) * RowSteps - Len(rowdata) > 0
      BY <1>2, <2>2, <2>3, StepsOfRow, WithinRow DEF RowSteps
    <2>5. Distance = (nrows - y) * RowSteps - Len(rowdata)
      BY <1>2, DistanceIs
    <2>6. Distance \in Nat /\ Distance > 0
      BY <2>4, <2>5, Zenon
    <2> QED BY <2>6
  <1>3. CASE phase = "count"
    <2>1. nrows \in Nat /\ y \in Nat /\ y < nrows /\ Len(todo) \in Nat
      BY <1>3, Within
    <2>2. nrows - (y + 1) \in Nat
      BY <2>1
    <2>3. (nrows - (y + 1)) * RowSteps \in Nat
      BY <1>3, <2>2, StepsOfRow, OneRowLess
    <2>4. Distance = (nrows - (y + 1)) * RowSteps + Len(todo) + 1
      BY <1>3, DistanceIs
    <2>5. \A p, q \in Nat : p + q + 1 \in Nat /\ p + q + 1 > 0
      OBVIOUS
    <2> QED BY <2>1, <2>3, <2>4, <2>5, Zenon
  <1>4. CASE phase \in {"user", "returned", "stopped"}
    BY <1>4, DistanceIs
  <1> QED BY <1>1, <1>2, <1>3, <1>4 DEF Inv, CInv, CombineTypeOK

(* One lemma per step.                                                      *)
LEMMA StopNears ==
  ASSUME Inv, Stop, phase \in {"check", "open", "read", "count"}
  PROVE  Distance' < Distance
  <1>1. Distance' = 0
    BY DEF Stop, Distance
  <1> QED BY <1>1, DistanceIsNat

LEMMA BeginNears ==
  ASSUME Inv, Check \/ Open
  PROVE  Distance' < Distance
  <1>1. CASE Stop
    BY <1>1, StopNears DEF Check, Open
  <1>2. CASE ~ Stop
    <2>1. UNCHANGED <<todo, src, rowdata, y>>
      BY <1>2 DEF Check, Open, vars
    <2>2. phase \in {"check", "open"} /\ nrows' = nrows /\ RowSteps' = RowSteps
      BY <2>1, SameSteps DEF Check, Open
    <2>3. nrows \in Nat /\ y = 0 /\ Len(rowdata) = 0 /\ nrows * RowSteps \in Nat
      BY <2>2, Within, StepsOfRow, OneRowLess
    <2>4. CASE Check
      <3>1. phase = "check" /\ phase' = "open"
        BY <1>2, <2>4 DEF Check
      <3>2. Distance = nrows * RowSteps + 2 /\ Distance' = nrows * RowSteps + 1
        BY <2>2, <3>1 DEF Distance
      <3> QED BY <2>3, <3>2
    <2>5. CASE Open
      <3>1. phase = "open" /\ phase' = "read"
        BY <1>2, <2>5 DEF Open
      <3>2. Distance = nrows * RowSteps + 1
        BY <3>1 DEF Distance
      <3>3. Distance' = (nrows - 0) * RowSteps - 0
        BY <2>1, <2>2, <2>3, <3>1 DEF Distance
      <3>4. nrows - 0 = nrows /\ \A p \in Nat : p - 0 < p + 1
        BY <2>3
      <3> QED BY <2>3, <3>2, <3>3, <3>4, Zenon
    <2> QED BY <2>4, <2>5
  <1> QED BY <1>1, <1>2

LEMMA ReadNears ==
  ASSUME Inv, Read
  PROVE  Distance' < Distance
  <1>1. CASE Stop
    BY <1>1, StopNears DEF Read
  <1>2. CASE ~ Stop
    <2>1. /\ phase = "read" /\ phase' = "read" /\ UNCHANGED <<src, y>>
          /\ rowdata' = Append(rowdata, [x \in 1..ncols |-> src[ToRead].row[y + 1][x]])
      BY <1>2 DEF Read, vars
    <2>2. nrows \in Nat /\ y \in Nat /\ y < nrows /\ Len(rowdata) \in Nat
      BY <2>1, Within
    <2>3. Len(rowdata') = Len(rowdata) + 1
      BY <2>1 DEF Inv, CInv, CombineTypeOK
    <2>4. nrows - y \in Nat /\ (nrows - y) * RowSteps \in Nat
      BY <2>1, <2>2, StepsOfRow, OneRowLess
    <2>5. /\ Distance = (nrows - y) * RowSteps - Len(rowdata)
          /\ Distance' = (nrows - y) * RowSteps - (Len(rowdata) + 1)
      BY <2>1, <2>3, SameSteps DEF Distance
    <2>6. \A p, q \in Nat : p - (q + 1) < p - q
      OBVIOUS
    <2> QED BY <2>2, <2>4, <2>5, <2>6, Zenon
  <1> QED BY <1>1, <1>2

LEMMA HandNears ==
  ASSUME Inv, Hand
  PROVE  Distance' < Distance
  <1>1. /\ phase = "read" /\ phase' = "count" /\ UNCHANGED <<src, y>>
        /\ todo' = Columns /\ Len(rowdata) = NRasters
    BY DEF Hand, updateFromMatrix
  <1>2. Len(todo') = ncols
    BY <1>1, ColumnsAreOverlay DEF Inv
  <1>3. nrows \in Nat /\ y \in Nat /\ y < nrows /\ NRasters \in Nat /\ ncols \in Nat
    BY <1>1, Within, StepsOfRow
  <1>4. nrows - y \in Nat /\ nrows - y > 0 /\ nrows - (y + 1) = (nrows - y) - 1
    BY <1>3
  <1>5. ((nrows - y) - 1) * RowSteps + ncols + 1 < (nrows - y) * RowSteps - NRasters
    BY <1>1, <1>4, StepsOfRow, WithinRow DEF RowSteps
  <1>6. /\ Distance = (nrows - y) * RowSteps - NRasters
        /\ Distance' = (nrows - (y + 1)) * RowSteps + ncols + 1
    BY <1>1, <1>2, SameSteps DEF Distance, NextRow
  <1> QED BY <1>4, <1>5, <1>6, Zenon

LEMMA CountNears ==
  ASSUME Inv, Count
  PROVE  Distance' < Distance
  <1>1. /\ phase = "count" /\ phase' = "count" /\ UNCHANGED <<src, y>>
        /\ todo # << >> /\ todo' = Tail(todo)
    BY DEF Count, cvars, update
  <1>2. Len(todo') = Len(todo) - 1 /\ Len(todo') \in Nat /\ Len(todo) \in Nat
    BY <1>1 DEF Inv, IInv, TypeOK
  <1>3. nrows - (y + 1) \in Nat
    BY <1>1, Within
  <1>4. (nrows - (y + 1)) * RowSteps \in Nat
    BY <1>1, <1>3, StepsOfRow, OneRowLess
  <1>5. /\ Distance = (nrows - (y + 1)) * RowSteps + Len(todo) + 1
        /\ Distance' = (nrows - (y + 1)) * RowSteps + Len(todo') + 1
    BY <1>1, SameSteps DEF Distance, NextRow
  <1>6. \A p, q \in Nat : p + (q - 1) + 1 < p + q + 1
    OBVIOUS
  <1> QED BY <1>2, <1>4, <1>5, <1>6, Zenon

LEMMA WriteNears ==
  ASSUME Inv, Write
  PROVE  Distance' < Distance
  <1>1. CASE Stop
    BY <1>1, StopNears DEF Write
  <1>2. CASE ~ Stop
    <2>1. /\ phase = "count" /\ UNCHANGED src /\ y' = y + 1 /\ rowdata' = << >>
          /\ phase' = IF y + 1 = nrows THEN "returned" ELSE "read"
      BY <1>2 DEF Write, NextRow, RowsDone
    <2>2. Distance \in Nat /\ Distance > 0
      BY <2>1, DistanceIsNat
    <2>3. CASE y + 1 = nrows
      <3>1. Distance' = 0
        BY <2>1, <2>3 DEF Distance
      <3> QED BY <2>2, <3>1
    <2>4. CASE y + 1 # nrows
      <3>1. Distance' = (nrows - (y + 1)) * RowSteps - 0
        BY <2>1, <2>4, SameSteps DEF Distance
      <3>2. Distance = (nrows - (y + 1)) * RowSteps + 0 + 1
        BY <2>1 DEF Distance, NextRow, Write
      <3>3. nrows - (y + 1) \in Nat
        BY <2>1, Within
      <3>4. (nrows - (y + 1)) * RowSteps \in Nat
        BY <2>1, <3>3, StepsOfRow, OneRowLess
      <3>5. \A p \in Nat : p - 0 < p + 0 + 1
        OBVIOUS
      <3> QED BY <3>1, <3>2, <3>4, <3>5, Zenon
    <2> QED BY <2>3, <2>4
  <1> QED BY <1>1, <1>2

(* The safety half of CombineEnds, for rasters of any size and number:      *)
(* every step of combine() brings its end nearer, and only a raster that is *)
(* replaced before it is opened can put it off.                             *)
THEOREM CombineNearsEnd == CombineSpec => [][NearsEnd]_allvars
  <1> DEFINE StepsLeft == Distance \in Nat
  <1>1. Inv => StepsLeft
    BY DistanceIsNat
  <1>2. Inv /\ StepsLeft /\ StepsLeft' /\ [CombineNext]_allvars => [NearsEnd]_allvars
    <2> SUFFICES ASSUME Inv, StepsLeft, StepsLeft', CombineNext PROVE NearsEnd
      OBVIOUS
    <2>1. Distance \in Nat /\ Distance' \in Nat
      OBVIOUS
    <2>2. CombineStep => Distance' < Distance
      BY BeginNears, ReadNears, HandNears, CountNears, WriteNears DEF CombineStep
    <2>3. Distance' > Distance => phase = "open"
      <3>1. CASE User
        <4>1. Distance = 0 /\ Distance' = 0
          BY <3>1 DEF User, cvars, Distance
        <4> QED BY <4>1
      <3>2. CASE \E r \in 1..NRasters : Replaced(r)
        BY <3>2 DEF Replaced
      <3>3. CASE CombineStep
        BY <2>1, <2>2, <3>3
      <3> QED BY <3>1, <3>2, <3>3 DEF CombineNext
    <2> QED BY <2>1, <2>2, <2>3 DEF NearsEnd
  <1> HIDE DEF StepsLeft
  <1> QED BY <1>1, <1>2, InitInv, StepInv, PTL DEF CombineSpec
=============================================================================
