-------------------------- MODULE GDALVectorProofs --------------------------
(* Proofs about GDALVector for any finite set of features, any filters and  *)
(* any driver.                                                              *)
EXTENDS GDALVector, FiniteSetTheorems, TLAPS

USE DEF NoFilter

(* Reading moves the cursor to a feature it has passed, or leaves it. *)
LEMMA CursorType ==
  ASSUME NEW S \in SUBSET FIDs, NEW c \in FIDs \cup {0}, NEW x \in CursorAfter(c, S)
  PROVE  x \in FIDs \cup {0}
  BY DEF CursorAfter

LEMMA CursorAfterCountType ==
  ASSUME NEW c \in FIDs \cup {0}
  PROVE  CursorAfterCount(c) \in {0, c}
  BY DEF CursorAfterCount

LEMMA PagesAreFeatures ==
  ASSUME TypeOK, NEW c, NEW n, NEW P \in Pages(Ahead(c), n)
  PROVE  P \in SUBSET Ahead(c) /\ P \in SUBSET Matching /\ P \in SUBSET FIDs
  BY DEF Pages, Ahead, Matching, TypeOK

LEMMA RestartType == TypeOK /\ Restart => cursor' \in FIDs \cup {0} /\ passed' \subseteq FIDs /\ warned' \in BOOLEAN
  BY DEF TypeOK, Restart

LEMMA PageLoopType ==
  ASSUME TypeOK, NEW c \in FIDs \cup {0}, NEW n, PageLoop(c, n)
  PROVE  /\ cursor' \in FIDs \cup {0} /\ passed' \subseteq FIDs
         /\ ret' \subseteq FIDs /\ warned' \in BOOLEAN
  <1>1. PICK P \in Pages(Ahead(c), n) :
            /\ ret' = P
            /\ cursor' \in CursorAfter(c, P)
            /\ passed' = (IF c = 0 THEN {} ELSE passed) \cup P
            /\ warned' = (c # 0 /\ warned)
    BY DEF PageLoop
  <1>2. P \in SUBSET FIDs
    BY PagesAreFeatures
  <1>3. cursor' \in FIDs \cup {0}
    BY <1>1, <1>2, CursorType
  <1>4. warned' \in BOOLEAN
    BY <1>1
  <1> QED BY <1>1, <1>2, <1>3, <1>4 DEF TypeOK

LEMMA CountedLoopType ==
  ASSUME TypeOK, NEW c \in FIDs \cup {0}, NEW n, CountedLoop(c, n)
  PROVE  /\ cursor' \in FIDs \cup {0} /\ passed' \subseteq FIDs
         /\ ret' \subseteq FIDs /\ warned' \in BOOLEAN
  <1>1. CASE n = 0
    <2>1. warned' \in BOOLEAN
      BY <1>1 DEF CountedLoop
    <2> QED BY <1>1, <2>1 DEF CountedLoop, TypeOK
  <1>2. CASE n # 0
    <2>1. PICK P \in Pages(Ahead(c), n), Q \in Pages(Ahead(c), n + 1) :
              /\ ret' = P
              /\ cursor' \in CursorAfter(c, P \cup (Q \ P))
              /\ passed' = (IF c = 0 THEN {} ELSE passed) \cup P
              /\ warned' = ((c # 0 /\ warned) \/ SurplusReported(Q \ P))
      BY <1>2 DEF CountedLoop
    <2>2. P \in SUBSET FIDs /\ P \cup (Q \ P) \in SUBSET FIDs
      BY PagesAreFeatures
    <2>3. cursor' \in FIDs \cup {0}
      BY <2>1, <2>2, CursorType
    <2>4. warned' \in BOOLEAN
      BY <2>1
    <2> QED BY <2>1, <2>2, <2>3, <2>4 DEF TypeOK
  <1> QED BY <1>1, <1>2

LEMMA FetchThrowsType ==
  ASSUME TypeOK, NEW c, FetchThrows(c)
  PROVE  /\ cursor' \in FIDs \cup {0} /\ passed' \subseteq FIDs
         /\ ret' \subseteq FIDs /\ warned' \in BOOLEAN
  BY RestartType DEF FetchThrows, TypeOK

LEMMA FetchType ==
  ASSUME TypeOK,
         (\E n \in 0..Cardinality(FIDs) : fetchPage(n)) \/ fetchAll \/ fetchRemaining
  PROVE  TypeOK'
  <1>1. /\ cursor' \in FIDs \cup {0} /\ passed' \subseteq FIDs
        /\ ret' \subseteq FIDs /\ warned' \in BOOLEAN
    <2>1. CASE \E n \in 0..Cardinality(FIDs) : fetchPage(n)
      <3>1. PICK n \in 0..Cardinality(FIDs) : fetchPage(n)
        BY <2>1
      <3>2. cursor \in FIDs \cup {0}
        BY DEF TypeOK
      <3>3. CASE FetchThrows(cursor)
        BY <3>3, FetchThrowsType
      <3>4. CASE n = 0 /\ ret' = {} /\ UNCHANGED <<cursor, passed, warned>>
        BY <3>4 DEF TypeOK
      <3>5. CASE PageLoop(cursor, n)
        BY <3>2, <3>5, PageLoopType
      <3> QED BY <3>1, <3>3, <3>4, <3>5 DEF fetchPage
    <2>2. CASE fetchAll
      <3>1. FirstCursor \in FIDs \cup {0}
        BY CursorAfterCountType DEF FirstCursor
      <3> QED BY <2>2, <3>1, CountedLoopType, FetchThrowsType DEF fetchAll
    <2>3. CASE fetchRemaining
      <3>1. NextCursor \in FIDs \cup {0}
        BY CursorAfterCountType DEF NextCursor, TypeOK
      <3> QED BY <2>3, <3>1, CountedLoopType, FetchThrowsType DEF fetchRemaining
    <2> QED BY <2>1, <2>2, <2>3
  <1>2. /\ UNCHANGED <<source, query, area, handles, fields>>
        /\ call' \in {"page", "all", "remaining"}
    BY DEF fetchPage, fetchAll, fetchRemaining
  <1> QED BY <1>1, <1>2 DEF TypeOK, source, handles, fields

LEMMA OpenCloseType ==
  ASSUME TypeOK, Handles
  PROVE  TypeOK'
  <1>1. CASE close
    BY <1>1 DEF close, CloseSource, RowsAfterClose, HandlesDropped, FreshLayer, Restart, NoResult, TypeOK, fields
  <1>2. ASSUME NEW ro \in BOOLEAN, open(ro) PROVE TypeOK'
    <2>1. /\ rows' \in {rows, saved} /\ inTransaction' \in BOOLEAN
          /\ saved' \in {saved, {}} /\ layerExists' = layerExists
      BY <1>2 DEF open, CloseSource, RowsAfterClose, source, TypeOK
    <2>2. m_hDataset' \in {"null", "open", "released"} /\ m_hLayer' \in {"null", "open"}
      BY <1>2 DEF open, HandlesDropped
    <2> QED BY <1>2, <2>1, <2>2 DEF open, FreshLayer, Restart, NoResult, TypeOK, fields
  <1>3. CASE LayerDropped
    BY <1>3 DEF LayerDropped, TypeOK, layer, handles, fields, NoResult
  <1> QED BY <1>1, <1>2, <1>3 DEF Handles

LEMMA ReadsType ==
  ASSUME TypeOK, Reads
  PROVE  TypeOK'
  <1>1. ASSUME NEW q \in Queries, setAttributeFilter(q) PROVE TypeOK'
    BY <1>1, VectorAssumption DEF setAttributeFilter, Restart, NoResult, TypeOK, source, handles
  <1>2. ASSUME NEW a \in Areas, setSpatialFilter(a) PROVE TypeOK'
    BY <1>2, VectorAssumption DEF setSpatialFilter, Restart, NoResult, TypeOK, source, handles, fields
  <1>3. CASE SetFields
    BY <1>3 DEF SetFields, NoResult, TypeOK, source, layer, handles
  <1>4. CASE getFeatureCount
    BY <1>4, RestartType DEF getFeatureCount, NoResult, TypeOK, source, handles, fields
  <1>5. CASE resetReading
    BY <1>5, RestartType DEF resetReading, NoResult, TypeOK, source, handles, fields
  <1>6. ASSUME NEW i \in 0..Cardinality(FIDs), setNextByIndex(i) PROVE TypeOK'
    <2>1. PICK P \in Pages(Matching, i) : cursor' \in CursorAfter(0, P) /\ passed' = P
      BY <1>6 DEF setNextByIndex
    <2>2. P \in SUBSET FIDs
      BY DEF Pages, Matching, TypeOK
    <2>3. cursor' \in FIDs \cup {0}
      BY <2>1, <2>2, CursorType
    <2> QED BY <1>6, <2>1, <2>2, <2>3 DEF setNextByIndex, NoResult, TypeOK, source, handles, fields
  <1>7. CASE (\E n \in 0..Cardinality(FIDs) : fetchPage(n)) \/ fetchAll \/ fetchRemaining
    BY <1>7, FetchType
  <1>8. ASSUME NEW f \in FIDs, getFeature(f) PROVE TypeOK'
    BY <1>8 DEF getFeature, FiltersAfter, FiltersRestored, FiltersLeft, Restart, TypeOK, source, handles
  <1>9. CASE setAttributeFilterRefused
    BY <1>9 DEF setAttributeFilterRefused, Refused, Restart, NoResult, TypeOK, source, handles, fields
  <1>10. ASSUME NEW f \in FIDs, getFeatureRefused(f) PROVE TypeOK'
    BY <1>10 DEF getFeatureRefused, Refused, Restart, TypeOK, source, handles
  <1> QED BY <1>1, <1>2, <1>3, <1>4, <1>5, <1>6, <1>7, <1>8, <1>9, <1>10 DEF Reads

LEMMA WritesType ==
  ASSUME TypeOK, Writes
  PROVE  TypeOK'
  <1>1. ASSUME NEW W \in SUBSET FIDs, Written(W) PROVE TypeOK'
    BY <1>1 DEF Written, NoResult, TypeOK, layer, handles
  <1>2. ASSUME NEW f \in FIDs, createFeature(f) \/ setFeature(f) \/ upsertFeature(f) PROVE TypeOK'
    BY <1>1, <1>2 DEF createFeature, setFeature, upsertFeature
  <1>3. ASSUME NEW f \in FIDs, deleteFeature(f) PROVE TypeOK'
    BY <1>3 DEF deleteFeature, NoResult, TypeOK, layer, handles, fields
  <1>4. ASSUME NEW W \in SUBSET FIDs, batchCreateFeature(W) PROVE TypeOK'
    BY <1>1, <1>4 DEF batchCreateFeature
  <1>5. CASE startTransaction
    BY <1>5 DEF startTransaction, NoResult, TypeOK, layer, handles, fields
  <1>6. CASE commitTransaction
    BY <1>6 DEF commitTransaction, NoResult, TypeOK, layer, handles, fields
  <1>7. CASE rollbackTransaction
    BY <1>7, RestartType DEF rollbackTransaction, NoResult, TypeOK, handles, fields
  <1> QED BY <1>2, <1>3, <1>4, <1>5, <1>6, <1>7 DEF Writes

\* Every field and every piece of layer state keeps its type, whatever the
\* calls and the driver.
THEOREM TypeCorrect == Spec => []TypeOK
  <1>1. Init => TypeOK
    BY DEF Init, TypeOK
  <1>2. TypeOK /\ [Next]_vars => TypeOK'
    <2> SUFFICES ASSUME TypeOK, [Next]_vars PROVE TypeOK'
      OBVIOUS
    <2>1. CASE UNCHANGED vars
      BY <2>1 DEF vars, source, layer, handles, fields, history, TypeOK
    <2> QED BY <2>1, OpenCloseType, ReadsType, WritesType DEF Next
  <1> QED BY <1>1, <1>2, PTL DEF Spec
-----------------------------------------------------------------------------
(* Handles and access. *)

LEMMA HandlesStep ==
  ASSUME LayerHandleAlive, [Next]_vars
  PROVE  LayerHandleAlive'
  <1>1. CASE Handles
    <2>1. CASE close
      BY <2>1 DEF close, HandlesDropped, LayerHandleAlive
    <2>2. ASSUME NEW ro \in BOOLEAN, open(ro) PROVE LayerHandleAlive'
      BY <2>2 DEF open, HandlesDropped, LayerHandleAlive
    <2>3. CASE LayerDropped
      BY <2>3 DEF LayerDropped, handles, LayerHandleAlive
    <2> QED BY <1>1, <2>1, <2>2, <2>3 DEF Handles
  <1>2. CASE Reads \/ Writes \/ UNCHANGED vars
    <2>1. UNCHANGED handles
      BY <1>2 DEF Reads, Writes, vars, setAttributeFilter, setSpatialFilter, SetFields, getFeatureCount,
         resetReading, setNextByIndex, fetchPage, fetchAll, fetchRemaining, getFeature,
         setAttributeFilterRefused, getFeatureRefused, createFeature,
         setFeature, upsertFeature, deleteFeature, batchCreateFeature, Written, startTransaction,
         commitTransaction, rollbackTransaction
    <2> QED BY <2>1 DEF handles, LayerHandleAlive
  <1> QED BY <1>1, <1>2 DEF Next

\* No call goes by the handle of a layer whose dataset was released.
THEOREM LayerAlive == Spec => []LayerHandleAlive
  <1>1. Init => LayerHandleAlive
    BY DEF Init, LayerHandleAlive
  <1> QED BY <1>1, HandlesStep, PTL DEF Spec

(* ReadOnlyNeverWrites needs to know what a transaction can roll back: an   *)
(* active transaction belongs to an open dataset, and on a read-only one    *)
(* there is nothing to roll back.                                           *)
NothingToRollBack ==
    /\ inTransaction => isOpen
    /\ inTransaction /\ m_eAccess = "ReadOnly" => saved = rows

LEMMA NothingToRollBackStep ==
  ASSUME TypeOK, LayerHandleAlive, NothingToRollBack, [Next]_vars
  PROVE  NothingToRollBack' /\ (m_eAccess = "ReadOnly" => rows' = rows)
  <1> USE DEF NothingToRollBack, isOpen
  <1>1. CASE close
    BY <1>1 DEF close, CloseSource, RowsAfterClose
  <1>2. ASSUME NEW ro \in BOOLEAN, open(ro)
        PROVE  NothingToRollBack' /\ (m_eAccess = "ReadOnly" => rows' = rows)
    <2>1. CASE isOpen
      BY <1>2, <2>1 DEF open, CloseSource, RowsAfterClose
    <2>2. CASE ~isOpen
      BY <1>2, <2>2 DEF open, source
    <2> QED BY <2>1, <2>2
  <1>3. CASE LayerDropped
    BY <1>3 DEF LayerDropped, handles
  <1>4. CASE Reads \/ UNCHANGED vars
    <2>1. UNCHANGED source /\ UNCHANGED handles
      BY <1>4 DEF Reads, vars, setAttributeFilter, setSpatialFilter, SetFields, getFeatureCount,
         resetReading, setNextByIndex, fetchPage, fetchAll, fetchRemaining, getFeature,
         setAttributeFilterRefused, getFeatureRefused
    <2> QED BY <2>1 DEF source, handles
  <1>5. CASE Writes
    <2>1. CASE rollbackTransaction \/ commitTransaction \/ startTransaction
      BY <2>1 DEF rollbackTransaction, commitTransaction, startTransaction, Readable, handles
    <2>2. ASSUME NEW f \in FIDs, createFeature(f) \/ setFeature(f) \/ upsertFeature(f) \/ deleteFeature(f)
          PROVE  m_eAccess = "Update" /\ UNCHANGED handles /\ UNCHANGED <<inTransaction, saved>>
      BY <2>2 DEF createFeature, setFeature, upsertFeature, deleteFeature, Written, Writable
    <2>3. ASSUME NEW W \in SUBSET FIDs, batchCreateFeature(W)
          PROVE  m_eAccess = "Update" /\ UNCHANGED handles /\ UNCHANGED <<inTransaction, saved>>
      BY <2>3 DEF batchCreateFeature, Written, Writable
    <2>4. CASE m_eAccess = "Update" /\ UNCHANGED handles /\ UNCHANGED <<inTransaction, saved>>
      BY <2>4 DEF handles
    <2> QED BY <1>5, <2>1, <2>2, <2>3, <2>4 DEF Writes
  <1> QED BY <1>1, <1>2, <1>3, <1>4, <1>5 DEF Next, Handles

\* What is opened read-only stays as it is, through every transaction, close
\* and reopening.
THEOREM ReadOnlySafe == Spec => ReadOnlyNeverWrites
  <1> DEFINE IInv == TypeOK /\ LayerHandleAlive /\ NothingToRollBack
  <1>1. Init => NothingToRollBack
    BY DEF Init, NothingToRollBack
  <1>2. IInv /\ [Next]_vars => NothingToRollBack'
    BY NothingToRollBackStep
  <1>3. IInv /\ [Next]_vars => [m_eAccess = "ReadOnly" => rows' = rows]_vars
    BY NothingToRollBackStep
  <1> QED BY <1>1, <1>2, <1>3, TypeCorrect, LayerAlive, PTL DEF Spec, ReadOnlyNeverWrites
-----------------------------------------------------------------------------
(* Paging. *)

\* The filtered features up to the cursor are accounted for, open or not.
NoSkip == warned \/ \A f \in Matching : f <= cursor => f \in passed

LEMMA MatchingType == TypeOK => /\ Matching \subseteq FIDs
                                /\ \A f \in Matching : f \in Nat /\ f > 0 /\ ~(f <= 0)
  <1>1. TypeOK => Matching \subseteq FIDs
    BY DEF Matching, TypeOK
  <1>2. \A f \in FIDs : f \in Nat \ {0}
    BY VectorAssumption
  <1>3. \A f \in Nat \ {0} : f \in Nat /\ f > 0 /\ ~(f <= 0)
    OBVIOUS
  <1> QED BY <1>1, <1>2, <1>3

\* A page is an initial piece of what lies ahead, so every feature up to the
\* new cursor was behind the old one or is on the page.
LEMMA PageCovers ==
  ASSUME TypeOK, NEW c \in FIDs \cup {0}, NEW n, NEW P \in Pages(Ahead(c), n),
         NEW x \in CursorAfter(c, P), NEW f \in Matching, f <= x
  PROVE  f <= c \/ f \in P
  <1>1. P \subseteq Ahead(c) /\ \A g \in P, e \in Ahead(c) : e < g => e \in P
    BY DEF Pages
  <1>2. f \in Nat /\ c \in Nat
    <2>1. \A y \in FIDs : y \in Nat
      BY VectorAssumption
    <2> QED BY <2>1, MatchingType
  <1>3. CASE x = c
    BY <1>3
  <1>4. CASE x \in P
    <2>1. x \in Nat
      BY <1>1, <1>4, VectorAssumption DEF Ahead, Matching, TypeOK
    <2>2. ASSUME ~(f <= c) PROVE f \in P
      <3>1. f \in Ahead(c)
        BY <1>2, <2>2 DEF Ahead
      <3> QED BY <1>1, <1>2, <1>4, <2>1, <3>1
    <2> QED BY <2>2
  <1> QED BY <1>3, <1>4 DEF CursorAfter

\* The loop began at the start or at the cursor, and what it added to passed
\* reaches up to the new cursor.
LEMMA StillNoSkip ==
  ASSUME TypeOK, NoSkip, NEW c \in {0, cursor}, NEW P, UNCHANGED <<rows, query, area>>,
         passed' = (IF c = 0 THEN {} ELSE passed) \cup P,
         c # 0 /\ warned => warned',
         \A f \in Matching : f <= cursor' => f <= c \/ f \in P
  PROVE  NoSkip'
  <1>1. Matching' = Matching
    BY DEF Matching
  <1>2. CASE c = 0
    <2>1. \A f \in Matching : f <= cursor' => f \in passed'
      BY <1>2, MatchingType
    <2> QED BY <1>1, <2>1 DEF NoSkip
  <1>3. CASE c # 0 /\ c = cursor
    <2>1. CASE warned
      BY <1>3, <2>1 DEF NoSkip
    <2>2. CASE ~warned
      <3>1. \A f \in Matching : f <= cursor' => f \in passed'
        BY <1>3, <2>2 DEF NoSkip
      <3> QED BY <1>1, <3>1 DEF NoSkip
    <2> QED BY <2>1, <2>2
  <1> QED BY <1>2, <1>3

LEMMA PageLoopNoSkip ==
  ASSUME TypeOK, NoSkip, NEW c \in {0, cursor}, NEW n, PageLoop(c, n), UNCHANGED <<rows, query, area>>
  PROVE  NoSkip'
  <1>1. PICK P \in Pages(Ahead(c), n) :
            /\ cursor' \in CursorAfter(c, P)
            /\ passed' = (IF c = 0 THEN {} ELSE passed) \cup P
            /\ warned' = (c # 0 /\ warned)
    BY DEF PageLoop
  <1>2. c \in FIDs \cup {0}
    BY DEF TypeOK
  <1>3. \A f \in Matching : f <= cursor' => f <= c \/ f \in P
    BY <1>1, <1>2, PageCovers
  <1>4. c # 0 /\ warned => warned'
    BY <1>1
  <1> QED BY <1>1, <1>3, <1>4, StillNoSkip

\* A driver that counts right leaves no surplus.
LEMMA ExactCountNoSurplus ==
  ASSUME TypeOK, NEW c, NEW P \in Pages(Ahead(c), Cardinality(Matching)), NEW m, NEW Q \in Pages(Ahead(c), m)
  PROVE  Q \ P = {}
  <1>1. IsFiniteSet(Matching) /\ P \subseteq Ahead(c) /\ Ahead(c) \subseteq Matching /\ Q \subseteq Ahead(c)
    BY FS_Subset, VectorAssumption DEF Pages, Ahead, Matching, TypeOK
  <1>2. CASE Cardinality(P) = Cardinality(Matching)
    <2>1. P = Matching
      BY <1>1, <1>2, FS_Subset
    <2> QED BY <1>1, <2>1
  <1>3. CASE P = Ahead(c)
    BY <1>1, <1>3
  <1> QED BY <1>2, <1>3 DEF Pages

LEMMA CountedLoopNoSkip ==
  ASSUME TypeOK, NoSkip, ~(Quiet /\ CountFallsShort),
         NEW c \in {0, cursor}, NEW n \in Counts, CountedLoop(c, n), UNCHANGED <<rows, query, area>>
  PROVE  NoSkip'
  <1>1. c \in FIDs \cup {0}
    BY DEF TypeOK
  <1>2. CASE n = 0
    <2>1. /\ passed' = (IF c = 0 THEN {} ELSE passed) \cup {}
          /\ cursor' = c
      BY <1>2 DEF CountedLoop
    <2>2. c # 0 /\ warned => warned'
      BY <1>2 DEF CountedLoop
    <2> QED BY <2>1, <2>2, StillNoSkip
  <1>3. CASE n # 0
    <2>1. PICK P \in Pages(Ahead(c), n), Q \in Pages(Ahead(c), n + 1) :
              /\ ret' = P
              /\ cursor' \in CursorAfter(c, P \cup (Q \ P))
              /\ passed' = (IF c = 0 THEN {} ELSE passed) \cup P
              /\ warned' = ((c # 0 /\ warned) \/ SurplusReported(Q \ P))
      BY <1>3 DEF CountedLoop
    <2>2. CASE Q \ P = {}
      <3>1. P \cup (Q \ P) = P
        BY <2>2
      <3>2. \A f \in Matching : f <= cursor' => f <= c \/ f \in P
        BY <1>1, <2>1, <3>1, PageCovers
      <3>3. c # 0 /\ warned => warned'
        BY <2>1
      <3> QED BY <2>1, <3>2, <3>3, StillNoSkip
    <2>3. CASE Q \ P # {}
      <3>1. ~Quiet
        <4>1. CASE CountFallsShort
          BY <4>1
        <4>2. CASE ~CountFallsShort
          <5>1. n = Cardinality(Matching)
            BY <4>2 DEF Counts
          <5> QED BY <2>1, <2>3, <5>1, ExactCountNoSurplus
        <4> QED BY <4>1, <4>2
      <3>2. warned'
        BY <2>1, <2>3, <3>1 DEF SurplusReported
      <3> QED BY <3>2 DEF NoSkip
    <2> QED BY <2>2, <2>3
  <1> QED BY <1>2, <1>3

LEMMA RestartNoSkip == TypeOK' /\ Restart => NoSkip'
  <1> SUFFICES ASSUME TypeOK', Restart PROVE NoSkip'
    OBVIOUS
  <1>1. \A f \in Matching' : ~(f <= 0)
    BY VectorAssumption DEF Matching, TypeOK
  <1> QED BY <1>1 DEF Restart, NoSkip

LEMMA FetchThrowsNoSkip ==
  ASSUME TypeOK', NoSkip, NEW c, FetchThrows(c), UNCHANGED <<rows, query, area>>
  PROVE  NoSkip'
  <1>1. CASE Restart
    BY <1>1, RestartNoSkip
  <1>2. CASE UNCHANGED <<cursor, passed, warned>>
    BY <1>2 DEF NoSkip, Matching
  <1> QED BY <1>1, <1>2 DEF FetchThrows

LEMMA ReadsNoSkip ==
  ASSUME TypeOK, TypeOK', NoSkip, ~(Quiet /\ CountFallsShort), Reads
  PROVE  NoSkip'
  <1>1. CASE Restart
    BY <1>1, RestartNoSkip
  <1>2. CASE UNCHANGED <<rows, query, area, cursor, passed, warned>>
    BY <1>2 DEF NoSkip, Matching
  <1>3. ASSUME NEW i, setNextByIndex(i) PROVE NoSkip'
    <2>1. Matching' = Matching
      BY <1>3 DEF setNextByIndex, source, Matching
    <2>2. Ahead(0) = Matching
      BY MatchingType DEF Ahead
    <2>3. PICK P \in Pages(Ahead(0), i) : cursor' \in CursorAfter(0, P) /\ passed' = P
      BY <1>3, <2>2 DEF setNextByIndex
    <2>4. \A f \in Matching : f <= cursor' => f <= 0 \/ f \in P
      BY <2>3, PageCovers
    <2> QED BY <2>1, <2>3, <2>4, MatchingType DEF NoSkip
  <1>4. ASSUME NEW n, fetchPage(n) PROVE NoSkip'
    <2>1. UNCHANGED <<rows, query, area>>
      BY <1>4 DEF fetchPage, source
    <2> QED BY <1>2, <1>4, <2>1, PageLoopNoSkip, FetchThrowsNoSkip DEF fetchPage
  <1>5. CASE fetchAll
    <2>1. UNCHANGED <<rows, query, area>> /\ FirstCursor \in {0, cursor}
      BY <1>5, CursorAfterCountType DEF fetchAll, source, FirstCursor
    <2> QED BY <1>5, <2>1, CountedLoopNoSkip, FetchThrowsNoSkip DEF fetchAll
  <1>6. CASE fetchRemaining
    <2>1. UNCHANGED <<rows, query, area>> /\ NextCursor \in {0, cursor}
      BY <1>6, CursorAfterCountType DEF fetchRemaining, source, NextCursor, TypeOK
    <2> QED BY <1>6, <2>1, CountedLoopNoSkip, FetchThrowsNoSkip DEF fetchRemaining
  <1>7. CASE SetFields
    BY <1>2, <1>7 DEF SetFields, source, layer
  <1>8. CASE getFeatureCount
    BY <1>1, <1>2, <1>8 DEF getFeatureCount, source
  <1> QED BY <1>1, <1>3, <1>4, <1>5, <1>6, <1>7, <1>8
          DEF Reads, setAttributeFilter, setSpatialFilter, resetReading, getFeature,
              setAttributeFilterRefused, getFeatureRefused, Refused

LEMMA WritesNoSkip ==
  ASSUME TypeOK, TypeOK', NoSkip, Writes
  PROVE  NoSkip'
  <1>1. ASSUME NEW W \in SUBSET FIDs, Written(W) PROVE NoSkip'
    <2>1. Matching' \subseteq Matching \cup W /\ cursor' = cursor /\ warned' = warned
      BY <1>1 DEF Written, Matching, layer
    <2> QED BY <1>1, <2>1 DEF Written, NoSkip
  <1>2. ASSUME NEW f \in FIDs, createFeature(f) \/ setFeature(f) \/ upsertFeature(f) PROVE NoSkip'
    BY <1>1, <1>2 DEF createFeature, setFeature, upsertFeature
  <1>3. ASSUME NEW f \in FIDs, deleteFeature(f) PROVE NoSkip'
    BY <1>3 DEF deleteFeature, NoSkip, Matching, layer
  <1>4. ASSUME NEW W \in SUBSET FIDs, batchCreateFeature(W) PROVE NoSkip'
    BY <1>1, <1>4 DEF batchCreateFeature
  <1>5. CASE startTransaction \/ commitTransaction
    BY <1>5 DEF startTransaction, commitTransaction, NoSkip, Matching, layer
  <1>6. CASE rollbackTransaction
    <2>1. CASE Restart
      BY <2>1, RestartNoSkip
    <2>2. CASE /\ passed' = passed \cup {f \in saved : f <= cursor}
               /\ UNCHANGED <<cursor, warned>>
      <3>1. Matching' \subseteq saved
        BY <1>6 DEF rollbackTransaction, Matching
      <3>2. \A f \in Matching' : f \in saved /\ (f <= cursor' => f \in passed')
        BY <2>2, <3>1
      <3> QED BY <3>2 DEF NoSkip
    <2> QED BY <1>6, <2>1, <2>2 DEF rollbackTransaction
  <1> QED BY <1>2, <1>3, <1>4, <1>5, <1>6 DEF Writes

\* Paging skips nothing without a warning, whatever happens in between, unless
\* warnings are off and the driver counts short.
THEOREM NothingSkipped == Spec => []NothingSkippedSilently
  <1>1. CASE Quiet /\ CountFallsShort
    <2>1. NothingSkippedSilently
      BY <1>1 DEF NothingSkippedSilently
    <2> QED BY <2>1, PTL
  <1>2. CASE ~(Quiet /\ CountFallsShort)
    <2>1. Init => NoSkip
      <3> SUFFICES ASSUME Init PROVE NoSkip
        OBVIOUS
      <3>1. \A f \in Matching : ~(f <= cursor)
        BY VectorAssumption DEF Init, Matching
      <3> QED BY <3>1 DEF NoSkip
    <2>2. TypeOK /\ TypeOK' /\ NoSkip /\ [Next]_vars => NoSkip'
      <3> SUFFICES ASSUME TypeOK, TypeOK', NoSkip, [Next]_vars PROVE NoSkip'
        OBVIOUS
      <3>1. CASE Handles
        <4>1. CASE LayerDropped
          BY <4>1 DEF LayerDropped, NoSkip, Matching, layer
        <4>2. CASE Restart
          BY <4>2, RestartNoSkip
        <4> QED BY <3>1, <4>1, <4>2 DEF Handles, close, open, FreshLayer
      <3>2. CASE Reads
        BY <1>2, <3>2, ReadsNoSkip
      <3>3. CASE Writes
        BY <3>3, WritesNoSkip
      <3>4. CASE UNCHANGED vars
        BY <3>4 DEF vars, source, layer, history, NoSkip, Matching
      <3> QED BY <3>1, <3>2, <3>3, <3>4 DEF Next
    <2>3. NoSkip => NothingSkippedSilently
      BY DEF NoSkip, NothingSkippedSilently
    <2> QED BY <2>1, <2>2, <2>3, TypeCorrect, PTL DEF Spec
  <1> QED BY <1>1, <1>2
-----------------------------------------------------------------------------
(* What a full fetch and a fetch of the remaining features return.          *)

LEMMA AheadIsFinite ==
  ASSUME TypeOK, NEW c
  PROVE  /\ IsFiniteSet(Matching) /\ IsFiniteSet(Ahead(c))
         /\ Cardinality(Matching) \in Nat /\ Cardinality(Ahead(c)) \in Nat
         /\ Cardinality(Ahead(c)) <= Cardinality(Matching)
         /\ Cardinality(Ahead(c)) = Cardinality(Matching) => Ahead(c) = Matching
  <1>1. IsFiniteSet(Matching) /\ Ahead(c) \subseteq Matching
    BY FS_Subset, VectorAssumption DEF Ahead, Matching, TypeOK
  <1> QED BY <1>1, FS_Subset, FS_CardinalityType

\* A loop that goes by the layer's count returns what lies ahead; if the count is
\* one too few it may miss one feature, and reports it.
LEMMA CountedLoopReturns ==
  ASSUME TypeOK, NEW c \in FIDs \cup {0}, NEW n \in Counts, CountedLoop(c, n)
  PROVE  ret' = Ahead(c) \/ FallsShort(ret', Ahead(c))
  <1> DEFINE S == Ahead(c)
             N == Cardinality(Matching)
  <1>1. /\ IsFiniteSet(Matching) /\ IsFiniteSet(S) /\ N \in Nat /\ Cardinality(S) \in Nat
        /\ Cardinality(S) <= N /\ (Cardinality(S) = N => S = Matching)
    BY AheadIsFinite
  <1>2. n = N \/ (n = N - 1 /\ CountFallsShort /\ Matching # {})
    BY DEF Counts
  <1>3. Matching # {} => N > 0
    BY <1>1, FS_EmptySet
  <1> HIDE DEF S, N
  <1>4. CASE n = 0
    <2>1. ret' = {}
      BY <1>4 DEF CountedLoop
    <2>2. Cardinality(S) = 0 \/ (Cardinality(S) = 1 /\ CountFallsShort)
      BY <1>1, <1>2, <1>4
    <2>3. CASE Cardinality(S) = 0
      BY <1>1, <2>1, <2>3, FS_EmptySet DEF S
    <2>4. CASE Cardinality(S) = 1 /\ CountFallsShort
      BY <2>1, <2>4 DEF FallsShort, S
    <2> QED BY <2>2, <2>3, <2>4
  <1>5. CASE n # 0
    <2>1. PICK P \in Pages(S, n), Q \in Pages(S, n + 1) :
            /\ ret' = P
            /\ warned' = ((c # 0 /\ warned) \/ SurplusReported(Q \ P))
      BY <1>5 DEF CountedLoop, S
    <2>2. P \subseteq S /\ Q \subseteq S /\ (Cardinality(P) = n \/ P = S)
      BY DEF Pages
    <2>3. IsFiniteSet(P) /\ Cardinality(P) <= Cardinality(S) /\ Cardinality(P) \in Nat
          /\ (Cardinality(S) = Cardinality(P) => S = P)
      BY <1>1, <2>2, FS_Subset, FS_CardinalityType
    <2>4. CASE P = S
      BY <2>1, <2>4 DEF S
    <2>5. CASE P # S
      <3>1. /\ Cardinality(P) = n /\ n = N - 1 /\ CountFallsShort
            /\ Cardinality(S) = N
        BY <1>1, <1>2, <2>2, <2>3, <2>5
      <3>2. Q = S
        <4>1. Cardinality(Q) = n + 1 \/ Q = S
          BY DEF Pages
        <4>2. n + 1 = Cardinality(S)
          BY <1>1, <3>1
        <4> QED BY <1>1, <2>2, <4>1, <4>2, FS_Subset
      <3>3. Cardinality(S \ P) = 1
        <4>1. S \cap P = P
          BY <2>2
        <4>2. Cardinality(S \ P) = Cardinality(S) - Cardinality(P)
          BY <1>1, <4>1, FS_Difference
        <4> QED BY <1>1, <3>1, <4>2
      <3>4. Q \ P # {}
        BY <2>2, <2>5, <3>2
      <3>5. warned' \/ Quiet
        BY <2>1, <3>4 DEF SurplusReported
      <3> QED BY <2>1, <3>1, <3>3, <3>5 DEF FallsShort, S
    <2> QED BY <2>4, <2>5
  <1> QED BY <1>4, <1>5

\* A full fetch is complete, wherever the cursor was and whatever went before.
THEOREM FetchAllComplete == Spec => FetchAllIsComplete
  <1>1. TypeOK /\ fetchAll /\ optionsValid => ret' = Matching \/ FallsShort(ret', Matching)
    <2> SUFFICES ASSUME TypeOK, fetchAll, optionsValid
                 PROVE  ret' = Matching \/ FallsShort(ret', Matching)
      OBVIOUS
    <2>1. PICK n \in Counts : CountedLoop(FirstCursor, n)
      BY DEF fetchAll, FetchThrows
    <2>2. FirstCursor = 0
      BY DEF FirstCursor, CursorAfterCount
    <2>3. Ahead(0) = Matching
      BY MatchingType DEF Ahead
    <2> QED BY <2>1, <2>2, <2>3, CountedLoopReturns
  <1>2. TypeOK /\ [Next]_vars =>
          [fetchAll /\ optionsValid => ret' = Matching \/ FallsShort(ret', Matching)]_vars
    BY <1>1
  <1> QED BY <1>2, TypeCorrect, PTL DEF Spec, FetchAllIsComplete

\* fetch(NA) returns what the cursor has not reached.
THEOREM RemainingComplete == Spec => RemainingOnly
  <1>1. TypeOK /\ fetchRemaining /\ optionsValid =>
          ret' = Remaining \/ FallsShort(ret', Remaining)
    <2> SUFFICES ASSUME TypeOK, fetchRemaining, optionsValid
                 PROVE  ret' = Remaining \/ FallsShort(ret', Remaining)
      OBVIOUS
    <2>1. PICK n \in Counts : CountedLoop(NextCursor, n)
      BY DEF fetchRemaining, FetchThrows
    <2>2. NextCursor \in FIDs \cup {0}
      BY DEF NextCursor, CursorAfterCount, TypeOK
    <2>3. Ahead(NextCursor) = Remaining
      BY MatchingType DEF NextCursor, CursorAfterCount, Remaining, Ahead
    <2> QED BY <2>1, <2>2, <2>3, CountedLoopReturns
  <1>2. TypeOK /\ [Next]_vars =>
          [fetchRemaining /\ optionsValid =>
              ret' = Remaining \/ FallsShort(ret', Remaining)]_vars
    BY <1>1
  <1> QED BY <1>2, TypeCorrect, PTL DEF Spec, RemainingOnly

-----------------------------------------------------------------------------
(* The copy of the attribute filter.                                        *)

(* Of the two parts, the first is an invariant: the layer has the filter of *)
(* the copy or none, closed or open.                                        *)
CopyOrNone == query \in {m_attr_filter, NoFilter}

LEMMA FilterCopyStep ==
  ASSUME CopyOrNone, [Next]_vars
  PROVE  /\ CopyOrNone'
         /\ isOpen /\ isOpen' /\ m_attr_filter = query /\ ~FilterMayDrop
                => m_attr_filter' = query'
  <1> DEFINE Follows ==
        isOpen /\ isOpen' /\ m_attr_filter = query /\ ~FilterMayDrop
            => m_attr_filter' = query'
  <1>1. CASE m_attr_filter' = query'
    BY <1>1 DEF CopyOrNone
  <1>2. CASE UNCHANGED <<query, m_attr_filter>>
    BY <1>2 DEF CopyOrNone
  <1>3. CASE Handles
    <2>1. CASE close
      BY <2>1 DEF close, HandlesDropped, FreshLayer, isOpen, CopyOrNone
    <2>2. CASE \E ro \in BOOLEAN : open(ro)
      BY <2>2 DEF open, FreshLayer, FilterMayDrop, CopyOrNone
    <2>3. CASE LayerDropped
      BY <1>2, <2>3 DEF LayerDropped, layer, fields
    <2> QED BY <1>3, <2>1, <2>2, <2>3 DEF Handles
  <1>4. CASE Reads
    <2>1. ASSUME NEW q \in Queries, setAttributeFilter(q) PROVE m_attr_filter' = query'
      BY <2>1 DEF setAttributeFilter
    <2>2. ASSUME NEW f \in FIDs, getFeature(f) PROVE m_attr_filter' = query'
      BY <2>2 DEF getFeature, FiltersAfter, FiltersRestored, FiltersLeft
    <2>3. CASE SetFields
      BY <1>2, <2>3 DEF SetFields, layer
    <2>4. CASE setAttributeFilterRefused
      BY <2>4 DEF setAttributeFilterRefused, Refused, FilterMayDrop, CopyOrNone, fields
    <2>5. ASSUME NEW f \in FIDs, getFeatureRefused(f) PROVE CopyOrNone' /\ Follows
      BY <2>5 DEF getFeatureRefused, Refused, FilterMayDrop, CopyOrNone
    <2>6. CASE UNCHANGED <<query, fields>>
      BY <1>2, <2>6 DEF fields
    <2> QED BY <1>1, <1>4, <2>1, <2>2, <2>3, <2>4, <2>5, <2>6
            DEF Reads, setSpatialFilter, getFeatureCount, resetReading, setNextByIndex,
                fetchPage, fetchAll, fetchRemaining
  <1>5. CASE Writes
    <2>1. UNCHANGED <<query, m_attr_filter>>
      BY <1>5 DEF Writes, createFeature, setFeature, upsertFeature, deleteFeature,
         batchCreateFeature, Written, startTransaction, commitTransaction,
         rollbackTransaction, layer, fields
    <2> QED BY <1>2, <2>1
  <1>6. CASE UNCHANGED vars
    BY <1>2, <1>6 DEF vars, layer, fields
  <1> QED BY <1>3, <1>4, <1>5, <1>6 DEF Next

\* The layer filters by the object's copy or not at all, through every method
\* and refused queries; but for these and open(), copy and layer stay together.
THEOREM FilterCopyIsRight == Spec => FilterCopyFollows
  <1>1. Init => CopyOrNone
    BY DEF Init, CopyOrNone
  <1>2. CopyOrNone /\ [Next]_vars => CopyOrNone'
    BY FilterCopyStep
  <1>3. CopyOrNone /\ [Next]_vars =>
          [isOpen' =>
              /\ query' \in {m_attr_filter', NoFilter}
              /\ isOpen /\ m_attr_filter = query /\ ~FilterMayDrop
                     => m_attr_filter' = query']_vars
    BY FilterCopyStep DEF CopyOrNone
  <1> QED BY <1>1, <1>2, <1>3, PTL DEF Spec, FilterCopyFollows
=============================================================================
