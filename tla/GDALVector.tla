----------------------------- MODULE GDALVector -----------------------------
(***************************************************************************)
(* Class GDALVector: one R object on one layer of a vector data source.    *)
(*                                                                         *)
(* The object keeps a copy of part of the state of the OGR layer behind    *)
(* it (the attribute filter and the access mode); the rest (spatial        *)
(* filter, read cursor, features) lives in the layer only.                 *)
(* R calls one method at a time, so every method is one action; a method   *)
(* that throws keeps what it changed before the throw.                     *)
(*                                                                         *)
(* A feature is its FID.  A filter, attribute or spatial, is the set of    *)
(* FIDs it lets through, and NoFilter lets all through.  The layer is read *)
(* in FID order: cursor is the last FID read, 0 at the start.              *)
(*                                                                         *)
(* The methods of an object whose layer handle is null change nothing:     *)
(* checkAccess_() throws or OGR rejects the handle.  They are no actions.  *)
(***************************************************************************)
EXTENDS Integers, FiniteSets

CONSTANTS
    FIDs,             \* the feature ids of the instance
    Queries,          \* the attribute filters the user installs
    Areas,            \* the spatial filters the user installs
    Efficient,        \* the driver has (efficient) transactions
    Emulated,         \* the driver emulates transactions
    CountResets,      \* counting features moves the cursor to the start
    CountFallsShort,  \* the driver may report one feature too few
    Quiet             \* the user has turned warnings off (field quiet)

NoFilter == FIDs

ASSUME VectorAssumption ==
    /\ FIDs \subseteq Nat \ {0} /\ IsFiniteSet(FIDs)
    /\ Queries \subseteq SUBSET FIDs
    /\ Areas \subseteq SUBSET FIDs
    /\ {Efficient, Emulated, CountResets, CountFallsShort, Quiet} \subseteq BOOLEAN

VARIABLES
    \* the data source and the OGR layer
    layerExists,      \* the data source still holds the layer
    rows,             \* the features of the layer
    inTransaction,    \* a transaction is active on the dataset
    saved,            \* the features when it began
    query,            \* the attribute filter installed on the layer
    area,             \* the spatial filter installed on the layer
    cursor,
    \* the object
    m_hDataset,       \* "null", "open", or "released" (freed but not null)
    m_hLayer,         \* "null" or "open"
    m_eAccess,
    m_attr_filter,
    transactionsForce,
    optionsValid,     \* returnGeomAs and wkbByteOrder hold valid values
    \* history
    passed,           \* features the cursor has dealt with since reading began:
                      \* handed out, or written behind the cursor
    call,             \* the last reading call
    ret,              \* what it returned
    warned            \* a surplus of features was reported since reading began

source  == <<layerExists, rows, inTransaction, saved>>
layer   == <<query, area, cursor>>
handles == <<m_hDataset, m_hLayer, m_eAccess>>
fields  == <<m_attr_filter, transactionsForce, optionsValid>>
history == <<passed, call, ret, warned>>
vars    == <<source, layer, handles, fields, history>>

isOpen == m_hDataset # "null"

\* checkAccess_(): the object is open, and writable where that is needed.
Readable == isOpen /\ m_hLayer = "open"
\* Fault: any open object is writable.
AnyWritable == Readable

Writable == Readable /\ m_eAccess = "Update"
-----------------------------------------------------------------------------
(* The OGR layer, as this class uses it. *)

Matching == rows \cap query \cap area
Ahead(c) == {f \in Matching : f > c}

\* The first n features of S in FID order.
Pages(S, n) ==
    {P \in SUBSET S :
        /\ \A f \in P, g \in S : g < f => g \in P
        /\ Cardinality(P) = n \/ (P = S /\ Cardinality(S) < n)}

\* Fault: the cursor counts features, it does not name the last one.
CursorByCount(c, P) == {c + Cardinality(P)}

\* Where the cursor stands when it has moved from c over the features in P.
CursorAfter(c, P) == {x \in P \cup {c} : \A y \in P : y <= x}

\* The call returns no features.
NoResult == call' = "none" /\ ret' = {}

\* Reading begins at the first feature.
Restart ==
    /\ cursor' = 0
    /\ passed' = {}
    /\ warned' = FALSE

\* OGR_L_GetFeatureCount() with the cursor at c: the counts it may report.
Counts ==
    {Cardinality(Matching)} \cup
    (IF CountFallsShort /\ Matching # {} THEN {Cardinality(Matching) - 1} ELSE {})

CursorAfterCount(c) == IF CountResets THEN 0 ELSE c
-----------------------------------------------------------------------------
(* Opening and closing. *)

\* The data source when the dataset is closed: an active transaction may be
\* committed or rolled back, depending on the driver.
RowsAfterClose == IF inTransaction THEN {rows, saved} ELSE {rows}

CloseSource ==
    /\ rows' \in RowsAfterClose
    /\ inTransaction' = FALSE
    /\ saved' = {}
    /\ UNCHANGED layerExists

\* Fault: only the dataset handle is reset.
LayerHandleKept == m_hDataset' = "null" /\ UNCHANGED m_hLayer

HandlesDropped == m_hDataset' = "null" /\ m_hLayer' = "null"

\* A layer that was just opened has no filter and is read from the start; a
\* layer that was closed has no state, and is given the same one here.
FreshLayer ==
    /\ query' = NoFilter
    /\ area' = NoFilter
    /\ Restart

close ==
    /\ isOpen
    /\ CloseSource
    /\ HandlesDropped
    /\ FreshLayer
    /\ NoResult
    /\ UNCHANGED <<m_eAccess, fields>>

\* open(): closes what is open, then succeeds, fails to open the dataset, or
\* opens the dataset but finds no layer; in that case the dataset is released
\* and m_hDataset keeps its value.
open(read_only) ==
    /\ IF isOpen THEN CloseSource ELSE UNCHANGED source
    /\ m_eAccess' = IF read_only THEN "ReadOnly" ELSE "Update"
    /\ \/ layerExists /\ m_hDataset' = "open" /\ m_hLayer' = "open"
       \/ HandlesDropped
       \/ ~layerExists /\ m_hDataset' = "released" /\ m_hLayer' = "null"
    /\ FreshLayer
    /\ NoResult
    /\ UNCHANGED fields

\* Somebody deletes or renames the layer while the object is closed.
LayerDropped ==
    /\ ~isOpen
    /\ layerExists' = FALSE
    /\ UNCHANGED <<rows, inTransaction, saved, layer, handles, fields, passed, warned>>
    /\ NoResult
-----------------------------------------------------------------------------
(* Filters. *)

\* Installing a filter on the layer restarts its reading.
setAttributeFilter(q) ==
    /\ Readable
    /\ query' = q
    /\ m_attr_filter' = q
    /\ Restart
    /\ UNCHANGED <<source, area, handles, transactionsForce, optionsValid>>
    /\ NoResult

\* A query that does not compile: OGR drops the one installed, q, or a driver
\* keeps it, and reading begins again.
Refused(q) ==
    /\ query' \in {q, NoFilter}
    /\ Restart

\* setAttributeFilter() then stops with an R error before it sets the member.
setAttributeFilterRefused ==
    /\ Readable
    /\ Refused(query)
    /\ UNCHANGED <<source, area, handles, fields>>
    /\ NoResult

\* setSpatialFilter(), setSpatialFilterRect(), and clearSpatialFilter() with
\* NoFilter: the object keeps no copy.
setSpatialFilter(a) ==
    /\ Readable
    /\ area' = a
    /\ Restart
    /\ UNCHANGED <<source, query, handles, fields>>
    /\ NoResult

\* The user assigns the fields returnGeomAs, wkbByteOrder, transactionsForce.
SetFields ==
    /\ optionsValid' \in BOOLEAN
    /\ transactionsForce' \in BOOLEAN
    /\ UNCHANGED <<source, layer, handles, m_attr_filter, passed, warned>>
    /\ NoResult
-----------------------------------------------------------------------------
(* Reading. *)

getFeatureCount ==
    /\ Readable
    /\ IF CountResets THEN Restart ELSE UNCHANGED <<cursor, passed, warned>>
    /\ UNCHANGED <<source, query, area, handles, fields>>
    /\ NoResult

resetReading ==
    /\ Readable
    /\ Restart
    /\ UNCHANGED <<source, query, area, handles, fields>>
    /\ NoResult

\* setNextByIndex(i): the features before the i-th count as dealt with.
setNextByIndex(i) ==
    /\ Readable
    /\ \E P \in Pages(Matching, i) :
          /\ cursor' \in CursorAfter(0, P)
          /\ passed' = P
    /\ warned' = FALSE
    /\ UNCHANGED <<source, query, area, handles, fields>>
    /\ NoResult

\* Fault: the loop asks for one more feature before it looks at the count.
PageLoopEager(c, n) ==
    \E P \in Pages(Ahead(c), n) : \E Q \in Pages(Ahead(c), n + 1) :
        /\ ret' = P
        /\ cursor' \in CursorAfter(c, Q)
        /\ passed' = (IF c = 0 THEN {} ELSE passed) \cup P
        /\ warned' = (c # 0 /\ warned)

\* The loop of fetch() from cursor c: at most n features, each taken from the
\* layer once.
PageLoop(c, n) ==
    \E P \in Pages(Ahead(c), n) :
        /\ ret' = P
        /\ cursor' \in CursorAfter(c, P)
        /\ passed' = (IF c = 0 THEN {} ELSE passed) \cup P
        /\ warned' = (c # 0 /\ warned)

SurplusReported(surplus) == ~Quiet /\ surplus # {}

\* The loop over all or all remaining features: n is what the layer counted.
\* One more feature is asked for after it; if there is one it is dropped with
\* a warning, unless warnings are off.  With a count of 0 fetch() returns
\* before the loop.
CountedLoop(c, n) ==
    IF n = 0 THEN
        /\ ret' = {}
        /\ cursor' = c
        /\ passed' = IF c = 0 THEN {} ELSE passed
        /\ warned' = (c # 0 /\ warned)
    ELSE \E P \in Pages(Ahead(c), n) : \E Q \in Pages(Ahead(c), n + 1) :
        LET surplus == Q \ P
        IN  /\ ret' = P
            /\ cursor' \in CursorAfter(c, P \cup surplus)
            /\ passed' = (IF c = 0 THEN {} ELSE passed) \cup P
            /\ warned' = ((c # 0 /\ warned) \/ SurplusReported(surplus))

\* An unsupported returnGeomAs or wkbByteOrder makes fetch() throw; for a full
\* fetch it has reset reading and counted by then.
FetchThrows(c) ==
    /\ ~optionsValid
    /\ IF c = 0 THEN Restart ELSE UNCHANGED <<cursor, passed, warned>>
    /\ ret' = {}

\* fetch(n), n >= 0; getNextFeature() is fetch(1).
fetchPage(n) ==
    /\ Readable
    /\ \/ /\ optionsValid
          /\ IF n = 0 THEN ret' = {} /\ UNCHANGED <<cursor, passed, warned>>
                      ELSE PageLoop(cursor, n)
       \/ FetchThrows(cursor)
    /\ call' = "page"
    /\ UNCHANGED <<source, query, area, handles, fields>>

\* Fault: a full fetch begins where the cursor is.
FirstCursorKept == CursorAfterCount(cursor)

FirstCursor == CursorAfterCount(0)

\* fetch(-1) or fetch(Inf): from the first feature.
fetchAll ==
    /\ Readable
    /\ \/ /\ optionsValid
          /\ \E n \in Counts : CountedLoop(FirstCursor, n)
       \/ FetchThrows(FirstCursor)
    /\ call' = "all"
    /\ UNCHANGED <<source, query, area, handles, fields>>

\* Fault: fetch(NA) resets reading like fetch(-1).
NextCursorReset == CursorAfterCount(0)

NextCursor == CursorAfterCount(cursor)

\* fetch(NA): the count comes first, and may move the cursor.
fetchRemaining ==
    /\ Readable
    /\ \/ /\ optionsValid
          /\ \E n \in Counts : CountedLoop(NextCursor, n)
       \/ FetchThrows(NextCursor)
    /\ call' = "remaining"
    /\ UNCHANGED <<source, query, area, handles, fields>>

\* Fault: OGR gets the filters back, the member keeps the filter on the FID.
FiltersRestoredOnLayer(fid) ==
    /\ query' = m_attr_filter
    /\ m_attr_filter' = {fid}
    /\ UNCHANGED area

\* getFeature() installs a filter on the FID, without the spatial filter, and
\* fetches one feature.  When the fetch succeeds the filters saved before it are
\* installed again: m_attr_filter, and the layer's spatial filter.
FiltersRestored(fid) ==
    /\ query' = m_attr_filter
    /\ UNCHANGED <<m_attr_filter, area>>

\* When it throws they are not.
FiltersLeft(fid) ==
    /\ query' = {fid}
    /\ m_attr_filter' = {fid}
    /\ area' = NoFilter

FiltersAfter(fid) ==
    IF optionsValid THEN FiltersRestored(fid) ELSE FiltersLeft(fid)

getFeature(fid) ==
    /\ Readable
    /\ FiltersAfter(fid)
    /\ Restart
    /\ call' = "feature"
    /\ ret' = IF optionsValid THEN rows \cap {fid} ELSE {}
    /\ UNCHANGED <<source, handles, transactionsForce, optionsValid>>

\* OGR refuses the query on the FID or, after the fetch, the one saved before it
\* (on a field that has gone since): an R error, with the spatial filter cleared.
getFeatureRefused(fid) ==
    /\ Readable
    /\ \/ Refused(query) /\ UNCHANGED m_attr_filter
       \/ optionsValid /\ m_attr_filter' = {fid} /\ Refused({fid})
    /\ area' = NoFilter
    /\ call' = "feature"
    /\ ret' = {}
    /\ UNCHANGED <<source, handles, transactionsForce, optionsValid>>
-----------------------------------------------------------------------------
(* Writing.  A write that fails returns FALSE and changes nothing. *)

\* The features in W are written; those at or behind the cursor were not
\* skipped by it.
Written(W) ==
    /\ rows' = rows \cup W
    /\ passed' = passed \cup {f \in W : f <= cursor}
    /\ UNCHANGED <<layerExists, inTransaction, saved, layer, handles, m_attr_filter,
                   transactionsForce, optionsValid, warned>>
    /\ NoResult

\* createFeature(): the FID is the driver's choice.
createFeature(fid) == Writable /\ fid \notin rows /\ Written({fid})

\* batchCreateFeature(): W are the rows of the data frame that could be written.
batchCreateFeature(W) == Writable /\ W # {} /\ W \cap rows = {} /\ Written(W)

setFeature(fid) == Writable /\ fid \in rows /\ Written({fid})

upsertFeature(fid) == Writable /\ Written({fid})

\* deleteFeature() does not ask checkAccess_(); OGR refuses a null layer.
deleteFeature(fid) ==
    /\ m_eAccess = "Update"
    /\ m_hLayer = "open"
    /\ fid \in rows
    /\ rows' = rows \ {fid}
    /\ UNCHANGED <<layerExists, inTransaction, saved, layer, handles, fields, passed, warned>>
    /\ NoResult
-----------------------------------------------------------------------------
(* Transactions. *)

TransactionsAllowed == Efficient \/ (transactionsForce /\ Emulated)

\* Read access is enough; the dataset refuses a second transaction.
startTransaction ==
    /\ Readable
    /\ TransactionsAllowed
    /\ ~inTransaction
    /\ inTransaction' = TRUE
    /\ saved' = rows
    /\ UNCHANGED <<layerExists, rows, layer, handles, fields, passed, warned>>
    /\ NoResult

commitTransaction ==
    /\ Readable
    /\ inTransaction
    /\ inTransaction' = FALSE
    /\ saved' = {}
    /\ UNCHANGED <<layerExists, rows, layer, handles, fields, passed, warned>>
    /\ NoResult

\* The driver keeps the cursor or restarts reading.
rollbackTransaction ==
    /\ Readable
    /\ inTransaction
    /\ rows' = saved
    /\ inTransaction' = FALSE
    /\ saved' = {}
    /\ \/ Restart
       \/ /\ passed' = passed \cup {f \in saved : f <= cursor}
          /\ UNCHANGED <<cursor, warned>>
    /\ UNCHANGED <<layerExists, query, area, handles, fields>>
    /\ NoResult
-----------------------------------------------------------------------------
\* The constructor has succeeded.
Init ==
    /\ layerExists = TRUE /\ rows \in SUBSET FIDs
    /\ inTransaction = FALSE /\ saved = {}
    /\ query = NoFilter /\ area = NoFilter /\ cursor = 0
    /\ m_hDataset = "open" /\ m_hLayer = "open"
    /\ m_eAccess \in {"ReadOnly", "Update"}
    /\ m_attr_filter = NoFilter
    /\ transactionsForce = FALSE /\ optionsValid = TRUE
    /\ passed = {} /\ call = "none" /\ ret = {} /\ warned = FALSE

Handles ==
    \/ close
    \/ \E ro \in BOOLEAN : open(ro)
    \/ LayerDropped

Reads ==
    \/ \E q \in Queries : setAttributeFilter(q)
    \/ setAttributeFilterRefused
    \/ \E a \in Areas : setSpatialFilter(a)
    \/ SetFields
    \/ getFeatureCount
    \/ resetReading
    \/ \E i \in 0..Cardinality(FIDs) : setNextByIndex(i)
    \/ \E n \in 0..Cardinality(FIDs) : fetchPage(n)
    \/ fetchAll
    \/ fetchRemaining
    \/ \E f \in FIDs : getFeature(f) \/ getFeatureRefused(f)

Writes ==
    \/ \E f \in FIDs : createFeature(f) \/ setFeature(f) \/ upsertFeature(f) \/ deleteFeature(f)
    \/ \E W \in SUBSET FIDs : batchCreateFeature(W)
    \/ startTransaction
    \/ commitTransaction
    \/ rollbackTransaction

Next == Handles \/ Reads \/ Writes

Spec == Init /\ [][Next]_vars
-----------------------------------------------------------------------------
(* Properties. *)

TypeOK ==
    /\ layerExists \in BOOLEAN /\ inTransaction \in BOOLEAN
    /\ rows \subseteq FIDs /\ saved \subseteq FIDs
    /\ query \subseteq FIDs /\ area \subseteq FIDs
    /\ cursor \in FIDs \cup {0}
    /\ m_hDataset \in {"null", "open", "released"} /\ m_hLayer \in {"null", "open"}
    /\ m_eAccess \in {"ReadOnly", "Update"}
    /\ m_attr_filter \subseteq FIDs
    /\ transactionsForce \in BOOLEAN /\ optionsValid \in BOOLEAN
    /\ passed \subseteq FIDs
    /\ call \in {"none", "page", "all", "remaining", "feature"}
    /\ ret \subseteq FIDs
    /\ warned \in BOOLEAN

\* A layer handle is used only while its dataset is alive: whatever sequence of
\* opens, failed opens and closes went before, the methods that go by m_hLayer
\* alone (deleteFeature() asks no checkAccess_()) never reach a freed layer.
LayerHandleAlive == m_hLayer = "open" <=> m_hDataset = "open"

\* Paging loses nothing: a feature the installed filters let through, at or
\* behind the cursor, was handed out by fetch() or getNextFeature(), was skipped
\* by setNextByIndex(), or was written behind the cursor; or a surplus was
\* reported.  Filters, writes, transactions and reopening come in between.  With
\* warnings off it holds as long as the driver counts right.
NothingSkippedSilently ==
    isOpen /\ ~(Quiet /\ CountFallsShort) =>
        warned \/ \A f \in Matching : f <= cursor => f \in passed

\* What a count that falls short may cost of the features in S: one of them, and
\* not silently, unless warnings are off or the count was zero.
FallsShort(P, S) ==
    /\ CountFallsShort /\ Cardinality(S \ P) = 1
    /\ warned' \/ Quiet \/ P = {}

\* A full fetch returns every feature the filters let through, wherever the
\* cursor was, as long as the driver counts right.
FetchAllIsComplete ==
    [][fetchAll /\ optionsValid => ret' = Matching \/ FallsShort(ret', Matching)]_vars

\* fetch(NA) returns the features the cursor has not reached; with a driver that
\* moves the cursor when it counts, it begins again at the first one.
Remaining == IF CountResets THEN Matching ELSE Ahead(cursor)
RemainingOnly ==
    [][fetchRemaining /\ optionsValid =>
        ret' = Remaining \/ FallsShort(ret', Remaining)]_vars

\* The steps after which the layer may have no filter although the object's copy
\* names one: open(), which forgets the filters, and a query that is refused.
FilterMayDrop ==
    \/ \E ro \in BOOLEAN : open(ro)
    \/ setAttributeFilterRefused
    \/ \E f \in FIDs : getFeatureRefused(f)

\* The filter of the layer is the object's copy of it or none at all, whatever
\* failed on the way: never another one, and never a filter the object knows
\* nothing of.  It is none only after an open() or a refused query, which leave
\* the copy as it is; every other method keeps the two together.
FilterCopyFollows ==
    [][isOpen' =>
        /\ query' \in {m_attr_filter', NoFilter}
        /\ isOpen /\ m_attr_filter = query /\ ~FilterMayDrop => m_attr_filter' = query']_vars

\* An object opened read-only does not change the data, not even when it closes
\* with a transaction active.
ReadOnlyNeverWrites ==
    [][m_eAccess = "ReadOnly" => rows' = rows]_vars

\* isOpen() is TRUE only when a dataset is open.
IsOpenSound == isOpen => m_hDataset = "open"
=============================================================================
