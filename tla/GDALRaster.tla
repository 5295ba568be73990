---------------------------- MODULE GDALRaster ----------------------------
(***************************************************************************)
(* Class GDALRaster: several objects and the datasets they hold.  A        *)
(* dataset is counted by reference in the GDAL library.  Objects opened in *)
(* shared mode on one file get one dataset; a virtual dataset or an        *)
(* algorithm may hold a reference, too ("outside").                        *)
(*                                                                         *)
(* A MEM dataset may point into R vectors, which are protected from R's    *)
(* garbage collector by the object that brought them.  The pixels are left *)
(* out: only whether the writes of an object are pending.                  *)
(*                                                                         *)
(* A method that throws before it changes anything is no action.           *)
(***************************************************************************)
EXTENDS Naturals, FiniteSets

CONSTANTS
    Objs,        \* R objects
    Handles,     \* dataset handles
    Files,       \* file names
    Vectors,     \* R vectors; each stands for its DSN "MEM:::DATAPOINTER=..."
                 \* as well
    NoFile,      \* the empty file name
    NoHandle,    \* nullptr
    MaxOutside   \* bound on the references to a dataset held outside

Names == Files \cup Vectors

ASSUME RasterAssumption ==
    /\ IsFiniteSet(Objs)
    /\ NoFile \notin Names /\ NoHandle \notin Handles
    /\ MaxOutside \in Nat

VARIABLES
    exists,       \* the objects there are, and their fields:
    m_fname,
    m_hDataset,
    m_eAccess,
    m_shared,
    m_preserved_r_objects,
    ds            \* the datasets

object == <<exists, m_fname, m_hDataset, m_eAccess, m_shared, m_preserved_r_objects>>
vars   == <<object, ds>>

IsOpen(o) == exists[o] /\ m_hDataset[o] # NoHandle

\* checkAccess_(GA_Update)
Writable(o) == IsOpen(o) /\ m_eAccess[o] = "update"
-----------------------------------------------------------------------------
(* Datasets. *)

\* A dataset has a description, an access mode, and a driver or none; it is
\* shared or not.
\*   pending - the objects that have written something not yet flushed
\*   data    - the R vectors its bands point into
\*   others  - whether anyone but the object it was made for has held it
Dataset(name, access, isShared, driver, v) ==
    [live |-> TRUE, file |-> name, access |-> access, shared |-> isShared, driver |-> driver,
     refs |-> 1, outside |-> 0, pending |-> {}, data |-> v, others |-> FALSE]

NoDataset ==
    [live |-> FALSE, file |-> NoFile, access |-> "readonly", shared |-> FALSE, driver |-> "none",
     refs |-> 0, outside |-> 0, pending |-> {}, data |-> {}, others |-> FALSE]

\* A handle the library may give to a new dataset.
Free(h) == ~ds[h].live /\ ds[h].outside = 0

Referenced(d) == [d EXCEPT !.refs = @ + 1, !.others = TRUE]

\* A reference from outside.
Held(d) == [Referenced(d) EXCEPT !.outside = @ + 1]

\* Deleting a dataset flushes it; references held outside are left dangling.
Deleted(d) == [NoDataset EXCEPT !.outside = d.outside, !.driver = d.driver]

Dereferenced(d) == IF d.refs = 1 THEN Deleted(d) ELSE [d EXCEPT !.refs = @ - 1]

\* GDALReleaseDataset() counts, and what is held outside is given back so;
\* GDALClose() counts only what is shared.
GDALReleaseDataset(d) == Dereferenced(d)
Dropped(d)            == Dereferenced([d EXCEPT !.outside = @ - 1])
GDALClose(d) == IF d.shared THEN Dereferenced(d) ELSE Deleted(d)

\* Fault: every dataset is closed alike.
CloseAlways(o, d) == GDALClose(d)

CloseDataset(o, d) ==
    IF m_shared[o] \/ d.driver = "none" THEN GDALClose(d) ELSE GDALReleaseDataset(d)

\* The datasets after object o has let go of its own.
DatasetsAfterClose(o) ==
    IF m_hDataset[o] = NoHandle THEN ds ELSE [ds EXCEPT ![m_hDataset[o]] = CloseDataset(o, @)]

\* GDALOpenEx() with GDAL_OF_SHARED: a dataset of the same name that is open in
\* this mode, or for update.
SharedMatch(D, name, access) ==
    {h \in Handles : D[h].live /\ D[h].shared /\ D[h].file = name /\ D[h].access \in {access, "update"}}

\* GDALOpenEx() on the datasets D returns h and leaves D2: a shared one, or a
\* new one.  The DSN of a vector opens nothing by itself: the MEM driver does so
\* only for rvector_to_MEM(), which passes data.
Opens(D, name, access, isShared, data, h, D2) ==
    \/ /\ isShared /\ h \in SharedMatch(D, name, access)
       /\ D2 = [D EXCEPT ![h] = Referenced(@)]
    \/ /\ isShared => SharedMatch(D, name, access) = {}
       /\ ~D[h].live /\ D[h].outside = 0
       /\ \/ name \in Files /\ D2 = [D EXCEPT ![h] = Dataset(name, access, isShared, "file", data)]
          \/ name \notin Files /\ data # {}
                            /\ D2 = [D EXCEPT ![h] = Dataset(name, access, isShared, "MEM", data)]
-----------------------------------------------------------------------------
(* Constructors, factories and the destructor. *)

Construct(o, name, isShared) ==
    /\ ~exists[o]
    /\ exists' = [exists EXCEPT ![o] = TRUE]
    /\ m_fname' = [m_fname EXCEPT ![o] = name]
    /\ m_shared' = [m_shared EXCEPT ![o] = isShared]

\* new(GDALRaster)
newEmpty(o) ==
    /\ Construct(o, NoFile, FALSE)
    /\ UNCHANGED <<m_hDataset, m_eAccess, m_preserved_r_objects, ds>>

\* new(GDALRaster, name, ...); when opening fails the constructor throws.
new(o, name, access, isShared) ==
    /\ Construct(o, name, isShared)
    /\ \E h \in Handles :
          /\ Opens(ds, name, access, isShared, {}, h, ds')
          /\ m_hDataset' = [m_hDataset EXCEPT ![o] = h]
    /\ m_eAccess' = [m_eAccess EXCEPT ![o] = access]
    /\ UNCHANGED m_preserved_r_objects

\* rvector_to_MEM(): opens the DSN of the vector for update and preserves it.
rvector_to_MEM(o, v) ==
    /\ Construct(o, v, TRUE)
    /\ \E h \in Handles :
          /\ Opens(ds, v, "update", TRUE, {v}, h, ds')
          /\ m_hDataset' = [m_hDataset EXCEPT ![o] = h]
    /\ m_eAccess' = [m_eAccess EXCEPT ![o] = "update"]
    /\ m_preserved_r_objects' = [m_preserved_r_objects EXCEPT ![o] = {v}]

\* Fault: what was just made is taken to be writable.
AccessOfNew(d) == "update"

AccessOf(d) == d.access

\* setGDALDatasetH_() on a new object.
setGDALDatasetH_(o, name, h, d) ==
    /\ Construct(o, name, d.shared)
    /\ m_hDataset' = [m_hDataset EXCEPT ![o] = h]
    /\ m_eAccess' = [m_eAccess EXCEPT ![o] = AccessOf(d)]
    /\ ds' = [ds EXCEPT ![h] = d]
    /\ UNCHANGED m_preserved_r_objects

\* create() and createCopy(): the copy may be read-only.
create(o, name, access, driver) ==
    \E h \in Handles : Free(h) /\ setGDALDatasetH_(o, name, h, Dataset(name, access, FALSE, driver, {}))

\* mdim_as_classic(): no name, no driver.
mdim_as_classic(o, access) ==
    \E h \in Handles : Free(h) /\ setGDALDatasetH_(o, NoFile, h, Dataset(NoFile, access, FALSE, "none", {}))

\* autoCreateWarpedVRT(): the new dataset has no name and refers to its source.
autoCreateWarpedVRT(o, src) ==
    /\ IsOpen(src)
    /\ Construct(o, NoFile, FALSE)
    /\ \E h \in Handles :
        LET s == m_hDataset[src] IN
        /\ Free(h)
        /\ ds[s].outside < MaxOutside
        /\ m_hDataset' = [m_hDataset EXCEPT ![o] = h]
        /\ ds' = [ds EXCEPT ![h] = Dataset(NoFile, "update", FALSE, "file", {}),
                            ![s] = Held(@)]
    /\ m_eAccess' = [m_eAccess EXCEPT ![o] = "update"]
    /\ UNCHANGED m_preserved_r_objects

\* GDALAlg$output(): another object on a dataset the algorithm holds, which has
\* a driver.
output(o, h) ==
    /\ ds[h].live /\ ds[h].outside > 0 /\ ds[h].driver # "none"
    /\ setGDALDatasetH_(o, ds[h].file, h, Referenced(ds[h]))

\* Fault: the destructor closes the dataset only.
DestroyedKeeps(o) == m_preserved_r_objects

Destroyed(o) == [m_preserved_r_objects EXCEPT ![o] = {}]

\* The destructor, when R collects the object.
destroy(o) ==
    /\ exists[o]
    /\ ds' = DatasetsAfterClose(o)
    /\ exists' = [exists EXCEPT ![o] = FALSE]
    /\ m_fname' = [m_fname EXCEPT ![o] = NoFile]
    /\ m_hDataset' = [m_hDataset EXCEPT ![o] = NoHandle]
    /\ m_eAccess' = [m_eAccess EXCEPT ![o] = "readonly"]
    /\ m_shared' = [m_shared EXCEPT ![o] = FALSE]
    /\ m_preserved_r_objects' = Destroyed(o)
-----------------------------------------------------------------------------
(* Methods. *)

\* Fault: close() leaves the R objects to the destructor.
ReleasedNever(o) == m_preserved_r_objects

Released(o) ==
    IF m_hDataset[o] = NoHandle THEN m_preserved_r_objects
    ELSE [m_preserved_r_objects EXCEPT ![o] = {}]

close(o) ==
    /\ IsOpen(o)
    /\ ds' = DatasetsAfterClose(o)
    /\ m_hDataset' = [m_hDataset EXCEPT ![o] = NoHandle]
    /\ m_preserved_r_objects' = Released(o)
    /\ UNCHANGED <<exists, m_fname, m_eAccess, m_shared>>

\* open() closes first; it may fail, with the object closed.
open(o, access) ==
    /\ exists[o] /\ m_fname[o] # NoFile
    /\ m_eAccess' = [m_eAccess EXCEPT ![o] = access]
    /\ m_preserved_r_objects' = Released(o)
    /\ \/ \E h \in Handles :
             /\ Opens(DatasetsAfterClose(o), m_fname[o], access, m_shared[o], {}, h, ds')
             /\ m_hDataset' = [m_hDataset EXCEPT ![o] = h]
       \/ /\ ds' = DatasetsAfterClose(o)
          /\ m_hDataset' = [m_hDataset EXCEPT ![o] = NoHandle]
    /\ UNCHANGED <<exists, m_fname, m_shared>>

\* setFilename() names an object, and its dataset if it has one without a name.
setFilename(o, name) ==
    /\ exists[o] /\ m_fname[o] = NoFile
    /\ m_hDataset[o] # NoHandle => ds[m_hDataset[o]].file = NoFile
    /\ m_fname' = [m_fname EXCEPT ![o] = name]
    /\ ds' = IF m_hDataset[o] = NoHandle THEN ds ELSE [ds EXCEPT ![m_hDataset[o]].file = name]
    /\ UNCHANGED <<exists, m_hDataset, m_eAccess, m_shared, m_preserved_r_objects>>

WritePending(o) == ds' = [ds EXCEPT ![m_hDataset[o]].pending = @ \cup {o}]

\* write(), fillRaster(), setGeoTransform(), setNoDataValue(), ...
write(o) ==
    /\ Writable(o)
    /\ WritePending(o)
    /\ UNCHANGED object

\* setMetadata(), setDescription(), setScale(), buildOverviews(), ... ask for
\* read access only.
setMetadata(o) ==
    /\ IsOpen(o)
    /\ WritePending(o)
    /\ UNCHANGED object

flushCache(o) ==
    /\ IsOpen(o)
    /\ ds' = [ds EXCEPT ![m_hDataset[o]].pending = {}]
    /\ UNCHANGED object

\* Fault: one R object is kept.
PreserveFirst(o, v) ==
    [m_preserved_r_objects EXCEPT ![o] = IF @ = {} THEN {v} ELSE @]

Preserve(o, v) == [m_preserved_r_objects EXCEPT ![o] = @ \cup {v}]

\* addBand() with R data: the vector is preserved even if the band could not be
\* added.
addBand(o, v) ==
    /\ Writable(o) /\ ds[m_hDataset[o]].driver = "MEM"
    /\ \/ ds' = [ds EXCEPT ![m_hDataset[o]].data = @ \cup {v}]
       \/ UNCHANGED ds
    /\ m_preserved_r_objects' = Preserve(o, v)
    /\ UNCHANGED <<exists, m_fname, m_hDataset, m_eAccess, m_shared>>
-----------------------------------------------------------------------------
(* References outside. *)

\* An algorithm takes a reference to the dataset of an object, its argument, ...
Hold(o) ==
    LET h == m_hDataset[o] IN
    /\ IsOpen(o)
    /\ ds[h].outside < MaxOutside
    /\ ds' = [ds EXCEPT ![h] = Held(@)]
    /\ UNCHANGED object

\* ... or makes a dataset of its own.
HoldNew(name, access, driver) ==
    \E h \in Handles :
        /\ Free(h) /\ MaxOutside > 0
        /\ ds' = [ds EXCEPT ![h] =
                    [Dataset(name, access, FALSE, driver, {}) EXCEPT !.outside = 1, !.others = TRUE]]
        /\ UNCHANGED object

\* A virtual dataset or an algorithm gives its reference back.
Drop(h) ==
    /\ ds[h].live /\ ds[h].outside > 0
    /\ ds' = [ds EXCEPT ![h] = Dropped(@)]
    /\ UNCHANGED object
-----------------------------------------------------------------------------
Accesses == {"readonly", "update"}

Init ==
    /\ exists = [o \in Objs |-> FALSE]
    /\ m_fname = [o \in Objs |-> NoFile]
    /\ m_hDataset = [o \in Objs |-> NoHandle]
    /\ m_eAccess = [o \in Objs |-> "readonly"]
    /\ m_shared = [o \in Objs |-> FALSE]
    /\ m_preserved_r_objects = [o \in Objs |-> {}]
    /\ ds = [h \in Handles |-> NoDataset]

Next ==
    \/ \E o \in Objs :
        \/ newEmpty(o) \/ destroy(o) \/ close(o)
        \/ write(o) \/ setMetadata(o) \/ flushCache(o) \/ Hold(o)
        \/ \E name \in Names, access \in Accesses, isShared \in BOOLEAN : new(o, name, access, isShared)
        \/ \E v \in Vectors : rvector_to_MEM(o, v) \/ addBand(o, v)
        \/ \E name \in Files, access \in Accesses, driver \in {"file", "MEM"} : create(o, name, access, driver)
        \/ \E access \in Accesses : mdim_as_classic(o, access) \/ open(o, access)
        \/ \E src \in Objs : autoCreateWarpedVRT(o, src)
        \/ \E h \in Handles : output(o, h)
        \/ \E name \in Files : setFilename(o, name)
    \/ \E name \in Files \cup {NoFile}, access \in Accesses, driver \in {"file", "MEM"} :
          HoldNew(name, access, driver)
    \/ \E h \in Handles : Drop(h)

Spec == Init /\ [][Next]_vars
-----------------------------------------------------------------------------
(* Properties. *)

DatasetType ==
    [live : BOOLEAN, file : Names \cup {NoFile}, access : Accesses, shared : BOOLEAN,
     driver : {"file", "MEM", "none"}, refs : Nat, outside : Nat, pending : SUBSET Objs,
     data : SUBSET Vectors, others : BOOLEAN]

\* Types; a collected object leaves nothing behind.
TypeOK ==
    /\ exists \in [Objs -> BOOLEAN]
    /\ m_fname \in [Objs -> Names \cup {NoFile}]
    /\ m_hDataset \in [Objs -> Handles \cup {NoHandle}]
    /\ m_eAccess \in [Objs -> Accesses]
    /\ m_shared \in [Objs -> BOOLEAN]
    /\ m_preserved_r_objects \in [Objs -> SUBSET Vectors]
    /\ ds \in [Handles -> DatasetType]
    /\ \A o \in Objs : ~exists[o] => m_hDataset[o] = NoHandle /\ m_preserved_r_objects[o] = {}

Holders(h) == {o \in Objs : m_hDataset[o] = h}

\* The count of references is exact: no object is left with a dataset that has
\* been deleted, a dataset is deleted when the last reference goes, and one held
\* by a virtual dataset or an algorithm outlives the objects, unless it has no
\* driver.
RefsExact ==
    \A h \in Handles :
        IF ds[h].live THEN ds[h].refs = Cardinality(Holders(h)) + ds[h].outside /\ ds[h].refs > 0
        ELSE Holders(h) = {} /\ (ds[h].outside = 0 \/ ds[h].driver = "none")

\* An object that says it may write has a dataset open for update, however it
\* came by it: opened, shared with another object, created, or taken over from
\* an algorithm.
UpdateIsReal == \A o \in Objs : Writable(o) => ds[m_hDataset[o]].access = "update"

\* While only the object it was made for has held a MEM dataset, every R vector
\* its bands point into is protected from the garbage collector.
DataProtected ==
    \A h \in Handles : ds[h].live /\ ~ds[h].others =>
        \A o \in Holders(h) : ds[h].data \subseteq m_preserved_r_objects[o]

\* No R vector stays protected after close(): memory is not leaked.
ProtectedWhileOpen == \A o \in Objs : m_preserved_r_objects[o] # {} => m_hDataset[o] # NoHandle

\* close() flushes what the object has written.
ClosedIsFlushed ==
    [][\A o \in Objs :
          m_hDataset[o] # NoHandle /\ m_hDataset'[o] = NoHandle /\ exists'[o]
            => o \notin ds'[m_hDataset[o]].pending]_vars
=============================================================================
