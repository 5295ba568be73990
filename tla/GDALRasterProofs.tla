------------------------ MODULE GDALRasterProofs ------------------------
(***************************************************************************)
(* Proofs about GDALRaster: types, the exact count of references, real     *)
(* write access and the release of R objects, for any number of objects,   *)
(* handles, files and vectors.                                             *)
(***************************************************************************)
EXTENDS GDALRaster, FiniteSetTheorems, TLAPS

(***************************************************************************)
(* The invariant is stated for any functions in place of the variables, so *)
(* that the actions that change handles and datasets in two steps (open()  *)
(* closes first) can be taken apart.                                       *)
(***************************************************************************)

HeldBy(hds, h) == {o \in Objs : hds[o] = h}

\* The dataset d counts n objects and what is outside.
Counted(d, n) ==
    IF d.live THEN d.refs = n + d.outside /\ d.refs > 0
    ELSE n = 0 /\ (d.outside = 0 \/ d.driver = "none")

\* The dataset d, which the objects in S have, has one object when it has no
\* driver, and also while nobody but that object has held it.
Lone(d, S) ==
    /\ d.driver = "none" => ~d.shared
    /\ d.driver = "none" \/ ~d.others => \A o, p \in S : o = p

\* An object, its fields and the vectors it protects agree with its dataset d.
Agree(d, access, isShared, kept) ==
    /\ isShared = d.shared
    /\ access = "update" => d.access = "update"
    /\ d.others \/ d.data \subseteq kept

Sound(hds, access, isShared, kept, D) ==
    \A h \in Handles :
        /\ Counted(D[h], Cardinality(HeldBy(hds, h)))
        /\ Lone(D[h], HeldBy(hds, h))
        /\ \A o \in HeldBy(hds, h) : Agree(D[h], access[o], isShared[o], kept[o])

DatasetFunctions == [Handles -> DatasetType]
HandleFunctions  == [Objs -> Handles \cup {NoHandle}]

\* The objects after a step: o has h now, the others are as they were.
OthersStay(hds, access, isShared, kept, hds2, access2, isShared2, kept2, o, h) ==
    /\ hds \in HandleFunctions /\ hds2 \in HandleFunctions
    /\ hds2[o] = h
    /\ \A p \in Objs \ {o} : hds2[p] = hds[p] /\ access2[p] = access[p]
                             /\ isShared2[p] = isShared[p] /\ kept2[p] = kept[p]

\* The datasets after a step: only h changes.
OnlyChanges(D, D2, h) == \A g \in Handles \ {h} : D2[g] = D[g]

USE DEF Accesses

LEMMA HeldByFinite ==
    ASSUME NEW hds, NEW h
    PROVE  IsFiniteSet(HeldBy(hds, h)) /\ Cardinality(HeldBy(hds, h)) \in Nat
BY RasterAssumption, FS_Subset, FS_CardinalityType DEF HeldBy

\* An object that had no dataset gets h.
LEMMA HeldByMore ==
    ASSUME NEW hds \in HandleFunctions, NEW o \in Objs, hds[o] = NoHandle,
           NEW h \in Handles,
           NEW hds2 \in HandleFunctions, hds2[o] = h, \A p \in Objs \ {o} : hds2[p] = hds[p]
    PROVE  /\ HeldBy(hds2, h) = HeldBy(hds, h) \cup {o}
           /\ Cardinality(HeldBy(hds2, h)) = Cardinality(HeldBy(hds, h)) + 1
           /\ \A g \in Handles \ {h} : HeldBy(hds2, g) = HeldBy(hds, g)
<1>1. HeldBy(hds2, h) = HeldBy(hds, h) \cup {o}
  BY DEF HeldBy, HandleFunctions
<1>2. o \notin HeldBy(hds, h)
  BY RasterAssumption DEF HeldBy
<1>3. Cardinality(HeldBy(hds, h) \cup {o}) = Cardinality(HeldBy(hds, h)) + 1
  BY <1>2, HeldByFinite, FS_AddElement
<1>4. \A g \in Handles \ {h} : HeldBy(hds2, g) = HeldBy(hds, g)
  BY RasterAssumption DEF HeldBy, HandleFunctions
<1>. QED BY <1>1, <1>3, <1>4

\* An object lets its dataset h go.
LEMMA HeldByLess ==
    ASSUME NEW hds \in HandleFunctions, NEW o \in Objs, NEW h \in Handles,
           hds[o] = h,
           NEW hds2 \in HandleFunctions, hds2[o] = NoHandle, \A p \in Objs \ {o} : hds2[p] = hds[p]
    PROVE  /\ HeldBy(hds2, h) = HeldBy(hds, h) \ {o}
           /\ Cardinality(HeldBy(hds, h)) = Cardinality(HeldBy(hds2, h)) + 1
           /\ \A g \in Handles \ {h} : HeldBy(hds2, g) = HeldBy(hds, g)
<1>1. HeldBy(hds2, h) = HeldBy(hds, h) \ {o}
  BY RasterAssumption DEF HeldBy, HandleFunctions
<1>2. o \in HeldBy(hds, h)
  BY DEF HeldBy
<1>3. Cardinality(HeldBy(hds, h) \ {o}) = Cardinality(HeldBy(hds, h)) - 1
  BY <1>2, HeldByFinite, FS_RemoveElement
<1>4. Cardinality(HeldBy(hds, h)) = Cardinality(HeldBy(hds2, h)) + 1
  <2>1. Cardinality(HeldBy(hds, h)) \in Nat
    BY HeldByFinite
  <2>2. Cardinality(HeldBy(hds2, h)) = Cardinality(HeldBy(hds, h)) - 1
    BY <1>1, <1>3
  <2>. QED BY <2>1, <2>2
<1>5. \A g \in Handles \ {h} : HeldBy(hds2, g) = HeldBy(hds, g)
  BY RasterAssumption DEF HeldBy, HandleFunctions
<1>. QED BY <1>1, <1>4, <1>5
-----------------------------------------------------------------------------
(* Taking and leaving a handle.  The functions with a 2 are those after. *)

\* o gets the handle h of a new dataset.
LEMMA TakeNew ==
    ASSUME NEW hds, NEW access, NEW isShared, NEW kept, NEW D,
           NEW hds2, NEW access2, NEW isShared2, NEW kept2, NEW D2,
           Sound(hds, access, isShared, kept, D),
           NEW o \in Objs, hds[o] = NoHandle,
           NEW h \in Handles, ~D[h].live, D[h].outside = 0,
           D2[h].live, D2[h].refs = 1, D2[h].outside = 0,
           D2[h].driver = "none" => ~D2[h].shared,
           Agree(D2[h], access2[o], isShared2[o], kept2[o]),
           OnlyChanges(D, D2, h),
           OthersStay(hds, access, isShared, kept, hds2, access2, isShared2, kept2, o, h)
    PROVE  Sound(hds2, access2, isShared2, kept2, D2)
<1>. USE DEF OthersStay, OnlyChanges
<1>1. /\ HeldBy(hds2, h) = HeldBy(hds, h) \cup {o}
      /\ Cardinality(HeldBy(hds2, h)) = Cardinality(HeldBy(hds, h)) + 1
      /\ \A g \in Handles \ {h} : HeldBy(hds2, g) = HeldBy(hds, g)
  BY HeldByMore
<1>2. Cardinality(HeldBy(hds, h)) = 0
  BY DEF Sound, Counted
<1>3. HeldBy(hds2, h) = {o}
  BY <1>1, <1>2, HeldByFinite, FS_EmptySet
<1>4. \A g \in Handles \ {h} : o \notin HeldBy(hds, g) /\ HeldBy(hds, g) \subseteq Objs
  BY RasterAssumption DEF HeldBy
<1>5. ASSUME NEW g \in Handles
      PROVE  /\ Counted(D2[g], Cardinality(HeldBy(hds2, g)))
             /\ Lone(D2[g], HeldBy(hds2, g))
             /\ \A p \in HeldBy(hds2, g) : Agree(D2[g], access2[p], isShared2[p], kept2[p])
  <2>1. CASE g = h
    <3>1. Counted(D2[h], 1)
      BY DEF Counted
    <3>2. Lone(D2[h], {o})
      BY DEF Lone
    <3>3. Cardinality(HeldBy(hds2, h)) = 1
      BY <1>1, <1>2
    <3>4. \A p \in HeldBy(hds2, h) : Agree(D2[h], access2[p], isShared2[p], kept2[p])
      BY <1>3
    <3>. QED BY <2>1, <3>1, <3>2, <3>3, <3>4, <1>3
  <2>2. CASE g # h
    BY <2>2, <1>1, <1>4 DEF Sound
  <2>. QED BY <2>1, <2>2
<1>. QED BY <1>5 DEF Sound

\* o gets a handle that is shared, or taken over from an algorithm.
LEMMA TakeShared ==
    ASSUME NEW hds, NEW access, NEW isShared, NEW kept, NEW D,
           NEW hds2, NEW access2, NEW isShared2, NEW kept2, NEW D2,
           Sound(hds, access, isShared, kept, D),
           NEW o \in Objs, hds[o] = NoHandle,
           NEW h \in Handles, D[h] \in DatasetType, D[h].live, D[h].driver # "none",
           D2[h] = Referenced(D[h]),
           Agree(D2[h], access2[o], isShared2[o], kept2[o]),
           OnlyChanges(D, D2, h),
           OthersStay(hds, access, isShared, kept, hds2, access2, isShared2, kept2, o, h)
    PROVE  Sound(hds2, access2, isShared2, kept2, D2)
<1>. USE DEF OthersStay, OnlyChanges
<1>1. /\ HeldBy(hds2, h) = HeldBy(hds, h) \cup {o}
      /\ Cardinality(HeldBy(hds2, h)) = Cardinality(HeldBy(hds, h)) + 1
      /\ \A g \in Handles \ {h} : HeldBy(hds2, g) = HeldBy(hds, g)
  BY HeldByMore
<1>2. Cardinality(HeldBy(hds, h)) \in Nat
  BY HeldByFinite
<1>3. \A g \in Handles : HeldBy(hds, g) \subseteq Objs
  BY DEF HeldBy
<1>4. \A g \in Handles : o \notin HeldBy(hds, g)
  BY RasterAssumption DEF HeldBy
<1>5. ASSUME NEW g \in Handles
      PROVE  /\ Counted(D2[g], Cardinality(HeldBy(hds2, g)))
             /\ Lone(D2[g], HeldBy(hds2, g))
             /\ \A p \in HeldBy(hds2, g) : Agree(D2[g], access2[p], isShared2[p], kept2[p])
  <2>1. CASE g = h
    <3>1. Counted(D[h], Cardinality(HeldBy(hds, h)))
      BY DEF Sound
    <3>2. Counted(Referenced(D[h]), Cardinality(HeldBy(hds, h)) + 1)
      BY <3>1, <1>2 DEF Counted, Referenced, DatasetType
    <3>3. Lone(Referenced(D[h]), HeldBy(hds2, h))
      BY DEF Lone, Referenced, DatasetType
    <3>4. \A p \in HeldBy(hds, h) : Agree(Referenced(D[h]), access[p], isShared[p], kept[p])
      BY DEF Agree, Referenced, DatasetType, Sound
    <3>5. \A p \in HeldBy(hds, h) \cup {o} : Agree(D2[h], access2[p], isShared2[p], kept2[p])
      BY <3>4, <1>3, <1>4
    <3>. QED BY <2>1, <3>2, <3>3, <3>5, <1>1
  <2>2. CASE g # h
    BY <2>2, <1>1, <1>3, <1>4 DEF Sound
  <2>. QED BY <2>1, <2>2
<1>. QED BY <1>5 DEF Sound

\* o lets its dataset go, by the call that close() and the destructor choose.
LEMMA LetGo ==
    ASSUME NEW hds, NEW access, NEW isShared, NEW kept, NEW D,
           NEW hds2, NEW access2, NEW isShared2, NEW kept2, NEW D2,
           Sound(hds, access, isShared, kept, D),
           NEW o \in Objs, NEW h \in Handles, hds[o] = h, D[h] \in DatasetType,
           D2[h] = IF isShared[o] \/ D[h].driver = "none" THEN GDALClose(D[h])
                                                         ELSE GDALReleaseDataset(D[h]),
           OnlyChanges(D, D2, h),
           OthersStay(hds, access, isShared, kept, hds2, access2, isShared2, kept2, o, NoHandle)
    PROVE  Sound(hds2, access2, isShared2, kept2, D2)
<1>. USE DEF OthersStay, OnlyChanges
<1>. DEFINE n == Cardinality(HeldBy(hds2, h))
<1>1. /\ HeldBy(hds2, h) = HeldBy(hds, h) \ {o}
      /\ Cardinality(HeldBy(hds, h)) = n + 1
      /\ \A g \in Handles \ {h} : HeldBy(hds2, g) = HeldBy(hds, g)
  BY HeldByLess
<1>2. n \in Nat /\ IsFiniteSet(HeldBy(hds2, h))
  BY HeldByFinite
<1>3. \A g \in Handles : HeldBy(hds, g) \subseteq Objs
  BY DEF HeldBy
<1>4. o \in HeldBy(hds, h) /\ \A g \in Handles \ {h} : o \notin HeldBy(hds, g)
  BY RasterAssumption DEF HeldBy
<1>. HIDE DEF n
<1>5. D[h].live /\ D[h].refs = n + 1 + D[h].outside
  BY <1>1, <1>2 DEF Sound, Counted
<1>6. Lone(D[h], HeldBy(hds, h)) /\ isShared[o] = D[h].shared
  BY <1>4 DEF Sound, Agree
<1>7. \A p \in HeldBy(hds2, h) : Agree(D[h], access2[p], isShared2[p], kept2[p])
  BY <1>1, <1>3 DEF Sound
<1>8. CASE D2[h] = Deleted(D[h]) /\ n = 0 /\ (D[h].outside = 0 \/ D[h].driver = "none")
  <2>1. HeldBy(hds2, h) = {}
    BY <1>8, <1>2, FS_EmptySet DEF n
  <2>2. Counted(D2[h], 0)
    BY <1>8 DEF Counted, Deleted, NoDataset, DatasetType
  <2>3. Lone(D2[h], {})
    BY <1>8 DEF Lone, Deleted, NoDataset, DatasetType
  <2>4. Counted(D2[h], Cardinality(HeldBy(hds2, h)))
    BY <2>2, <1>8 DEF n
  <2>5. ASSUME NEW g \in Handles
        PROVE  /\ Counted(D2[g], Cardinality(HeldBy(hds2, g)))
               /\ Lone(D2[g], HeldBy(hds2, g))
               /\ \A p \in HeldBy(hds2, g) : Agree(D2[g], access2[p], isShared2[p], kept2[p])
    <3>1. CASE g = h
      BY <3>1, <2>1, <2>3, <2>4
    <3>2. CASE g # h
      BY <3>2, <1>1, <1>3, <1>4 DEF Sound
    <3>. QED BY <3>1, <3>2
  <2>. QED BY <2>5 DEF Sound
<1>9. CASE D2[h] = [D[h] EXCEPT !.refs = @ - 1] /\ D[h].refs # 1
  <2>1. Counted(D2[h], n)
    BY <1>9, <1>2, <1>5 DEF Counted, DatasetType
  <2>2. Lone(D2[h], HeldBy(hds2, h))
    BY <1>9, <1>1, <1>6 DEF Lone, DatasetType
  <2>3. \A p \in HeldBy(hds2, h) : Agree(D2[h], access2[p], isShared2[p], kept2[p])
    BY <1>7, <1>9 DEF Agree, DatasetType
  <2>4. ASSUME NEW g \in Handles
        PROVE  /\ Counted(D2[g], Cardinality(HeldBy(hds2, g)))
               /\ Lone(D2[g], HeldBy(hds2, g))
               /\ \A p \in HeldBy(hds2, g) : Agree(D2[g], access2[p], isShared2[p], kept2[p])
    <3>1. CASE g = h
      BY <3>1, <2>1, <2>2, <2>3 DEF n
    <3>2. CASE g # h
      BY <3>2, <1>1, <1>3, <1>4 DEF Sound
    <3>. QED BY <3>1, <3>2
  <2>. QED BY <2>4 DEF Sound
<1>10. CASE D2[h] = Deleted(D[h]) /\ ~D[h].shared
  \* GDALClose() on a dataset that is not shared: it has no driver.
  <2>1. CASE D[h].driver = "none"
    <3>1. HeldBy(hds2, h) = {}
      BY <2>1, <1>1, <1>4, <1>6 DEF Lone
    <3>2. n = 0
      BY <3>1, FS_EmptySet DEF n
    <3>. QED BY <3>2, <2>1, <1>8, <1>10
  <2>2. CASE D[h].driver # "none"
    <3>1. D2[h] = Dereferenced(D[h])
      BY <2>2, <1>6, <1>10 DEF GDALReleaseDataset
    <3>2. CASE D[h].refs = 1
      BY <3>1, <3>2, <1>2, <1>5, <1>8 DEF Dereferenced, DatasetType
    <3>3. CASE D[h].refs # 1
      BY <3>1, <3>3, <1>9 DEF Dereferenced
    <3>. QED BY <3>2, <3>3
  <2>. QED BY <2>1, <2>2
<1>11. CASE D2[h] = Dereferenced(D[h])
  <2>1. CASE D[h].refs = 1
    BY <1>11, <2>1, <1>2, <1>5, <1>8 DEF Dereferenced, DatasetType
  <2>2. CASE D[h].refs # 1
    BY <1>11, <2>2, <1>9 DEF Dereferenced
  <2>. QED BY <2>1, <2>2
<1>. QED BY <1>10, <1>11 DEF GDALClose, GDALReleaseDataset
-----------------------------------------------------------------------------
(* One dataset changes, and the objects that have it stay the same. *)

LEMMA Touch ==
    ASSUME NEW hds, NEW access, NEW isShared, NEW kept, NEW D, NEW kept2, NEW D2,
           Sound(hds, access, isShared, kept, D),
           NEW h \in Handles,
           OnlyChanges(D, D2, h),
           Counted(D2[h], Cardinality(HeldBy(hds, h))),
           Lone(D2[h], HeldBy(hds, h)),
           \A o \in HeldBy(hds, h) : Agree(D2[h], access[o], isShared[o], kept2[o]),
           \A o \in Objs : hds[o] = h \/ kept2[o] = kept[o]
    PROVE  Sound(hds, access, isShared, kept2, D2)
<1>. USE DEF OnlyChanges
<1>1. \A g \in Handles \ {h} : \A o \in HeldBy(hds, g) : kept2[o] = kept[o]
  BY DEF HeldBy
<1>. QED BY <1>1 DEF Sound

\* What the library and its holders do to the type of a dataset.
LEMMA DatasetTypes ==
    ASSUME NEW d \in DatasetType
    PROVE  /\ Referenced(d) \in DatasetType
           /\ Deleted(d) \in DatasetType
           /\ d.refs > 0 => /\ Dereferenced(d) \in DatasetType
                            /\ GDALClose(d) \in DatasetType /\ GDALReleaseDataset(d) \in DatasetType
<1>1. Referenced(d) \in DatasetType
  <2>1. [d EXCEPT !.refs = @ + 1] \in DatasetType
    BY DEF DatasetType
  <2>2. \A e \in DatasetType : [e EXCEPT !.others = TRUE] \in DatasetType
    BY DEF DatasetType
  <2>3. Referenced(d) = [[d EXCEPT !.refs = @ + 1] EXCEPT !.others = TRUE]
    BY DEF Referenced, DatasetType
  <2>. QED BY <2>1, <2>2, <2>3
<1>2. Deleted(d) \in DatasetType
  BY DEF DatasetType, Deleted, NoDataset
<1>3. d.refs > 0 => [d EXCEPT !.refs = @ - 1] \in DatasetType
  BY DEF DatasetType
<1>. QED BY <1>1, <1>2, <1>3 DEF Dereferenced, GDALClose, GDALReleaseDataset

LEMMA DatasetFields ==
    ASSUME NEW name \in Names \cup {NoFile}, NEW a \in Accesses, NEW s \in BOOLEAN,
           NEW driver \in {"file", "MEM", "none"}, NEW v \in SUBSET Vectors
    PROVE  LET d == Dataset(name, a, s, driver, v) IN
           /\ d \in DatasetType /\ d.live /\ d.refs = 1 /\ d.outside = 0
           /\ d.shared = s /\ d.driver = driver /\ d.access = a /\ d.data = v
BY DEF Dataset, DatasetType

\* An object that has no dataset opens one.
LEMMA OpenStep ==
    ASSUME NEW hds, NEW access, NEW isShared, NEW kept, NEW D,
           NEW hds2, NEW access2, NEW isShared2, NEW kept2, NEW D2,
           D \in DatasetFunctions,
           Sound(hds, access, isShared, kept, D),
           NEW o \in Objs, hds[o] = NoHandle,
           NEW name \in Names \cup {NoFile}, NEW a \in Accesses, NEW s \in BOOLEAN,
           NEW data \in SUBSET Vectors, data \subseteq kept2[o],
           NEW h \in Handles, Opens(D, name, a, s, data, h, D2),
           OthersStay(hds, access, isShared, kept, hds2, access2, isShared2, kept2, o, h),
           access2[o] = a, isShared2[o] = s
    PROVE  D2 \in DatasetFunctions /\ Sound(hds2, access2, isShared2, kept2, D2)
<1>1. CASE s /\ h \in SharedMatch(D, name, a) /\ D2 = [D EXCEPT ![h] = Referenced(@)]
  <2>2. D[h].live /\ D[h].shared /\ (a = "update" => D[h].access = "update")
    BY <1>1 DEF SharedMatch
  <2>3. D[h] \in DatasetType /\ Referenced(D[h]) \in DatasetType
    BY <2>2, DatasetTypes DEF DatasetFunctions
  <2>4. /\ D2 \in DatasetFunctions /\ D2[h] = Referenced(D[h])
        /\ \A g \in Handles \ {h} : D2[g] = D[g]
    BY <1>1, <2>2, <2>3 DEF DatasetFunctions
  <2>5. D[h].driver # "none"
    BY <2>2 DEF Sound, Lone
  <2>6. Agree(D2[h], access2[o], isShared2[o], kept2[o])
    BY <1>1, <2>2, <2>3, <2>4 DEF Agree, Referenced, DatasetType
  <2>7. OnlyChanges(D, D2, h)
    BY <2>4 DEF OnlyChanges
  <2>8. Sound(hds2, access2, isShared2, kept2, D2)
    BY <2>2, <2>3, <2>4, <2>5, <2>6, <2>7, TakeShared
  <2>. QED BY <2>4, <2>8
<1>2. ASSUME ~D[h].live, D[h].outside = 0, NEW driver \in {"file", "MEM"},
             D2 = [D EXCEPT ![h] = Dataset(name, a, s, driver, data)]
      PROVE  D2 \in DatasetFunctions /\ Sound(hds2, access2, isShared2, kept2, D2)
  <2>. DEFINE d == Dataset(name, a, s, driver, data)
  <2>2. /\ d \in DatasetType /\ d.live /\ d.refs = 1 /\ d.outside = 0
        /\ d.shared = s /\ d.driver # "none" /\ d.access = a /\ d.data = data
    BY DatasetFields
  <2>. HIDE DEF d
  <2>3. D2 = [D EXCEPT ![h] = d]
    BY <1>2 DEF d
  <2>4. /\ D2 \in DatasetFunctions /\ D2[h] = d
        /\ \A g \in Handles \ {h} : D2[g] = D[g]
    BY <2>2, <2>3 DEF DatasetFunctions
  <2>5. Agree(D2[h], access2[o], isShared2[o], kept2[o])
    BY <2>2, <2>4 DEF Agree
  <2>6. OnlyChanges(D, D2, h)
    BY <2>4 DEF OnlyChanges
  <2>7. D2[h].live /\ D2[h].refs = 1 /\ D2[h].outside = 0 /\ D2[h].driver # "none"
    BY <2>2, <2>4
  <2>8. Sound(hds2, access2, isShared2, kept2, D2)
    BY <1>2, <2>4, <2>5, <2>6, <2>7, TakeNew
  <2>. QED BY <2>4, <2>8
<1>. QED BY <1>1, <1>2 DEF Opens
-----------------------------------------------------------------------------
(* The invariant, and every action keeps it. *)

SoundNow == Sound(m_hDataset, m_eAccess, m_shared, m_preserved_r_objects, ds)

IInv == TypeOK /\ SoundNow /\ ProtectedWhileOpen

\* The objects after a step of o, which has h then.
StepOf(o, h) ==
    OthersStay(m_hDataset, m_eAccess, m_shared, m_preserved_r_objects,
               m_hDataset', m_eAccess', m_shared', m_preserved_r_objects', o, h)

\* What an object gets in a step.
Gets(o, h, a, kept) ==
    /\ m_hDataset' = [m_hDataset EXCEPT ![o] = h]
    /\ m_eAccess' = [m_eAccess EXCEPT ![o] = a]
    /\ m_preserved_r_objects' = [m_preserved_r_objects EXCEPT ![o] = kept]

LEMMA InitHolds == Init => IInv
<1>. SUFFICES ASSUME Init PROVE IInv
  OBVIOUS
<1>1. NoDataset \in DatasetType
  BY RasterAssumption DEF NoDataset, DatasetType
<1>2. TypeOK /\ ProtectedWhileOpen
  BY <1>1 DEF Init, TypeOK, ProtectedWhileOpen
<1>3. \A h \in Handles : HeldBy(m_hDataset, h) = {}
  BY RasterAssumption DEF Init, HeldBy
<1>4. Counted(NoDataset, 0) /\ Lone(NoDataset, {})
  BY DEF Counted, Lone, NoDataset
<1>5. SoundNow
  BY <1>3, <1>4, FS_EmptySet DEF Init, SoundNow, Sound
<1>. QED BY <1>2, <1>5 DEF IInv

\* Constructors leave the handles of other objects alone.
LEMMA ConstructStep ==
    ASSUME IInv, NEW o \in Objs, NEW name \in Names \cup {NoFile}, NEW s \in BOOLEAN,
           NEW a \in Accesses, NEW h \in Handles, NEW kept \in SUBSET Vectors,
           Construct(o, name, s), Gets(o, h, a, kept)
    PROVE  /\ ds' \in DatasetFunctions => TypeOK'
           /\ ProtectedWhileOpen'
           /\ StepOf(o, h) /\ m_hDataset[o] = NoHandle
           /\ m_eAccess'[o] = a /\ m_shared'[o] = s /\ m_preserved_r_objects'[o] = kept
<1>. USE DEF Gets
<1>1. /\ m_hDataset \in HandleFunctions /\ m_hDataset' \in HandleFunctions
      /\ m_hDataset[o] = NoHandle
  BY DEF IInv, TypeOK, Construct, HandleFunctions
<1>2. ds' \in DatasetFunctions => TypeOK'
  BY DEF IInv, TypeOK, Construct, DatasetFunctions
<1>3. StepOf(o, h)
  BY <1>1 DEF IInv, TypeOK, Construct, StepOf, OthersStay
<1>4. m_eAccess'[o] = a /\ m_shared'[o] = s /\ m_preserved_r_objects'[o] = kept
  BY DEF IInv, TypeOK, Construct
<1>5. ProtectedWhileOpen'
  BY RasterAssumption DEF IInv, TypeOK, ProtectedWhileOpen
<1>. QED BY <1>1, <1>2, <1>3, <1>4, <1>5

LEMMA NewEmptyStep ==
    ASSUME IInv, NEW o \in Objs, newEmpty(o)
    PROVE  IInv'
<1>. USE DEF newEmpty
<1>1. TypeOK' /\ ProtectedWhileOpen'
  BY DEF IInv, TypeOK, Construct, ProtectedWhileOpen
<1>2. \A h \in Handles : o \notin HeldBy(m_hDataset, h)
  BY RasterAssumption DEF IInv, TypeOK, Construct, HeldBy
<1>3. \A p \in Objs \ {o} : m_shared'[p] = m_shared[p]
  BY DEF IInv, TypeOK, Construct
<1>4. \A h \in Handles : HeldBy(m_hDataset, h) \subseteq Objs \ {o}
  BY <1>2 DEF HeldBy
<1>5. SoundNow'
  BY <1>3, <1>4 DEF IInv, SoundNow, Sound
<1>. QED BY <1>1, <1>5 DEF IInv

LEMMA NewStep ==
    ASSUME IInv, NEW o \in Objs, NEW name \in Names, NEW a \in Accesses, NEW s \in BOOLEAN,
           new(o, name, a, s)
    PROVE  IInv'
<1>1. PICK h \in Handles : /\ Opens(ds, name, a, s, {}, h, ds')
                           /\ m_hDataset' = [m_hDataset EXCEPT ![o] = h]
  BY DEF new
<1>2. m_preserved_r_objects' = [m_preserved_r_objects EXCEPT ![o] = {}]
  BY DEF IInv, TypeOK, new, Construct
<1>3. Construct(o, name, s) /\ Gets(o, h, a, {})
  BY <1>1, <1>2 DEF new, Gets
<1>4. /\ ds' \in DatasetFunctions => TypeOK'
      /\ ProtectedWhileOpen'
      /\ StepOf(o, h) /\ m_hDataset[o] = NoHandle
      /\ m_eAccess'[o] = a /\ m_shared'[o] = s /\ m_preserved_r_objects'[o] = {}
  BY <1>1, <1>2, <1>3, ConstructStep
<1>5. ds \in DatasetFunctions /\ SoundNow
  BY DEF IInv, TypeOK, DatasetFunctions
<1>6. /\ Sound(m_hDataset, m_eAccess, m_shared, m_preserved_r_objects, ds)
      /\ OthersStay(m_hDataset, m_eAccess, m_shared, m_preserved_r_objects,
                    m_hDataset', m_eAccess', m_shared', m_preserved_r_objects', o, h)
  BY <1>4, <1>5 DEF StepOf, SoundNow
<1>7. {} \in SUBSET Vectors /\ {} \subseteq m_preserved_r_objects'[o]
  OBVIOUS
<1>8. /\ ds' \in DatasetFunctions
      /\ Sound(m_hDataset', m_eAccess', m_shared', m_preserved_r_objects', ds')
  BY <1>1, <1>4, <1>5, <1>6, <1>7, OpenStep
<1>. QED BY <1>4, <1>8 DEF IInv, SoundNow

LEMMA RVectorStep ==
    ASSUME IInv, NEW o \in Objs, NEW v \in Vectors, rvector_to_MEM(o, v)
    PROVE  IInv'
<1>1. PICK h \in Handles : /\ Opens(ds, v, "update", TRUE, {v}, h, ds')
                           /\ m_hDataset' = [m_hDataset EXCEPT ![o] = h]
  BY DEF rvector_to_MEM
<1>2. Construct(o, v, TRUE) /\ Gets(o, h, "update", {v}) /\ v \in Names
  BY <1>1 DEF rvector_to_MEM, Gets, Names
<1>3. /\ ds' \in DatasetFunctions => TypeOK'
      /\ ProtectedWhileOpen'
      /\ StepOf(o, h) /\ m_hDataset[o] = NoHandle
      /\ m_eAccess'[o] = "update" /\ m_shared'[o] = TRUE /\ m_preserved_r_objects'[o] = {v}
  BY <1>1, <1>2, ConstructStep
<1>4. ds \in DatasetFunctions /\ SoundNow
  BY DEF IInv, TypeOK, DatasetFunctions
<1>5. /\ Sound(m_hDataset, m_eAccess, m_shared, m_preserved_r_objects, ds)
      /\ OthersStay(m_hDataset, m_eAccess, m_shared, m_preserved_r_objects,
                    m_hDataset', m_eAccess', m_shared', m_preserved_r_objects', o, h)
  BY <1>3, <1>4 DEF StepOf, SoundNow
<1>6. {v} \in SUBSET Vectors /\ {v} \subseteq m_preserved_r_objects'[o]
  BY <1>3
<1>7. /\ ds' \in DatasetFunctions
      /\ Sound(m_hDataset', m_eAccess', m_shared', m_preserved_r_objects', ds')
  BY <1>1, <1>2, <1>3, <1>4, <1>5, <1>6, OpenStep
<1>. QED BY <1>3, <1>7 DEF IInv, SoundNow

\* A constructor that has made a new dataset, d, once the datasets are D.
LEMMA AdoptNew ==
    ASSUME IInv, NEW o \in Objs, NEW name \in Names \cup {NoFile}, NEW s \in BOOLEAN,
           NEW a \in Accesses, NEW driver \in {"file", "MEM", "none"}, driver = "none" => ~s,
           NEW h \in Handles, NEW d, d = Dataset(name, a, s, driver, {}),
           NEW D \in DatasetFunctions,
           Sound(m_hDataset, m_eAccess, m_shared, m_preserved_r_objects, D),
           ~D[h].live, D[h].outside = 0,
           OnlyChanges(D, ds', h), ds' \in DatasetFunctions, ds'[h] = d,
           Construct(o, name, s), Gets(o, h, a, {})
    PROVE  IInv'
<1>1. /\ d \in DatasetType /\ d.live /\ d.refs = 1 /\ d.outside = 0
      /\ d.shared = s /\ d.driver = driver /\ d.access = a /\ d.data = {}
  BY DatasetFields
<1>2. {} \in SUBSET Vectors
  OBVIOUS
<1>4. /\ TypeOK' /\ ProtectedWhileOpen'
      /\ StepOf(o, h) /\ m_hDataset[o] = NoHandle
      /\ m_eAccess'[o] = a /\ m_shared'[o] = s /\ m_preserved_r_objects'[o] = {}
  BY <1>2, ConstructStep
<1>5. Agree(ds'[h], m_eAccess'[o], m_shared'[o], m_preserved_r_objects'[o])
  BY <1>1, <1>4 DEF Agree
<1>6. OthersStay(m_hDataset, m_eAccess, m_shared, m_preserved_r_objects,
                m_hDataset', m_eAccess', m_shared', m_preserved_r_objects', o, h)
  BY <1>4 DEF StepOf
<1>7. /\ ds'[h].live /\ ds'[h].refs = 1 /\ ds'[h].outside = 0
      /\ ds'[h].driver = "none" => ~ds'[h].shared
  BY <1>1
<1>8. Sound(m_hDataset', m_eAccess', m_shared', m_preserved_r_objects', ds')
  BY <1>4, <1>5, <1>6, <1>7, TakeNew
<1>. QED BY <1>4, <1>8 DEF IInv, SoundNow

LEMMA SetHandleNew ==
    ASSUME IInv, NEW o \in Objs, NEW name \in Names \cup {NoFile}, NEW a \in Accesses,
           NEW driver \in {"file", "MEM", "none"}, NEW h \in Handles, Free(h),
           setGDALDatasetH_(o, name, h, Dataset(name, a, FALSE, driver, {}))
    PROVE  IInv'
<1>. DEFINE d == Dataset(name, a, FALSE, driver, {})
<1>1. d \in DatasetType /\ d.shared = FALSE /\ d.access = a
  BY RasterAssumption DEF Dataset, DatasetType
<1>2. m_preserved_r_objects' = [m_preserved_r_objects EXCEPT ![o] = {}]
  BY DEF IInv, TypeOK, Construct, setGDALDatasetH_
<1>3. /\ Construct(o, name, FALSE) /\ Gets(o, h, a, {})
      /\ ds' = [ds EXCEPT ![h] = d]
  BY <1>1, <1>2 DEF setGDALDatasetH_, AccessOf, Gets
<1>. HIDE DEF d
<1>4. ds \in DatasetFunctions /\ Sound(m_hDataset, m_eAccess, m_shared, m_preserved_r_objects, ds)
  BY DEF IInv, TypeOK, DatasetFunctions, SoundNow
<1>5. ~ds[h].live /\ ds[h].outside = 0
  BY DEF Free
<1>6. d = Dataset(name, a, FALSE, driver, {})
  BY DEF d
<1>7. OnlyChanges(ds, ds', h) /\ ds' \in DatasetFunctions /\ ds'[h] = d
  BY <1>1, <1>3, <1>4 DEF OnlyChanges, DatasetFunctions
<1>. QED BY <1>3, <1>4, <1>5, <1>6, <1>7, AdoptNew

LEMMA CreateStep ==
    ASSUME IInv, NEW o \in Objs, NEW name \in Files, NEW a \in Accesses, NEW driver \in {"file", "MEM"},
           create(o, name, a, driver)
    PROVE  IInv'
BY SetHandleNew DEF create, Names

LEMMA MdimStep ==
    ASSUME IInv, NEW o \in Objs, NEW a \in Accesses, mdim_as_classic(o, a)
    PROVE  IInv'
BY SetHandleNew DEF mdim_as_classic

LEMMA OpenIsLive ==
    ASSUME IInv, NEW o \in Objs, m_hDataset[o] # NoHandle
    PROVE  m_hDataset[o] \in Handles /\ ds[m_hDataset[o]].live
<1>1. m_hDataset[o] \in Handles
  BY DEF IInv, TypeOK
<1>2. o \in HeldBy(m_hDataset, m_hDataset[o])
  BY DEF HeldBy
<1>3. Cardinality(HeldBy(m_hDataset, m_hDataset[o])) # 0
  BY <1>2, HeldByFinite, FS_EmptySet
<1>. QED BY <1>1, <1>3 DEF IInv, SoundNow, Sound, Counted

LEMMA HeldStep ==
    ASSUME NEW hds, NEW access, NEW isShared, NEW kept, NEW D,
           D \in DatasetFunctions, Sound(hds, access, isShared, kept, D),
           NEW h \in Handles, D[h].live, NEW D2, D2 = [D EXCEPT ![h] = Held(@)]
    PROVE  D2 \in DatasetFunctions /\ Sound(hds, access, isShared, kept, D2)
<1>1. D[h] \in DatasetType
  BY DEF DatasetFunctions
<1>2. Referenced(D[h]) \in DatasetType
  BY <1>1, DatasetTypes
<1>3. Held(D[h]) \in DatasetType
  BY <1>2 DEF Held, DatasetType
<1>4. D2 \in DatasetFunctions /\ D2[h] = Held(D[h]) /\ OnlyChanges(D, D2, h)
  BY <1>3 DEF DatasetFunctions, OnlyChanges
<1>5. Cardinality(HeldBy(hds, h)) \in Nat
  BY HeldByFinite
<1>6. Counted(D[h], Cardinality(HeldBy(hds, h))) /\ Lone(D[h], HeldBy(hds, h))
      /\ \A o \in HeldBy(hds, h) : Agree(D[h], access[o], isShared[o], kept[o])
  BY DEF Sound
<1>7. Counted(D2[h], Cardinality(HeldBy(hds, h)))
  BY <1>1, <1>4, <1>5, <1>6 DEF Counted, Held, Referenced, DatasetType
<1>8. Lone(D2[h], HeldBy(hds, h))
  BY <1>1, <1>4, <1>6 DEF Lone, Held, Referenced, DatasetType
<1>9. \A o \in HeldBy(hds, h) : Agree(D2[h], access[o], isShared[o], kept[o])
  BY <1>1, <1>4, <1>6 DEF Agree, Held, Referenced, DatasetType
<1>. QED BY <1>4, <1>7, <1>8, <1>9, Touch

LEMMA HoldStep ==
    ASSUME IInv, NEW o \in Objs, Hold(o)
    PROVE  IInv'
<1>1. m_hDataset[o] \in Handles /\ ds \in DatasetFunctions
  BY DEF IInv, TypeOK, Hold, IsOpen, DatasetFunctions
<1>2. Sound(m_hDataset, m_eAccess, m_shared, m_preserved_r_objects, ds) /\ UNCHANGED object
  BY DEF IInv, SoundNow, Hold
<1>3. ds[m_hDataset[o]].live
  BY OpenIsLive DEF Hold, IsOpen
<1>4. ds' = [ds EXCEPT ![m_hDataset[o]] = Held(@)]
  BY DEF Hold
<1>5. ds' \in DatasetFunctions /\ Sound(m_hDataset, m_eAccess, m_shared, m_preserved_r_objects, ds')
  BY <1>1, <1>2, <1>3, <1>4, HeldStep
<1>. QED BY <1>2, <1>5 DEF IInv, TypeOK, SoundNow, ProtectedWhileOpen, DatasetFunctions, object

LEMMA WarpedStep ==
    ASSUME IInv, NEW o \in Objs, NEW src \in Objs, autoCreateWarpedVRT(o, src)
    PROVE  IInv'
<1>. DEFINE s == m_hDataset[src]
            D == [ds EXCEPT ![s] = Held(@)]
            d == Dataset(NoFile, "update", FALSE, "file", {})
<1>1. s \in Handles /\ ds \in DatasetFunctions
  BY DEF IInv, TypeOK, autoCreateWarpedVRT, IsOpen, DatasetFunctions
<1>2. Sound(m_hDataset, m_eAccess, m_shared, m_preserved_r_objects, ds)
  BY DEF IInv, SoundNow
<1>3. PICK h \in Handles :
        /\ Free(h)
        /\ m_hDataset' = [m_hDataset EXCEPT ![o] = h]
        /\ ds' = [ds EXCEPT ![h] = d, ![s] = Held(@)]
  BY DEF autoCreateWarpedVRT
<1>4. ds[s].live
  BY OpenIsLive DEF autoCreateWarpedVRT, IsOpen
<1>5. s # h /\ ~ds[h].live /\ ds[h].outside = 0
  BY <1>3, <1>4 DEF Free
<1>6. Construct(o, NoFile, FALSE) /\ Gets(o, h, "update", {})
  <2>1. m_preserved_r_objects' = [m_preserved_r_objects EXCEPT ![o] = {}]
    BY DEF IInv, TypeOK, Construct, autoCreateWarpedVRT
  <2>. QED BY <1>3, <2>1 DEF autoCreateWarpedVRT, Gets
<1>7. d \in DatasetType
  BY DEF Dataset, DatasetType
<1>8. d = Dataset(NoFile, "update", FALSE, "file", {})
  OBVIOUS
<1>9. D = [ds EXCEPT ![s] = Held(@)]
  OBVIOUS
<1>. HIDE DEF s, D, d
<1>10. D \in DatasetFunctions /\ Sound(m_hDataset, m_eAccess, m_shared, m_preserved_r_objects, D)
  BY <1>1, <1>2, <1>4, <1>9, HeldStep
<1>11. /\ ds' = [D EXCEPT ![h] = d]
       /\ ~D[h].live /\ D[h].outside = 0
  BY <1>1, <1>3, <1>5, <1>9 DEF DatasetFunctions
<1>12. OnlyChanges(D, ds', h) /\ ds' \in DatasetFunctions /\ ds'[h] = d
  BY <1>7, <1>10, <1>11 DEF OnlyChanges, DatasetFunctions
<1>. QED BY <1>6, <1>8, <1>10, <1>11, <1>12, AdoptNew

LEMMA OutputStep ==
    ASSUME IInv, NEW o \in Objs, NEW h \in Handles, output(o, h)
    PROVE  IInv'
<1>. DEFINE d == Referenced(ds[h])
<1>1. ds[h] \in DatasetType /\ d \in DatasetType
  BY DatasetTypes DEF IInv, TypeOK
<1>2. /\ d.shared = ds[h].shared /\ d.access = ds[h].access /\ d.others
      /\ d.shared \in BOOLEAN /\ d.access \in Accesses /\ ds[h].file \in Names \cup {NoFile}
  BY <1>1 DEF Referenced, DatasetType
<1>3. m_preserved_r_objects' = [m_preserved_r_objects EXCEPT ![o] = {}]
  BY DEF IInv, TypeOK, Construct, setGDALDatasetH_, output
<1>4. /\ Construct(o, ds[h].file, d.shared) /\ Gets(o, h, d.access, {})
      /\ ds' = [ds EXCEPT ![h] = d]
  BY <1>3 DEF setGDALDatasetH_, output, AccessOf, Gets
<1>. HIDE DEF d
<1>5. ds' \in DatasetFunctions /\ ds'[h] = d /\ OnlyChanges(ds, ds', h)
  BY <1>1, <1>4 DEF IInv, TypeOK, DatasetFunctions, OnlyChanges
<1>6. {} \in SUBSET Vectors
  OBVIOUS
<1>7. /\ TypeOK' /\ ProtectedWhileOpen'
      /\ StepOf(o, h) /\ m_hDataset[o] = NoHandle
      /\ m_eAccess'[o] = d.access /\ m_shared'[o] = d.shared
  BY <1>2, <1>4, <1>5, <1>6, ConstructStep
<1>8. Agree(ds'[h], m_eAccess'[o], m_shared'[o], m_preserved_r_objects'[o])
  BY <1>2, <1>5, <1>7 DEF Agree
<1>9. /\ OthersStay(m_hDataset, m_eAccess, m_shared, m_preserved_r_objects,
                    m_hDataset', m_eAccess', m_shared', m_preserved_r_objects', o, h)
      /\ Sound(m_hDataset, m_eAccess, m_shared, m_preserved_r_objects, ds)
  BY <1>7 DEF StepOf, IInv, SoundNow
<1>10. ds[h].live /\ ds[h].driver # "none" /\ ds'[h] = Referenced(ds[h])
  BY <1>5 DEF output, d
<1>11. Sound(m_hDataset', m_eAccess', m_shared', m_preserved_r_objects', ds')
  BY <1>1, <1>5, <1>7, <1>8, <1>9, <1>10, TakeShared
<1>. QED BY <1>7, <1>11 DEF IInv, SoundNow

\* The name of an open dataset, or what is pending, changes.
LEMMA QuietStep ==
    ASSUME IInv, NEW o \in Objs, m_hDataset[o] # NoHandle,
           NEW name \in Names \cup {NoFile}, NEW pending \in SUBSET Objs,
           ds' = [ds EXCEPT ![m_hDataset[o]] = [@ EXCEPT !.file = name, !.pending = pending]]
    PROVE  /\ ds' \in DatasetFunctions
           /\ Sound(m_hDataset, m_eAccess, m_shared, m_preserved_r_objects, ds')
<1>. DEFINE h == m_hDataset[o]
<1>1. h \in Handles
  BY OpenIsLive
<1>. HIDE DEF h
<1>2. ds[h] \in DatasetType
  BY <1>1 DEF IInv, TypeOK
<1>3. ds' = [ds EXCEPT ![h] = [ds[h] EXCEPT !.file = name, !.pending = pending]]
  BY DEF h
<1>4. ds' \in DatasetFunctions /\ OnlyChanges(ds, ds', h)
      /\ ds'[h] = [ds[h] EXCEPT !.file = name, !.pending = pending]
  <2>1. [ds[h] EXCEPT !.file = name, !.pending = pending] \in DatasetType
    BY <1>2 DEF DatasetType
  <2>2. ds \in DatasetFunctions
    BY DEF IInv, TypeOK, DatasetFunctions
  <2>. QED BY <1>1, <1>3, <2>1, <2>2 DEF DatasetFunctions, OnlyChanges
<1>5. /\ Counted(ds[h], Cardinality(HeldBy(m_hDataset, h))) /\ Lone(ds[h], HeldBy(m_hDataset, h))
      /\ \A p \in HeldBy(m_hDataset, h) :
            Agree(ds[h], m_eAccess[p], m_shared[p], m_preserved_r_objects[p])
  BY <1>1 DEF IInv, SoundNow, Sound
<1>6. Counted(ds'[h], Cardinality(HeldBy(m_hDataset, h)))
  BY <1>2, <1>4, <1>5 DEF Counted, DatasetType
<1>7. Lone(ds'[h], HeldBy(m_hDataset, h))
  BY <1>2, <1>4, <1>5 DEF Lone, DatasetType
<1>8. \A p \in HeldBy(m_hDataset, h) :
        Agree(ds'[h], m_eAccess[p], m_shared[p], m_preserved_r_objects[p])
  BY <1>2, <1>4, <1>5 DEF Agree, DatasetType
<1>9. Sound(m_hDataset, m_eAccess, m_shared, m_preserved_r_objects, ds)
  BY DEF IInv, SoundNow
<1>. QED BY <1>1, <1>4, <1>6, <1>7, <1>8, <1>9, Touch

LEMMA ObjectsStay ==
    ASSUME IInv, UNCHANGED object, ds' \in DatasetFunctions,
           Sound(m_hDataset, m_eAccess, m_shared, m_preserved_r_objects, ds')
    PROVE  IInv'
BY DEF IInv, TypeOK, SoundNow, ProtectedWhileOpen, DatasetFunctions, object

LEMMA PendingStep ==
    ASSUME IInv, NEW o \in Objs, write(o) \/ setMetadata(o) \/ flushCache(o)
    PROVE  IInv'
<1>. DEFINE h == m_hDataset[o]
<1>1. UNCHANGED object /\ h # NoHandle
  BY DEF write, setMetadata, flushCache, Writable, IsOpen
<1>2. ds[h] \in DatasetType
  BY <1>1, OpenIsLive DEF IInv, TypeOK
<1>3. PICK pending \in SUBSET Objs : ds' = [ds EXCEPT ![h].pending = pending]
  <2>1. CASE write(o) \/ setMetadata(o)
    <3>1. ds[h].pending \cup {o} \in SUBSET Objs
      BY <1>2 DEF DatasetType
    <3>2. ds' = [ds EXCEPT ![h].pending = ds[h].pending \cup {o}]
      BY <2>1 DEF write, setMetadata, WritePending
    <3>. QED BY <3>1, <3>2
  <2>2. CASE flushCache(o)
    BY <2>2 DEF flushCache
  <2>. QED BY <2>1, <2>2
<1>4. ds[h].file \in Names \cup {NoFile}
  BY <1>2 DEF DatasetType
<1>5. ds' = [ds EXCEPT ![h] = [ds[h] EXCEPT !.file = ds[h].file, !.pending = pending]]
  <2>1. [ds[h] EXCEPT !.pending = pending] = [ds[h] EXCEPT !.file = ds[h].file, !.pending = pending]
    BY <1>2 DEF DatasetType
  <2>. QED BY <1>3, <2>1
<1>6. ds' \in DatasetFunctions /\ Sound(m_hDataset, m_eAccess, m_shared, m_preserved_r_objects, ds')
  BY <1>1, <1>4, <1>5, QuietStep
<1>. QED BY <1>1, <1>6, ObjectsStay

LEMMA SetFilenameStep ==
    ASSUME IInv, NEW o \in Objs, NEW name \in Files, setFilename(o, name)
    PROVE  IInv'
<1>. DEFINE h == m_hDataset[o]
<1>1. /\ m_fname' = [m_fname EXCEPT ![o] = name]
      /\ UNCHANGED <<exists, m_hDataset, m_eAccess, m_shared, m_preserved_r_objects>>
      /\ name \in Names \cup {NoFile}
  BY DEF setFilename, Names
<1>2. ds' \in DatasetFunctions /\ Sound(m_hDataset, m_eAccess, m_shared, m_preserved_r_objects, ds')
  <2>1. CASE h = NoHandle
    BY <2>1 DEF setFilename, IInv, TypeOK, SoundNow, DatasetFunctions
  <2>2. CASE h # NoHandle
    <3>1. ds[h] \in DatasetType
      BY <2>2, OpenIsLive DEF IInv, TypeOK
    <3>2. ds[h].pending \in SUBSET Objs
      BY <3>1 DEF DatasetType
    <3>3. ds' = [ds EXCEPT ![h] = [ds[h] EXCEPT !.file = name, !.pending = ds[h].pending]]
      <4>1. [ds[h] EXCEPT !.file = name] = [ds[h] EXCEPT !.file = name, !.pending = ds[h].pending]
        BY <3>1 DEF DatasetType
      <4>2. ds' = [ds EXCEPT ![h].file = name]
        BY <2>2 DEF setFilename
      <4>. QED BY <4>1, <4>2
    <3>. QED BY <1>1, <2>2, <3>2, <3>3, QuietStep
  <2>. QED BY <2>1, <2>2
<1>3. TypeOK'
  BY <1>1, <1>2 DEF IInv, TypeOK, DatasetFunctions
<1>. QED BY <1>1, <1>2, <1>3 DEF IInv, SoundNow, ProtectedWhileOpen

\* addBand(): the vector is preserved whether its band was added or not.
LEMMA AddBandStep ==
    ASSUME IInv, NEW o \in Objs, NEW v \in Vectors, addBand(o, v)
    PROVE  IInv'
<1>. DEFINE h == m_hDataset[o]
            kept2 == m_preserved_r_objects'
<1>1. h # NoHandle /\ ds[h].driver = "MEM"
  BY DEF addBand, Writable, IsOpen
<1>2. h \in Handles /\ exists[o]
  BY OpenIsLive DEF addBand, Writable, IsOpen
<1>3. ds[h] \in DatasetType /\ ds \in DatasetFunctions
  BY <1>2 DEF IInv, TypeOK, DatasetFunctions
<1>4. /\ kept2 = [m_preserved_r_objects EXCEPT ![o] = @ \cup {v}]
      /\ UNCHANGED <<exists, m_fname, m_hDataset, m_eAccess, m_shared>>
  BY DEF addBand, Preserve
<1>5. /\ kept2 \in [Objs -> SUBSET Vectors]
      /\ kept2[o] = m_preserved_r_objects[o] \cup {v}
      /\ \A p \in Objs \ {o} : kept2[p] = m_preserved_r_objects[p]
  BY <1>4 DEF IInv, TypeOK
<1>. HIDE DEF h, kept2
<1>6. PICK data \in {ds[h].data, ds[h].data \cup {v}} : ds' = [ds EXCEPT ![h].data = data]
  <2>1. CASE UNCHANGED ds
    <3>1. ds = [ds EXCEPT ![h].data = ds[h].data]
      BY <1>2, <1>3 DEF DatasetFunctions, DatasetType
    <3>. QED BY <2>1, <3>1
  <2>2. CASE ds' = [ds EXCEPT ![h].data = ds[h].data \cup {v}]
    BY <2>2
  <2>. QED BY <2>1, <2>2 DEF addBand, h
<1>7. /\ ds' \in DatasetFunctions /\ OnlyChanges(ds, ds', h)
      /\ ds'[h] = [ds[h] EXCEPT !.data = data]
  <2>1. [ds[h] EXCEPT !.data = data] \in DatasetType
    BY <1>3, <1>6 DEF DatasetType
  <2>. QED BY <1>2, <1>3, <1>6, <2>1 DEF DatasetFunctions, OnlyChanges
<1>8. /\ Counted(ds[h], Cardinality(HeldBy(m_hDataset, h))) /\ Lone(ds[h], HeldBy(m_hDataset, h))
      /\ \A p \in HeldBy(m_hDataset, h) :
            Agree(ds[h], m_eAccess[p], m_shared[p], m_preserved_r_objects[p])
  BY <1>2 DEF IInv, SoundNow, Sound
<1>9. Counted(ds'[h], Cardinality(HeldBy(m_hDataset, h)))
  BY <1>3, <1>7, <1>8 DEF Counted, DatasetType
<1>10. Lone(ds'[h], HeldBy(m_hDataset, h))
  BY <1>3, <1>7, <1>8 DEF Lone, DatasetType
<1>11. ASSUME NEW p \in HeldBy(m_hDataset, h)
       PROVE  Agree(ds'[h], m_eAccess[p], m_shared[p], kept2[p])
  <2>1. Agree(ds[h], m_eAccess[p], m_shared[p], m_preserved_r_objects[p])
    BY <1>8
  <2>2. o \in HeldBy(m_hDataset, h)
    BY DEF HeldBy, h
  <2>3. ds[h].others \/ p = o
    BY <1>8, <2>2 DEF Lone
  <2>4. ds[h].others \/ data \subseteq kept2[p]
    BY <1>5, <1>6, <2>1, <2>3 DEF Agree
  <2>. QED BY <1>3, <1>7, <2>1, <2>4 DEF Agree, DatasetType
<1>12. \A p \in Objs : m_hDataset[p] = h \/ kept2[p] = m_preserved_r_objects[p]
  BY <1>5 DEF h
<1>13. Sound(m_hDataset, m_eAccess, m_shared, m_preserved_r_objects, ds)
  BY DEF IInv, SoundNow
<1>14. Sound(m_hDataset, m_eAccess, m_shared, kept2, ds')
  BY <1>2, <1>7, <1>9, <1>10, <1>11, <1>12, <1>13, Touch
<1>15. TypeOK'
  BY <1>2, <1>4, <1>5, <1>7 DEF IInv, TypeOK, DatasetFunctions, kept2
<1>16. ProtectedWhileOpen'
  BY <1>1, <1>4, <1>5 DEF IInv, ProtectedWhileOpen, kept2, h
<1>. QED BY <1>4, <1>14, <1>15, <1>16 DEF IInv, SoundNow, kept2

\* An algorithm makes a dataset.
LEMMA HoldNewStep ==
    ASSUME IInv, NEW name \in Names \cup {NoFile}, NEW a \in Accesses, NEW driver \in {"file", "MEM"},
           HoldNew(name, a, driver)
    PROVE  IInv'
<1>. DEFINE d == [Dataset(name, a, FALSE, driver, {}) EXCEPT !.outside = 1, !.others = TRUE]
<1>1. PICK h \in Handles : Free(h) /\ ds' = [ds EXCEPT ![h] = d]
  BY DEF HoldNew
<1>2. /\ d \in DatasetType /\ d.live /\ d.refs = 1 /\ d.outside = 1
      /\ d.driver # "none" /\ d.others
  BY DEF Dataset, DatasetType
<1>. HIDE DEF d
<1>3. /\ ds' \in DatasetFunctions /\ OnlyChanges(ds, ds', h) /\ ds'[h] = d
  BY <1>1, <1>2 DEF IInv, TypeOK, DatasetFunctions, OnlyChanges
<1>4. Sound(m_hDataset, m_eAccess, m_shared, m_preserved_r_objects, ds)
  BY DEF IInv, SoundNow
<1>5. Cardinality(HeldBy(m_hDataset, h)) = 0
  BY <1>1, <1>4 DEF Free, Sound, Counted
<1>6. HeldBy(m_hDataset, h) = {}
  BY <1>5, HeldByFinite, FS_EmptySet
<1>7. Counted(ds'[h], Cardinality(HeldBy(m_hDataset, h)))
  BY <1>2, <1>3, <1>5 DEF Counted
<1>8. Lone(ds'[h], HeldBy(m_hDataset, h))
  BY <1>2, <1>3 DEF Lone
<1>9. Sound(m_hDataset, m_eAccess, m_shared, m_preserved_r_objects, ds')
  BY <1>3, <1>4, <1>6, <1>7, <1>8, Touch
<1>. QED BY <1>3, <1>9, ObjectsStay DEF HoldNew

LEMMA DropStep ==
    ASSUME IInv, NEW h \in Handles, Drop(h)
    PROVE  IInv'
<1>. DEFINE n == Cardinality(HeldBy(m_hDataset, h))
            e == [ds[h] EXCEPT !.outside = @ - 1]
<1>1. /\ ds[h].live /\ ds[h].outside > 0 /\ UNCHANGED object
      /\ ds' = [ds EXCEPT ![h] = Dereferenced(e)]
  BY DEF Drop, Dropped
<1>2. ds \in DatasetFunctions /\ ds[h] \in DatasetType
  BY DEF IInv, TypeOK, DatasetFunctions
<1>3. n \in Nat
  BY HeldByFinite
<1>4. /\ Counted(ds[h], n) /\ Lone(ds[h], HeldBy(m_hDataset, h))
      /\ \A p \in HeldBy(m_hDataset, h) :
            Agree(ds[h], m_eAccess[p], m_shared[p], m_preserved_r_objects[p])
  BY DEF IInv, SoundNow, Sound
<1>5. /\ e \in DatasetType /\ e.live /\ e.refs = n + 1 + e.outside /\ e.driver = ds[h].driver
  BY <1>1, <1>2, <1>3, <1>4 DEF DatasetType, Counted
<1>6. /\ Lone(e, HeldBy(m_hDataset, h))
      /\ \A p \in HeldBy(m_hDataset, h) : Agree(e, m_eAccess[p], m_shared[p], m_preserved_r_objects[p])
  BY <1>2, <1>4 DEF Lone, Agree, DatasetType
<1>. HIDE DEF e, n
<1>7. Dereferenced(e) \in DatasetType
  <2>1. e.refs > 0
    BY <1>3, <1>5 DEF DatasetType
  <2>. QED BY <1>5, <2>1, DatasetTypes
<1>8. ds' \in DatasetFunctions /\ OnlyChanges(ds, ds', h) /\ ds'[h] = Dereferenced(e)
  BY <1>1, <1>2, <1>7 DEF DatasetFunctions, OnlyChanges
<1>9. Sound(m_hDataset, m_eAccess, m_shared, m_preserved_r_objects, ds)
  BY DEF IInv, SoundNow
<1>10. Sound(m_hDataset, m_eAccess, m_shared, m_preserved_r_objects, ds')
  <2>1. CASE e.refs = 1
    <3>1. n = 0 /\ e.outside = 0
      BY <2>1, <1>3, <1>5 DEF DatasetType
    <3>2. HeldBy(m_hDataset, h) = {}
      BY <3>1, HeldByFinite, FS_EmptySet DEF n
    <3>3. ds'[h] = Deleted(e)
      BY <2>1, <1>8 DEF Dereferenced
    <3>4. Counted(ds'[h], Cardinality(HeldBy(m_hDataset, h)))
      BY <3>1, <3>3, <1>5 DEF Counted, Deleted, NoDataset, n
    <3>5. Lone(ds'[h], HeldBy(m_hDataset, h))
      BY <3>2, <3>3 DEF Lone, Deleted, NoDataset
    <3>. QED BY <1>8, <1>9, <3>2, <3>4, <3>5, Touch
  <2>2. CASE e.refs # 1
    <3>1. ds'[h] = [e EXCEPT !.refs = @ - 1]
      BY <2>2, <1>8 DEF Dereferenced
    <3>2. Counted(ds'[h], Cardinality(HeldBy(m_hDataset, h)))
      BY <2>2, <3>1, <1>3, <1>5 DEF Counted, DatasetType, n
    <3>3. Lone(ds'[h], HeldBy(m_hDataset, h))
      BY <3>1, <1>5, <1>6 DEF Lone, DatasetType
    <3>4. \A p \in HeldBy(m_hDataset, h) :
            Agree(ds'[h], m_eAccess[p], m_shared[p], m_preserved_r_objects[p])
      BY <3>1, <1>5, <1>6 DEF Agree, DatasetType
    <3>. QED BY <1>8, <1>9, <3>2, <3>3, <3>4, Touch
  <2>. QED BY <2>1, <2>2
<1>. QED BY <1>1, <1>8, <1>10, ObjectsStay

\* What close(), the destructor and open() begin with.
LEMMA LetGoStep ==
    ASSUME IInv, NEW o \in Objs, NEW hds2, NEW access2, NEW isShared2, NEW kept2,
           OthersStay(m_hDataset, m_eAccess, m_shared, m_preserved_r_objects,
                      hds2, access2, isShared2, kept2, o, NoHandle)
    PROVE  /\ DatasetsAfterClose(o) \in DatasetFunctions
           /\ Sound(hds2, access2, isShared2, kept2, DatasetsAfterClose(o))
<1>. DEFINE h == m_hDataset[o]
            D2 == DatasetsAfterClose(o)
<1>1. ds \in DatasetFunctions /\ Sound(m_hDataset, m_eAccess, m_shared, m_preserved_r_objects, ds)
  BY DEF IInv, TypeOK, DatasetFunctions, SoundNow
<1>2. CASE h = NoHandle
  <2>1. D2 = ds
    BY <1>2 DEF DatasetsAfterClose
  <2>2. \A g \in Handles : HeldBy(hds2, g) = HeldBy(m_hDataset, g) /\ HeldBy(hds2, g) \subseteq Objs \ {o}
    BY <1>2, RasterAssumption DEF OthersStay, HeldBy
  <2>3. \A p \in Objs \ {o} : /\ access2[p] = m_eAccess[p] /\ isShared2[p] = m_shared[p]
                              /\ kept2[p] = m_preserved_r_objects[p]
    BY DEF OthersStay
  <2>4. Sound(hds2, access2, isShared2, kept2, ds)
    BY <1>1, <2>2, <2>3 DEF Sound
  <2>. QED BY <1>1, <2>1, <2>4
<1>3. CASE h # NoHandle
  <2>1. h \in Handles /\ ds[h].live
    BY <1>3, OpenIsLive
  <2>2. ds[h] \in DatasetType
    BY <1>1, <2>1 DEF DatasetFunctions
  <2>3. ds[h].refs > 0
    BY <1>1, <2>1 DEF Sound, Counted
  <2>4. CloseDataset(o, ds[h]) \in DatasetType
    BY <2>2, <2>3, DatasetTypes DEF CloseDataset
  <2>5. D2 = [ds EXCEPT ![h] = CloseDataset(o, ds[h])]
    BY <1>3 DEF DatasetsAfterClose
  <2>. HIDE DEF h, D2
  <2>6. D2 \in DatasetFunctions /\ OnlyChanges(ds, D2, h) /\ D2[h] = CloseDataset(o, ds[h])
    BY <1>1, <2>1, <2>4, <2>5 DEF DatasetFunctions, OnlyChanges
  <2>7. D2[h] = IF m_shared[o] \/ ds[h].driver = "none" THEN GDALClose(ds[h])
                                                        ELSE GDALReleaseDataset(ds[h])
    BY <2>6 DEF CloseDataset
  <2>8. m_hDataset[o] = h
    BY DEF h
  <2>9. Sound(hds2, access2, isShared2, kept2, D2)
    BY <1>1, <2>1, <2>2, <2>6, <2>7, <2>8, LetGo
  <2>10. D2 = DatasetsAfterClose(o)
    BY DEF D2
  <2>. QED BY <2>6, <2>9, <2>10
<1>. QED BY <1>2, <1>3

LEMMA DestroyStep ==
    ASSUME IInv, NEW o \in Objs, destroy(o)
    PROVE  IInv'
<1>1. TypeOK' \/ ds' \notin DatasetFunctions
  BY DEF IInv, TypeOK, destroy, Destroyed, DatasetFunctions
<1>2. StepOf(o, NoHandle)
  BY DEF IInv, TypeOK, destroy, Destroyed, StepOf, OthersStay, HandleFunctions
<1>3. ds' = DatasetsAfterClose(o)
  BY DEF destroy
<1>4. /\ ds' \in DatasetFunctions
      /\ Sound(m_hDataset', m_eAccess', m_shared', m_preserved_r_objects', ds')
  BY <1>2, <1>3, LetGoStep DEF StepOf
<1>5. ProtectedWhileOpen'
  BY DEF IInv, TypeOK, destroy, Destroyed, ProtectedWhileOpen
<1>. QED BY <1>1, <1>4, <1>5 DEF IInv, SoundNow

LEMMA CloseStep ==
    ASSUME IInv, NEW o \in Objs, close(o)
    PROVE  IInv'
<1>1. m_preserved_r_objects' = [m_preserved_r_objects EXCEPT ![o] = {}]
  BY DEF close, IsOpen, Released
<1>2. TypeOK' \/ ds' \notin DatasetFunctions
  BY <1>1 DEF IInv, TypeOK, close, DatasetFunctions
<1>3. StepOf(o, NoHandle)
  BY <1>1 DEF IInv, TypeOK, close, StepOf, OthersStay, HandleFunctions
<1>4. ds' = DatasetsAfterClose(o)
  BY DEF close
<1>5. /\ ds' \in DatasetFunctions
      /\ Sound(m_hDataset', m_eAccess', m_shared', m_preserved_r_objects', ds')
  BY <1>3, <1>4, LetGoStep DEF StepOf
<1>6. ProtectedWhileOpen'
  BY <1>1 DEF IInv, TypeOK, close, ProtectedWhileOpen
<1>. QED BY <1>2, <1>5, <1>6 DEF IInv, SoundNow

LEMMA OpenAgainStep ==
    ASSUME IInv, NEW o \in Objs, NEW a \in Accesses, open(o, a)
    PROVE  IInv'
<1>. DEFINE closed == [m_hDataset EXCEPT ![o] = NoHandle]
            D == DatasetsAfterClose(o)
<1>1. m_preserved_r_objects' = [m_preserved_r_objects EXCEPT ![o] = {}]
  \* An object without a dataset protects nothing.
  BY DEF IInv, TypeOK, ProtectedWhileOpen, open, Released
<1>2. /\ m_eAccess' = [m_eAccess EXCEPT ![o] = a]
      /\ UNCHANGED <<exists, m_fname, m_shared>>
      /\ exists[o] /\ m_fname[o] \in Names \cup {NoFile} /\ m_shared[o] \in BOOLEAN
  BY DEF IInv, TypeOK, open
<1>3. OthersStay(m_hDataset, m_eAccess, m_shared, m_preserved_r_objects,
                closed, m_eAccess', m_shared', m_preserved_r_objects', o, NoHandle)
  BY <1>1, <1>2 DEF IInv, TypeOK, OthersStay, HandleFunctions
<1>4. D \in DatasetFunctions /\ Sound(closed, m_eAccess', m_shared', m_preserved_r_objects', D)
  BY <1>3, LetGoStep
<1>5. closed[o] = NoHandle /\ closed \in HandleFunctions
  BY DEF IInv, TypeOK, HandleFunctions
<1>6. \A p \in Objs \ {o} : closed[p] = m_hDataset[p] /\ m_hDataset'[p] = m_hDataset[p]
  BY DEF IInv, TypeOK, open
<1>7. /\ m_hDataset' \in HandleFunctions /\ ds' \in DatasetFunctions
      /\ Sound(m_hDataset', m_eAccess', m_shared', m_preserved_r_objects', ds')
  <2>1. ASSUME NEW h \in Handles, Opens(D, m_fname[o], a, m_shared[o], {}, h, ds'),
               m_hDataset' = [m_hDataset EXCEPT ![o] = h]
        PROVE  /\ m_hDataset' \in HandleFunctions /\ ds' \in DatasetFunctions
               /\ Sound(m_hDataset', m_eAccess', m_shared', m_preserved_r_objects', ds')
    <3>1. m_hDataset' \in HandleFunctions /\ m_hDataset'[o] = h
      BY <2>1 DEF IInv, TypeOK, HandleFunctions
    <3>. HIDE DEF closed, D
    <3>2. OthersStay(closed, m_eAccess', m_shared', m_preserved_r_objects',
                    m_hDataset', m_eAccess', m_shared', m_preserved_r_objects', o, h)
      BY <3>1, <1>5, <1>6 DEF OthersStay
    <3>3. m_eAccess'[o] = a /\ m_shared'[o] = m_shared[o]
      BY <1>2 DEF IInv, TypeOK
    <3>4. {} \in SUBSET Vectors /\ {} \subseteq m_preserved_r_objects'[o]
      OBVIOUS
    <3>5. PICK name \in Names \cup {NoFile}, s \in BOOLEAN : name = m_fname[o] /\ s = m_shared[o]
      BY <1>2
    <3>6. Opens(D, name, a, s, {}, h, ds') /\ m_shared'[o] = s
      BY <2>1, <3>3, <3>5
    <3>7. ds' \in DatasetFunctions /\ Sound(m_hDataset', m_eAccess', m_shared', m_preserved_r_objects', ds')
      BY <3>2, <3>3, <3>4, <3>6, <1>4, <1>5, OpenStep
    <3>. QED BY <3>1, <3>7
  <2>2. CASE ds' = D /\ m_hDataset' = closed
    BY <2>2, <1>4, <1>5
  <2>. QED BY <2>1, <2>2 DEF open
<1>8. TypeOK'
  BY <1>1, <1>2, <1>6, <1>7 DEF IInv, TypeOK, DatasetFunctions, HandleFunctions
<1>9. ProtectedWhileOpen'
  BY <1>1, <1>6 DEF IInv, TypeOK, ProtectedWhileOpen
<1>. QED BY <1>7, <1>8, <1>9 DEF IInv, SoundNow
-----------------------------------------------------------------------------
LEMMA NextHolds == IInv /\ [Next]_vars => IInv'
<1>. SUFFICES ASSUME IInv, [Next]_vars PROVE IInv'
  OBVIOUS
<1>1. CASE \E o \in Objs :
            \/ newEmpty(o) \/ destroy(o) \/ close(o)
            \/ write(o) \/ setMetadata(o) \/ flushCache(o) \/ Hold(o)
  BY <1>1, NewEmptyStep, DestroyStep, CloseStep, PendingStep, HoldStep
<1>2. CASE \E o \in Objs :
            \E name \in Names, access \in Accesses, isShared \in BOOLEAN : new(o, name, access, isShared)
  BY <1>2, NewStep
<1>3. CASE \E o \in Objs : \E v \in Vectors : rvector_to_MEM(o, v) \/ addBand(o, v)
  BY <1>3, RVectorStep, AddBandStep
<1>4. CASE \E o \in Objs :
            \E name \in Files, access \in Accesses, driver \in {"file", "MEM"} : create(o, name, access, driver)
  BY <1>4, CreateStep
<1>5. CASE \E o \in Objs : \E access \in Accesses : mdim_as_classic(o, access) \/ open(o, access)
  BY <1>5, MdimStep, OpenAgainStep
<1>6. CASE \E o \in Objs : \E src \in Objs : autoCreateWarpedVRT(o, src)
  BY <1>6, WarpedStep
<1>7. CASE \E o \in Objs : \E h \in Handles : output(o, h)
  BY <1>7, OutputStep
<1>8. CASE \E o \in Objs : \E name \in Files : setFilename(o, name)
  BY <1>8, SetFilenameStep
<1>9. CASE \E name \in Files \cup {NoFile}, access \in Accesses, driver \in {"file", "MEM"} :
            HoldNew(name, access, driver)
  BY <1>9, HoldNewStep DEF Names
<1>10. CASE \E h \in Handles : Drop(h)
  BY <1>10, DropStep
<1>11. CASE UNCHANGED vars
  BY <1>11 DEF vars, object, IInv, TypeOK, SoundNow, ProtectedWhileOpen
<1>. QED BY <1>1, <1>2, <1>3, <1>4, <1>5, <1>6, <1>7, <1>8, <1>9, <1>10, <1>11 DEF Next

LEMMA InvariantHolds == Spec => []IInv
BY InitHolds, NextHolds, PTL DEF Spec
-----------------------------------------------------------------------------
(* The theorems. *)

\* No sequence of calls leaves a field outside its type, nor a collected object
\* with a dataset or a protected vector.
THEOREM TypeCorrect == Spec => []TypeOK
<1>1. IInv => TypeOK
  BY DEF IInv
<1>. QED BY <1>1, InvariantHolds, PTL

\* However datasets are opened, shared, taken over, held outside and closed, the
\* reference count of each is exact, and one without references is deleted.
THEOREM CountsExact == Spec => []RefsExact
<1>1. IInv => RefsExact
  <2>. SUFFICES ASSUME IInv, NEW h \in Handles
                PROVE  IF ds[h].live THEN /\ ds[h].refs = Cardinality(Holders(h)) + ds[h].outside
                                          /\ ds[h].refs > 0
                       ELSE Holders(h) = {} /\ (ds[h].outside = 0 \/ ds[h].driver = "none")
    BY DEF RefsExact
  <2>1. Holders(h) = HeldBy(m_hDataset, h)
    BY DEF Holders, HeldBy
  <2>2. Counted(ds[h], Cardinality(Holders(h)))
    BY <2>1 DEF IInv, SoundNow, Sound
  <2>3. Cardinality(Holders(h)) = 0 => Holders(h) = {}
    BY <2>1, HeldByFinite, FS_EmptySet
  <2>. QED BY <2>2, <2>3 DEF Counted
<1>. QED BY <1>1, InvariantHolds, PTL

\* An object whose methods accept a write has a dataset open for update.
THEOREM WritesAreReal == Spec => []UpdateIsReal
<1>1. IInv => UpdateIsReal
  <2>. SUFFICES ASSUME IInv, NEW o \in Objs, Writable(o)
                PROVE  ds[m_hDataset[o]].access = "update"
    BY DEF UpdateIsReal
  <2>1. m_hDataset[o] \in Handles /\ o \in HeldBy(m_hDataset, m_hDataset[o])
    BY OpenIsLive DEF Writable, IsOpen, HeldBy
  <2>. QED BY <2>1 DEF IInv, SoundNow, Sound, Agree, Writable
<1>. QED BY <1>1, InvariantHolds, PTL

\* While only the object it was made for has held a MEM dataset, the R vectors
\* its bands point into are protected.
THEOREM VectorsProtected == Spec => []DataProtected
<1>1. IInv => DataProtected
  <2>. SUFFICES ASSUME IInv, NEW h \in Handles, ~ds[h].others, NEW o \in Holders(h)
                PROVE  ds[h].data \subseteq m_preserved_r_objects[o]
    BY DEF DataProtected
  <2>1. o \in HeldBy(m_hDataset, h)
    BY DEF Holders, HeldBy
  <2>. QED BY <2>1 DEF IInv, SoundNow, Sound, Agree
<1>. QED BY <1>1, InvariantHolds, PTL

\* An object without a dataset, closed or collected, protects no vector.
THEOREM VectorsReleased == Spec => []ProtectedWhileOpen
<1>1. IInv => ProtectedWhileOpen
  BY DEF IInv
<1>. QED BY <1>1, InvariantHolds, PTL
=============================================================================
