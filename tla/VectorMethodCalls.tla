-------------------------- MODULE VectorMethodCalls --------------------------
(***************************************************************************)
(* gdalvector.cpp: the methods of class GDALVector, for what they take and *)
(* give back, the failures they report and the data they change.  (How     *)
(* filters, cursor, handles and transactions change from call to call is   *)
(* in module GDALVector.)                                                  *)
(*                                                                         *)
(* A feature is a raw handle; its geometry is a part of it.  Messages that *)
(* field `quiet' of the object suppresses count as told.                   *)
(***************************************************************************)
EXTENDS RasterUtilCalls

\* checkAccess_(): the object is closed, or it is read-only and is to write
Checked == When(Stop)

LayerQuery == Checked \o Value

\* an R error in the constructor: the destructor does not run
constructor ==
    Filename \o When(FromWkt(Stop)) \o Get("ds", Stop)
    \o Try(Free("ds") \o Stop) \o FreeIf("geom")
    \o Try(Stop) \o Give("ds", "caller") \o Value

-----------------------------------------------------------------------------
\* what the data source and the layer are
isReadOnly == LayerQuery
getFileList == Checked \o HoldNew("list") \o Choose(Value, Void)
getDriverShortName == Checked \o Choose(Value, Void)
getDriverLongName  == Checked \o Choose(Value, Void)
getName == LayerQuery
getFieldNames == LayerQuery
testCapability == LayerQuery
getFIDColumn == LayerQuery
getGeomType  == LayerQuery
getGeometryColumn == LayerQuery

SpatialRef == Checked \o When(GetOr("text", Free("text"), Stop))
getSpatialRef == SpatialRef \o Value
bbox == Checked \o Try(Stop) \o Value

\* a geometry field whose reference system is missing gets NA and a warning
getLayerDefn ==
    Checked \o Try(Stop) \o Loop(Try(Stop))
    \o Loop(Try(Stop) \o Choose(Tell, GetOr("text", Free("text"), Tell))) \o Value

\* the codes of a numeric domain need not be numbers
getFieldDomain ==
    Checked \o When(Void) \o Loop(When(Stop)) \o Value

SpatialFilter == Checked \o When(GetOr("text", Free("text"), Stop))

\* the layer is opened once more for the report
info ==
    Checked
    \o When(SpatialFilter \o SpatialFilter \o FromWkt(Tell) \o FreeIf("geom"))
    \o ogrinfo

-----------------------------------------------------------------------------
\* filters and fields
setAttributeFilter == Checked \o Try(Stop) \o Value
getAttributeFilter == LayerQuery
IgnoreFields == Checked \o When(Stop) \o Try(Stop)
setIgnoredFields  == IgnoreFields \o Value
setSelectedFields ==
    Checked \o When(Stop) \o When(Value) \o When(Stop) \o When(Tell)
    \o Try(Stop) \o Value
getIgnoredFields == Checked \o When(Tell) \o Value
\* Fault: the layer is taken to keep the geometry.
setSpatialFilter_Kept == Checked \o When(FromWkt(Stop)) \o Value

setSpatialFilter == Checked \o When(FromWkt(Stop)) \o FreeIf("geom") \o Value
setSpatialFilterRect == Checked \o When(Stop) \o Value
getSpatialFilter == SpatialFilter \o Value
clearSpatialFilter == LayerQuery

-----------------------------------------------------------------------------
(***************************************************************************)
(* Reading.  With returnGeomAs "NONE" the geometry is added to the ignored *)
(* fields while fetch() runs.                                              *)
(***************************************************************************)
getFeatureCount == Checked \o Choose(Value, Void)
setNextByIndex  == Checked \o When(Stop) \o Try(Stop) \o Value
resetReading    == LayerQuery

createDF_ == Try(Stop) \o When(Stop)

\* the geometry columns, with their reference systems
GeometryColumns ==
    Loop(Try(Stop) \o When(GetOr("text", Free("text"), Tell)))

Prepared ==
    Checked \o Try(Stop) \o When(Stop)
    \o When(Take("ignored_fields") \o IgnoreFields)
    \o createDF_ \o GeometryColumns

(***************************************************************************)
(* The geometry is a clone, when it is to be converted, or the feature's   *)
(* own.  Format "SUMMARY" makes a unique_ptr of it either way and so       *)
(* destroys it; the other formats destroy the clone.  WKT that could not   *)
(* be exported is null and is read all the same.                           *)
(***************************************************************************)
Summary == Free("geom")
AsText  == Get("text", << >>) \o Use("text") \o Free("text")

FeatureGeometry ==
    Choose(Take("geom") \o Choose(Summary, When(AsText) \o Free("geom")),
           Step("take", "geom", "feat", << >>, << >>)
           \o Choose(Summary, When(AsText)))

(***************************************************************************)
(* The layer's end and an error while it is read look the same.  A surplus *)
(* feature, read to see whether there is one, is released when it is       *)
(* reported.                                                               *)
(***************************************************************************)
Feature ==
    GetOr("feat",
          Loop(Try(Stop)) \o Loop(Try(Stop) \o When(FeatureGeometry))
          \o Free("feat"),
          << >>)

Surplus == When(Take("feat") \o When(Tell \o Free("feat")))

\* fewer rows than allocated: the columns are copied, field by field, to the
\* column of the field's number, which may be another's
Truncated == When(createDF_ \o When(When(Stop)))

Fetched == Loop(Feature) \o Surplus \o FreeIf("ignored_fields") \o Truncated

fetch == Prepared \o When(FreeIf("ignored_fields") \o Value) \o Fetched \o Value
getNextFeature == Checked \o Prepared \o Fetched \o Choose(Value, Void)

\* the filters of the user are replaced by one on the FID, and put back
getFeature ==
    Checked \o When(Void) \o When(Stop) \o When(Take("saved_filter"))
    \o Take("filters") \o Try(Stop) \o Prepared \o Fetched
    \o Try(Stop) \o Free("filters") \o FreeIf("saved_filter")
    \o Choose(Value, Void)

-----------------------------------------------------------------------------
(***************************************************************************)
(* The Arrow stream belongs to the object.  R releases the stream made of  *)
(* a data frame; a failure to read its next batch looks like its end.      *)
(***************************************************************************)
getArrowStream ==
    Checked \o HoldNew("options") \o Get("stream", Stop)
    \o Give("stream", "caller") \o Value

WriteArrowArray(failed) ==
    GetOr("array",
          Effects(Free("array"), Free("array") \o Tell \o failed),
          << >>)

writeArrowBatch ==
    Checked \o HoldNew("options") \o Hold("stream", Choose(Stop, Tell \o Void))
    \o Get("schema", Tell \o Void)
    \o When(Free("schema") \o Tell \o Void)
    \o Loop(WriteArrowArray(Free("schema") \o Void))
    \o Free("schema") \o Value

-----------------------------------------------------------------------------
(***************************************************************************)
(* Writing features.  The input is compared with a feature made for that.  *)
(***************************************************************************)
validateFeatInput_ ==
    When(Stop) \o Try(Stop) \o Get("feat", Stop)
    \o Loop(When(Free("feat") \o Stop)) \o When(Tell) \o Free("feat")

(***************************************************************************)
(* A feature is made of a row of the input and filled field by field.      *)
(* WKB or WKT that cannot be read ends it, except when GDAL's reason is    *)
(* one that the code does not list: the feature is then written without    *)
(* geometry.                                                               *)
(***************************************************************************)
OGRFeatureFromList_(fields, ok, failed) ==
    Take("feat") \o fields \o Loop(GetOr("geom", Give("geom", "feat"), << >>))
    \o Choose(ok, Free("feat") \o Tell \o failed)

\* Fault: the FID is asked of a feature that is gone.
RowWritten_FreedFirst(ok, failed) ==
    Effect(Free("feat") \o Use("feat") \o ok, Free("feat") \o failed)

\* m_last_write_fid takes the FID of the feature written
RowWritten(ok, failed) ==
    Effect(Use("feat") \o Free("feat") \o ok, Free("feat") \o failed)

OneFeature ==
    Checked \o When(Stop) \o validateFeatInput_
    \o OGRFeatureFromList_(<< >>, RowWritten(Value, Void), Void)

createFeature == OneFeature
setFeature    == OneFeature
upsertFeature == OneFeature

(***************************************************************************)
(* The result tells which rows were written.  A list column whose first    *)
(* element is NULL passes the comparison whatever follows it, and what     *)
(* follows need not be of the field's type.                                *)
(***************************************************************************)
batchCreateFeature ==
    Checked \o validateFeatInput_
    \o Loop(OGRFeatureFromList_(When(Stop), RowWritten(<< >>, Tell), << >>))
    \o Value

OGRFeatureFromList_dumpReadble ==
    validateFeatInput_
    \o OGRFeatureFromList_(<< >>, When(Take("text")) \o FreeIf("text")
                                  \o Free("feat") \o Value, Stop)

getLastWriteFID == Checked \o Choose(Value, Void)
deleteFeature == When(Tell \o Void) \o When(Stop) \o Effect(Value, Void)

-----------------------------------------------------------------------------
\* the data source; what is stored or undone here was changed by earlier calls
syncToDisk == Checked \o TryOr(Value, Void)
startTransaction ==
    Checked \o When(Tell \o Void) \o TryOr(Value, Void)
commitTransaction   == Checked \o TryOr(Value, Void)
rollbackTransaction == Checked \o TryOr(Value, Void)
getMetadata == Checked \o Choose(Value, Void)
setMetadata == Checked \o HoldNew("list") \o Effect(Value, Void)
getMetadataItem == Checked \o Choose(Value, Void)

(***************************************************************************)
(* Overlays of two layers add features to a third, one by one.             *)
(***************************************************************************)
LayerOverlay ==
    Checked \o Checked \o Effects(Value, Tell \o Void)

layerIntersection  == LayerOverlay
layerUnion         == LayerOverlay
layerSymDifference == LayerOverlay
layerIdentity      == LayerOverlay
layerUpdate        == LayerOverlay
layerClip          == LayerOverlay
layerErase         == LayerOverlay

\* `quiet' is TRUE while the object is printed
show ==
    Take("quiet") \o When(Checked) \o SpatialRef
    \o When(SpatialRef \o Try(Stop)) \o Checked
    \o Free("quiet") \o Value

VectorMethodBodies ==
    [vector_constructor |-> constructor, vector_isReadOnly |-> isReadOnly,
     vector_getFileList |-> getFileList,
     vector_getDriverShortName |-> getDriverShortName,
     vector_getDriverLongName |-> getDriverLongName,
     vector_getName |-> getName, vector_getFieldNames |-> getFieldNames,
     vector_testCapability |-> testCapability,
     vector_getFIDColumn |-> getFIDColumn, vector_getGeomType |-> getGeomType,
     vector_getGeometryColumn |-> getGeometryColumn,
     vector_getSpatialRef |-> getSpatialRef, vector_bbox |-> bbox,
     vector_getLayerDefn |-> getLayerDefn,
     vector_getFieldDomain |-> getFieldDomain, vector_info |-> info,
     vector_setAttributeFilter |-> setAttributeFilter,
     vector_getAttributeFilter |-> getAttributeFilter,
     vector_setIgnoredFields |-> setIgnoredFields,
     vector_setSelectedFields |-> setSelectedFields,
     vector_getIgnoredFields |-> getIgnoredFields,
     vector_setSpatialFilter |-> setSpatialFilter,
     vector_setSpatialFilterRect |-> setSpatialFilterRect,
     vector_getSpatialFilter |-> getSpatialFilter,
     vector_clearSpatialFilter |-> clearSpatialFilter,
     vector_getFeatureCount |-> getFeatureCount,
     vector_setNextByIndex |-> setNextByIndex,
     vector_resetReading |-> resetReading, vector_fetch |-> fetch,
     vector_getNextFeature |-> getNextFeature,
     vector_getFeature |-> getFeature,
     vector_getArrowStream |-> getArrowStream,
     vector_writeArrowBatch |-> writeArrowBatch,
     vector_createFeature |-> createFeature, vector_setFeature |-> setFeature,
     vector_upsertFeature |-> upsertFeature,
     vector_batchCreateFeature |-> batchCreateFeature,
     vector_OGRFeatureFromList_dumpReadble |-> OGRFeatureFromList_dumpReadble,
     vector_getLastWriteFID |-> getLastWriteFID,
     vector_deleteFeature |-> deleteFeature, vector_syncToDisk |-> syncToDisk,
     vector_startTransaction |-> startTransaction,
     vector_commitTransaction |-> commitTransaction,
     vector_rollbackTransaction |-> rollbackTransaction,
     vector_getMetadata |-> getMetadata, vector_setMetadata |-> setMetadata,
     vector_getMetadataItem |-> getMetadataItem,
     vector_layerIntersection |-> layerIntersection,
     vector_layerUnion |-> layerUnion,
     vector_layerSymDifference |-> layerSymDifference,
     vector_layerIdentity |-> layerIdentity,
     vector_layerUpdate |-> layerUpdate, vector_layerClip |-> layerClip,
     vector_layerErase |-> layerErase, vector_show |-> show]
=============================================================================
