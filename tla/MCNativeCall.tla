---------------------------- MODULE MCNativeCall ----------------------------
(***************************************************************************)
(* Every function of the modules of calls, one after the other.            *)
(*                                                                         *)
(* The Known* sets name the places where the code does not live up to the  *)
(* properties of NativeCall, each with its line: the run shows that the    *)
(* modelled steps have no other.                                           *)
(***************************************************************************)
EXTENDS Discipline, RasterMethodCalls, TLC

Vector == INSTANCE VectorMethodCalls

MCBody ==
    SpatialRefBodies @@ GeometryBodies @@ VectorStoreBodies
        @@ FileSystemBodies @@ RasterUtilBodies @@ RasterMethodBodies
        @@ Vector!VectorMethodBodies

\* the first four are options and the error handler of the process, the next
\* one is a field of the object: what a function changes for its own purposes
MCThings ==
    {"axis_option", "ring_option", "mem_option", "handler", "quiet",
     "srs", "other_srs", "wkt", "srs_in", "gcs", "json", "matches",
     "confidence", "list", "longlat", "ct", "geom", "other", "out",
     "part", "text", "prepared", "transformer", "ds", "layer",
     "flddefn", "gflddefn", "lsrs", "lyr", "names", "codes", "tokens",
     "reason", "domain", "src", "dst", "more", "options", "args",
     "band", "mask", "maskband", "dstband", "result", "raster", "file",
     "table", "entry", "zip", "group", "subgroup", "array", "view",
     "ignored_fields", "filters", "saved_filter", "feat", "stream",
     "schema"}

Fetching == {"vector_fetch", "vector_getNextFeature", "vector_getFeature"}

\* a handle, or a state of the process, that some exit leaves behind
MCLeaks ==
    Fetching \X {"feat", "ignored_fields"} \cup          \* gdalvector.cpp:1192
    {<<"transform_bounds", "axis_option">>,            \* transform.cpp:553
     <<"g_add_geom", "ring_option">>,                   \* geom_api.cpp:517
     <<"g_build_polygon_from_edges", "out">>,
     <<"g_export_to_json", "geom">>, <<"g_export_to_json", "srs">>,
     <<"g_intersects", "geom">>,                        \* geom_api.cpp
     <<"ogr_layer_create", "ds">>, <<"ogr_layer_create", "lsrs">>,
     <<"create_ogr", "ds">>, <<"create_ogr", "lsrs">>,
     <<"ogr_field_create", "ds">>, <<"ogr_ds_add_field_domain", "ds">>,
     <<"ogr_layer_test_cap", "ds">>,                    \* ogr_util.cpp:1608
     <<"ogr_execute_sql", "geom">>,                     \* ogr_util.cpp:2235
     <<"vsi_curl_clear_cache", "handler">>,             \* gdal_vsi.cpp:137
     <<"dem_proc", "src">>, <<"footprint", "src">>, <<"ogr2ogr", "src">>,
     <<"ogrinfo", "src">>, <<"rasterize", "src">>,      \* gdal_exp.cpp
     <<"mdim_as_classic", "group">>,                    \* gdal_mdim.cpp:101
     <<"setDefaultRAT", "table">>,                      \* gdalraster.cpp:2702
     <<"vector_constructor", "ds">>, <<"vector_constructor", "geom">>,
     <<"vector_info", "src">>, <<"vector_show", "quiet">>,
     <<"vector_getFeature", "filters">>,                \* gdalvector.cpp:1085
     <<"vector_getFeature", "saved_filter">>,
     <<"vector_batchCreateFeature", "feat">>,
     <<"show", "quiet">>}                               \* gdalraster.cpp:2958

\* used when null, or released although it is the caller's
MCMisuse ==
    Fetching \X {"geom", "text"} \cup                   \* gdalvector.cpp:1601
    {<<"inv_project", "longlat">>, <<"inv_project", "ct">>,
     <<"transform_xy", "ct">>, <<"isLineOfSightVisible", "ct">>,
     <<"pixel_extract", "ct">>, <<"getMinMaxLocation", "ct">>,
     <<"warp", "src">>,                                 \* gdal_exp.cpp:3101
     <<"createColorRamp", "entry">>}                    \* gdal_exp.cpp:3296

\* an ordinary value in spite of a failure
MCSilent ==
    {"g_wkb2wkt", "g_wkb_list2wkt", "bbox_to_wkt", "g_export_to_json",
     "srs_info_from_db", "getPROJSearchPaths", "ogr_ds_layer_count",
     "ogr_execute_sql", "ogrinfo", "mdim_info", "info", "infoAsJSON",
     "setRasterColorInterp", "setDefaultRAT", "vector_info",
     "vector_writeArrowBatch", "vector_createFeature", "vector_setFeature",
     "vector_upsertFeature", "vector_batchCreateFeature",
     "vector_OGRFeatureFromList_dumpReadble"} \cup Fetching

\* a failure reported after stored data were changed: between two calls of the
\* library ...
SeveralCalls ==
    {"create_ogr", "ogr_layer_create", "addFileInZip", "combine",
     "vector_writeArrowBatch", "vector_batchCreateFeature"}

\* ... or within one that works through many things or makes a dataset
OneLongCall ==
    {"dem_proc", "footprint", "ogr2ogr", "translate", "buildVRT",
     "mdim_translate", "rasterize", "warp",
     "fillNodata", "sieveFilter", "polygonize", "bandCopyWholeRaster",
     "buildOverviews", "write", "writeBlock", "writeChunk", "fillRaster",
     "deleteDataset", "renameDataset", "copyDatasetFiles",
     "vsi_copy_file", "vsi_sync", "vsi_mkdir", "vsi_rmdir", "vsi_rename",
     "vsi_unlink_batch", "ogr_layer_delete", "ogr_field_delete",
     "vector_layerIntersection", "vector_layerUnion",
     "vector_layerSymDifference", "vector_layerIdentity", "vector_layerUpdate",
     "vector_layerClip", "vector_layerErase"}

MCPartial == SeveralCalls \cup OneLongCall

-----------------------------------------------------------------------------
(***************************************************************************)
(* The constants of Discipline, computed from the bodies.                  *)
(***************************************************************************)
RECURSIVE StepsOf(_)
StepsOf(L) ==
    UNION {{L[i]} \cup StepsOf(L[i].yes) \cup StepsOf(L[i].no) : i \in DOMAIN L}

MCParts == [f \in DOMAIN MCBody |-> StepsOf(MCBody[f])]

RECURSIVE Reached(_, _)
Reached(steps, X) ==
    LET Y == X \cup {s.to : s \in {t \in steps : t.op = "give" /\ t.x \in X
                                                  /\ t.to \in MCThings}}
    IN  IF Y = X THEN X ELSE Reached(steps, Y)

HomesOf ==
    [f \in DOMAIN MCBody |-> [x \in {s.x : s \in MCParts[f]} |->
        Reached(MCParts[f], {s.to : s \in {t \in MCParts[f] :
                            Puts(t) /\ t.x = x /\ t.to \in MCThings}})]]
MCHomes(f, x) == IF x \in DOMAIN HomesOf[f] THEN HomesOf[f][x] ELSE {}

RECURSIVE MCPass(_, _)
RECURSIVE MCSure(_, _)
RECURSIVE MCSafe(_, _)
MCPass(d, s) == PassHolds(d, s)
MCSure(d, s) == SureHolds(d, s)
MCSafe(d, s) == SafeHolds(d, s)

(***************************************************************************)
(* The theorems of NativeCallProofs are about bodies that are tidy, or     *)
(* that the Known* sets list.  All but a few bodies are: an implementation *)
(* with a fault in one place stays within the bound.                       *)
(***************************************************************************)
Untidy ==
    <<{f \in DOMAIN Body : ~KeepsOrder(f)}, {f \in DOMAIN Body : ~Cleans(f)},
      {f \in DOMAIN Body : ~Minds(f)}, {f \in DOMAIN Body : ~Tells(f)},
      {f \in DOMAIN Body : ~Commits(f)}>>

ASSUME TidyAssumption ==
    \A i \in DOMAIN Untidy :
        20 * Cardinality(Untidy[i]) <= Cardinality(DOMAIN Body)
=============================================================================
