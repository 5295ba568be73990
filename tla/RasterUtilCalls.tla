--------------------------- MODULE RasterUtilCalls ---------------------------
(***************************************************************************)
(* gdal_exp.cpp and gdal_mdim.cpp: utilities on rasters and vectors, made  *)
(* of GDAL's C API for its command line programs.                          *)
(*                                                                         *)
(* "args" stands for the GDALRaster objects of the caller: a function may  *)
(* use their dataset handles and may not close them.                       *)
(***************************************************************************)
EXTENDS FileSystemCalls

OfObject(x) == HoldNew("args") \o Borrow(x, "args", Stop)

AsGDALRaster(x) ==
    HoldNew("raster") \o Give(x, "raster") \o Give("raster", "caller") \o Value

dump_open_datasets == Get("file", Void) \o Free("file") \o Value

-----------------------------------------------------------------------------
(***************************************************************************)
(* Programs that read an open source and make a new dataset.  When the     *)
(* options are not understood the error leaves the source open.            *)
(***************************************************************************)
dem_proc ==
    Filename \o Get("src", Stop) \o Get("options", Stop)
    \o Make("dst", Free("options") \o Free("src") \o Stop)
    \o Free("options") \o Free("src") \o Free("dst") \o Value

\* these two can also add to an existing dataset, layer by layer
footprint == When(Stop) \o dem_proc
ogr2ogr   == dem_proc

ogrinfo ==
    When(Stop) \o Filename \o Get("src", Stop) \o Get("options", Stop)
    \o GetOr("text", << >>, << >>)
    \o Free("options") \o Free("src") \o FreeIf("text") \o Value

translate ==
    Filename \o OfObject("src") \o Get("options", Stop)
    \o Make("dst", Free("options") \o Void)
    \o Free("options") \o Free("dst") \o Value

buildVRT ==
    Filename \o Loop(Filename) \o Get("options", Stop)
    \o Make("dst", Free("options") \o Stop)
    \o Free("options") \o Free("dst") \o Value

autoCreateWarpedVRT ==
    OfObject("src") \o When(Stop) \o When(Take("options"))
    \o Get("dst", FreeIf("options") \o Stop) \o FreeIf("options")
    \o AsGDALRaster("dst")

(***************************************************************************)
(* rasterize() writes into a new file or into the caller's dataset.        *)
(***************************************************************************)
rasterize ==
    LET Done == Free("options") \o Free("src")
    IN Filename \o Get("src", Stop) \o When(Stop)
       \o Choose(OfObject("dst") \o Get("options", Stop)
                 \o Effects(Done \o Use("dst") \o Value, Done \o Stop),
                 Get("options", Stop) \o Make("dst", Done \o Stop) \o Done \o Free("dst") \o Value)

(***************************************************************************)
(* warp() collects the handles of its sources.  When a later one is not    *)
(* open it closes those before it, which belong to the caller's objects.   *)
(***************************************************************************)
warp ==
    Filename \o When(Stop) \o HoldNew("args")
    \o When(Borrow("dst", "args", Stop))
    \o Borrow("src", "args", Tell \o Stop)
    \o Loop(Borrow("more", "args", Tell \o Free("src") \o Stop))
    \o Get("options", Stop)
    \o Choose(Effects(Free("options") \o Value, Free("options") \o Void),
              Make("result", Free("options") \o Void)
              \o Free("options") \o Free("result") \o Value)

-----------------------------------------------------------------------------
\* algorithms on bands; the mask is optional
MaskOpened(closed) ==
    When(Get("mask", closed \o Stop)
         \o Borrow("maskband", "mask", closed \o Free("mask") \o Stop))

fillNodata ==
    LET Done == Free("src") \o FreeIf("mask")
    IN Filename \o Get("src", Stop) \o Borrow("band", "src", Free("src") \o Stop)
       \o MaskOpened(Free("src"))
       \o Effects(Done \o Value, Done \o Stop)

sieveFilter ==
    LET Done == Free("src") \o FreeIf("mask")
        All  == Done \o FreeIf("dst")
    IN Filename \o When(Stop)
       \o Get("src", Stop) \o Borrow("band", "src", Free("src") \o Stop)
       \o MaskOpened(Free("src"))
       \o When(Get("dst", Done \o Stop)
               \o Borrow("dstband", "dst", Done \o Free("dst") \o Stop))
       \o Effects(All \o Value, All \o Stop)

\* the field is looked up by opening the output a second time
FieldIndexOf ==
    Take("handler")
    \o GetOr("ds", Free("handler") \o When(Tell) \o Free("ds"),
             Free("handler") \o Tell)

polygonize ==
    LET Done == Free("src") \o FreeIf("mask")
        All  == Free("src") \o Free("dst") \o FreeIf("mask")
    IN Filename \o When(Stop)
       \o Get("src", Stop) \o Borrow("band", "src", Free("src") \o Stop)
       \o MaskOpened(Free("src"))
       \o Get("dst", Done \o Stop)
       \o Borrow("layer", "dst", Done \o Free("dst") \o Stop)
       \o FieldIndexOf
       \o Effects(All \o Value, All \o Stop)

bandCopyWholeRaster ==
    LET Done == Free("src") \o Free("dst")
    IN Filename \o Get("src", Void) \o Borrow("band", "src", Free("src") \o Void)
       \o Get("dst", Free("src") \o Void) \o Borrow("dstband", "dst", Done \o Void)
       \o Effects(Done \o Value, Done \o Void)

isLineOfSightVisible ==
    When(Stop) \o When(AskedSrs \o When(Stop) \o TransformXY)
    \o When(AskedSrs \o When(Stop) \o TransformXY) \o When(Stop)
    \o HoldNew("args") \o Borrow("band", "args", Stop)
    \o Loop(When(Try(Stop)) \o Use("band")) \o When(Tell) \o Value

-----------------------------------------------------------------------------
(***************************************************************************)
(* combine() holds its rasters in C++ objects.  A row that cannot be read  *)
(* ends it with the output raster created and partly written.              *)
(***************************************************************************)
combine ==
    When(Stop) \o Loop(Hold("src", Stop))
    \o When(Hold("dst", When(Change) \o Stop) \o Change \o Try(Tell) \o Try(Tell))
    \o Loop(Try(Stop) \o When(Effects(<< >>, Stop))) \o Value

value_count == HoldNew("args") \o Loop(Try(Stop)) \o Value

\* the colours are read back without a look whether the ramp was made
createColorRamp ==
    When(Stop) \o Get("table", Stop)
    \o TryOr(Borrow("entry", "table", << >>), << >>) \o Use("entry")
    \o Free("table") \o Value

-----------------------------------------------------------------------------
\* files of a dataset, one after the other
DatasetOp == Filename \o Try(Void) \o Effects(Value, Void)

deleteDataset    == DatasetOp
renameDataset    == DatasetOp
copyDatasetFiles == DatasetOp
identifyDriver   == Filename \o When(Void) \o Try(Void) \o Value

validateCreationOptions == Try(Stop) \o Choose(Value, Void)
gdal_get_driver_md ==
    Try(Stop) \o When(Choose(Value, Void))
    \o Loop(When(Take("text")) \o FreeIf("text")) \o Choose(Value, Void)

\* an existing file is removed before the new one is created
addFileInZip ==
    When(Stop) \o Filename \o When(Change) \o Hold("zip", When(Change) \o Stop)
    \o Effects(Value, Void)

-----------------------------------------------------------------------------
\* multidimensional rasters
mdim_as_classic ==
    When(Stop) \o Get("ds", Stop)
    \o Get("group", Free("ds") \o Stop) \o Free("ds")
    \o Choose(Get("array", Free("group") \o Stop),
              Get("subgroup", Stop)
              \o GetOr("array", Free("subgroup"),
                       Free("subgroup") \o Free("group") \o Stop))
    \o When(GetOr("view", Free("array"),
                  Free("array") \o Free("group") \o Stop))
    \o GetOr("dst", FreeIf("view") \o FreeIf("array") \o Free("group"),
             FreeIf("view") \o FreeIf("array") \o Free("group") \o Stop)
    \o AsGDALRaster("dst")

mdim_info ==
    When(Stop) \o Get("ds", Stop) \o When(Tell)
    \o Get("options", Free("ds") \o Stop)
    \o GetOr("text", << >>, << >>)
    \o FreeIf("text") \o Free("options") \o Free("ds") \o Value

mdim_translate ==
    When(Stop) \o Get("src", Stop)
    \o Get("options", Free("src") \o Stop)
    \o Make("dst", Free("options") \o Free("src") \o Stop)
    \o Free("options") \o Free("dst") \o Free("src") \o Value

RasterUtilBodies ==
    [dump_open_datasets |-> dump_open_datasets, dem_proc |-> dem_proc,
     footprint |-> footprint, ogr2ogr |-> ogr2ogr, ogrinfo |-> ogrinfo,
     translate |-> translate, buildVRT |-> buildVRT,
     autoCreateWarpedVRT |-> autoCreateWarpedVRT, rasterize |-> rasterize,
     warp |-> warp, fillNodata |-> fillNodata, sieveFilter |-> sieveFilter,
     polygonize |-> polygonize, bandCopyWholeRaster |-> bandCopyWholeRaster,
     isLineOfSightVisible |-> isLineOfSightVisible, combine |-> combine,
     value_count |-> value_count, createColorRamp |-> createColorRamp,
     deleteDataset |-> deleteDataset, renameDataset |-> renameDataset,
     copyDatasetFiles |-> copyDatasetFiles, identifyDriver |-> identifyDriver,
     validateCreationOptions |-> validateCreationOptions,
     gdal_get_driver_md |-> gdal_get_driver_md, addFileInZip |-> addFileInZip,
     mdim_as_classic |-> mdim_as_classic, mdim_info |-> mdim_info,
     mdim_translate |-> mdim_translate]
=============================================================================
