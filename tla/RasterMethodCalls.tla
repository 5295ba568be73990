-------------------------- MODULE RasterMethodCalls --------------------------
(***************************************************************************)
(* gdalraster.cpp: the methods of class GDALRaster that read and change    *)
(* pixels, georeferencing, metadata, statistics, colours and attribute     *)
(* tables.  (How objects come to their dataset handles and give them back  *)
(* is in module GDALRaster.)  The object owns the dataset; a method owns   *)
(* what it makes for itself.                                               *)
(*                                                                         *)
(* A message that field `quiet' of the object suppresses counts as told:   *)
(* the user has asked for silence.                                         *)
(***************************************************************************)
EXTENDS RasterUtilCalls

\* checkAccess_(): the object is closed, or it is read-only and is to write
Checked == When(Stop)
\* getBand_(): the dataset has no such band
Band == When(Stop)

DatasetQuery == Checked \o Value
BandQuery    == Checked \o Band \o Choose(Value, Void)

isReadOnly == DatasetQuery
\* a dataset without a driver gets a warning instead
info ==
    Checked \o When(Tell \o Value) \o Get("options", Stop)
    \o GetOr("text", << >>, << >>) \o Free("options") \o FreeIf("text") \o Value
infoAsJSON == info
getFileList == Checked \o HoldNew("list") \o Choose(Value, Void)
getDriverShortName == DatasetQuery
getDriverLongName  == DatasetQuery
getRasterXSize == DatasetQuery
getRasterYSize == DatasetQuery
getRasterCount == DatasetQuery

-----------------------------------------------------------------------------
\* georeferencing; the default is returned with a warning
GeoTransform == Checked \o Try(Tell)
getGeoTransform == GeoTransform \o Value
\* Fault: the library's answer is not looked at.
setGeoTransform_Unchecked == Checked \o When(Stop) \o Effect(<< >>, << >>) \o Value

setGeoTransform == Checked \o When(Stop) \o Effect(Value, Tell \o Void)
setBbox == Checked \o When(Stop) \o setGeoTransform
ProjectionRef == Checked \o When(Tell)
getProjectionRef == ProjectionRef \o Value
getProjection == getProjectionRef
getSpatialRef == getProjectionRef
setProjection ==
    Checked \o When(Tell \o Void) \o Effect(Value, Tell \o Void)
bbox == Checked \o GeoTransform \o Value
res  == Checked \o GeoTransform \o When(Tell) \o Value
dim  == DatasetQuery

\* coordinates as vectors or matrices; those outside become NA
GeoCoordinates == When(Stop) \o GeoTransform \o When(Tell)
apply_geotransform_gt == When(Stop) \o Value
apply_geotransform_ds == GeoCoordinates \o Value
apply_geotransform    == Checked \o apply_geotransform_ds
get_pixel_line_gt == When(Stop) \o Try(Stop) \o Value
get_pixel_line_ds ==
    When(Stop) \o GeoTransform \o Try(Stop) \o GeoTransform \o When(Tell)
    \o Value
get_pixel_line == Checked \o get_pixel_line_ds

\* pixel values at points: read, or interpolated with NA for a failure
Pixels == When(Stop) \o Band \o Try(Stop)
pixel_extract ==
    Checked \o When(Stop) \o When(ProjectionRef \o TransformXY) \o When(Stop)
    \o Loop(Band) \o When(Stop) \o GeoTransform \o Try(Stop) \o GeoTransform
    \o Loop(Choose(Tell, Choose(Pixels, Band \o Try(Tell))))
    \o When(Tell) \o Value

-----------------------------------------------------------------------------
\* blocks; a block size that makes no sense is replaced with a warning
BlockSize == Checked \o Band
getBlockSize == BlockSize \o Value
getActualBlockSize == BlockSize \o TryOr(Value, Void)
get_block_indexing ==
    BlockSize \o When(Tell) \o Loop(BlockSize \o GeoTransform) \o Value
make_chunk_index ==
    BlockSize \o When(Tell) \o GeoTransform \o When(Stop) \o Value

getOverviewCount == BandQuery
\* some levels may have been made before one fails
buildOverviews == Checked \o Effects(<< >>, Stop) \o Value

-----------------------------------------------------------------------------
\* properties of a band; many that change one ask for read access only
BandSetter == Checked \o Band \o Effect(Value, Tell \o Void)
ValueSetter ==
    Checked \o When(Void) \o Band \o Effect(Value, Tell \o Void)

getDataTypeName == BandQuery
hasNoDataValue  == BandQuery
getNoDataValue  == BandQuery
setNoDataValue  == ValueSetter
deleteNoDataValue == Checked \o Band \o Try(Stop) \o Change \o Value
getMaskFlags == BandQuery
getMaskBand  == BandQuery
getUnitType  == BandQuery
setUnitType  == BandSetter
hasScale  == BandQuery
getScale  == BandQuery
setScale  == ValueSetter
hasOffset == BandQuery
getOffset == BandQuery
setOffset == ValueSetter
getDescription == Checked \o When(Band) \o Value
setDescription == Checked \o When(Band) \o Change \o Value
getRasterColorInterp == BandQuery
\* the library's answer is not looked at
setRasterColorInterp ==
    Checked \o Band \o When(Stop) \o Effect(<< >>, << >>) \o Value

-----------------------------------------------------------------------------
\* statistics
getMinMax == Checked \o Band \o Try(Tell) \o Value
getMinMaxLocation ==
    When(Stop) \o Checked \o Band \o Try(Tell \o Void)
    \o GeoCoordinates \o GeoCoordinates
    \o ProjectionRef \o When(TransformXY \o TransformXY) \o Value
getStatistics == Checked \o Band \o TryOr(Value, Tell \o Void)
clearStatistics == Checked \o Choose(Change, Tell) \o Value
getHistogram == Checked \o Band \o Try(Stop) \o Value
getDefaultHistogram ==
    Checked \o Band
    \o GetOr("codes", Use("codes") \o Free("codes"), Choose(Stop, Tell)) \o Value
getInterBandCovMatrix ==
    When(Stop) \o Checked \o When(Stop) \o Try(Tell) \o Value

-----------------------------------------------------------------------------
\* metadata of the dataset (band 0) or of a band
getMetadata == Checked \o When(Band) \o Choose(Value, Void)
setMetadata ==
    Checked \o HoldNew("list") \o When(Band) \o Effect(Value, Void)
getMetadataItem == Checked \o When(Band) \o Choose(Value, Void)
setMetadataItem == Checked \o When(Band) \o Effect(Value, Void)
getMetadataDomainList ==
    Checked \o When(Band) \o When(Take("names"))
    \o FreeIf("names") \o Choose(Value, Void)

-----------------------------------------------------------------------------
(***************************************************************************)
(* Pixels.  A write that fails may have written some blocks.               *)
(***************************************************************************)
read == Checked \o Pixels \o Value
readBlock == Checked \o When(Stop) \o Band \o When(Stop) \o Try(Stop) \o read
readChunk == Checked \o When(Stop) \o read
readToNativeRaster ==
    Checked \o When(Stop) \o Loop(Band) \o Loop(Try(Stop)) \o Value

Written == Effects(<< >>, Stop)
write == Checked \o When(Stop) \o Band \o When(Stop) \o Written \o Value
writeBlock == Checked \o When(Stop) \o Band \o When(Stop) \o Try(Stop) \o write
writeChunk == Checked \o When(Stop) \o write
fillRaster == Checked \o Band \o Written \o Value
getChecksum == BandQuery

(***************************************************************************)
(* A band made of an R vector needs a configuration option while it is     *)
(* added.                                                                  *)
(***************************************************************************)
addBand ==
    Checked \o HoldNew("list") \o When(Tell \o Void)
    \o When(When(Tell) \o When(Tell \o Void) \o When(Take("mem_option")))
    \o Effect(FreeIf("mem_option") \o Value,
             FreeIf("mem_option") \o Void)

-----------------------------------------------------------------------------
\* colours
getColorTable    == BandQuery
getPaletteInterp == BandQuery
setColorTable ==
    Checked \o Band \o When(Stop) \o Get("table", Stop) \o Loop(When(Tell))
    \o Effect(Free("table") \o Value, Free("table") \o Tell \o Void)
clearColorTable == Checked \o Band \o Effect(Value, Void)

(***************************************************************************)
(* Raster attribute tables.  A column is read into an R vector, into       *)
(* strings or into an array of Booleans.                                   *)
(***************************************************************************)
StringColumn ==
    Take("names") \o Try(Free("names") \o Stop)
    \o Loop(Take("text") \o Free("text")) \o Free("names")
BooleanColumn == Get("codes", Stop) \o Try(Free("codes") \o Stop) \o Free("codes")
GeometryColumn == Try(Stop) \o Loop(Take("text") \o Free("text"))

getDefaultRAT ==
    Checked \o Band \o When(Void)
    \o Loop(Choose(Choose(Try(Stop), StringColumn),
                   Choose(Choose(BooleanColumn, GeometryColumn), Tell)))
    \o Value

(***************************************************************************)
(* Attributes and list elements of the wrong type are R errors while the   *)
(* table exists.  After a column that was skipped with a warning, values   *)
(* are set by the number of the column in the data frame, which need not   *)
(* be a column of the table; the library's answer is not looked at.        *)
(***************************************************************************)
TableColumn ==
    Choose(Tell,
           When(Stop) \o When(Tell)
           \o TryOr(Loop(When(Stop) \o Try(<< >>)), Tell))

setDefaultRAT ==
    Checked \o Band \o Get("table", Stop)
    \o When(When(Stop) \o Try(Tell)) \o Loop(TableColumn)
    \o When(Free("table") \o Tell \o Void)
    \o Effect(Free("table") \o Value, Free("table") \o Tell \o Void)

\* `quiet' is TRUE while the object is printed
show ==
    Take("quiet") \o When(Value) \o ProjectionRef \o When(Stop)
    \o GeoTransform \o When(Tell) \o Free("quiet") \o Value

RasterMethodBodies ==
    [isReadOnly |-> isReadOnly, info |-> info, infoAsJSON |-> infoAsJSON,
     getFileList |-> getFileList, getDriverShortName |-> getDriverShortName,
     getDriverLongName |-> getDriverLongName,
     getRasterXSize |-> getRasterXSize, getRasterYSize |-> getRasterYSize,
     getRasterCount |-> getRasterCount, getGeoTransform |-> getGeoTransform,
     setGeoTransform |-> setGeoTransform, setBbox |-> setBbox,
     getProjectionRef |-> getProjectionRef, getProjection |-> getProjection,
     getSpatialRef |-> getSpatialRef, setProjection |-> setProjection,
     bbox |-> bbox, res |-> res, dim |-> dim,
     apply_geotransform_gt |-> apply_geotransform_gt,
     apply_geotransform_ds |-> apply_geotransform_ds,
     apply_geotransform |-> apply_geotransform,
     get_pixel_line_gt |-> get_pixel_line_gt,
     get_pixel_line_ds |-> get_pixel_line_ds,
     get_pixel_line |-> get_pixel_line, pixel_extract |-> pixel_extract,
     getBlockSize |-> getBlockSize,
     getActualBlockSize |-> getActualBlockSize,
     get_block_indexing |-> get_block_indexing,
     make_chunk_index |-> make_chunk_index,
     getOverviewCount |-> getOverviewCount,
     buildOverviews |-> buildOverviews, getDataTypeName |-> getDataTypeName,
     hasNoDataValue |-> hasNoDataValue, getNoDataValue |-> getNoDataValue,
     setNoDataValue |-> setNoDataValue,
     deleteNoDataValue |-> deleteNoDataValue, getMaskFlags |-> getMaskFlags,
     getMaskBand |-> getMaskBand, getUnitType |-> getUnitType,
     setUnitType |-> setUnitType, hasScale |-> hasScale,
     getScale |-> getScale, setScale |-> setScale, hasOffset |-> hasOffset,
     getOffset |-> getOffset, setOffset |-> setOffset,
     getDescription |-> getDescription, setDescription |-> setDescription,
     getRasterColorInterp |-> getRasterColorInterp,
     setRasterColorInterp |-> setRasterColorInterp, getMinMax |-> getMinMax,
     getMinMaxLocation |-> getMinMaxLocation,
     getStatistics |-> getStatistics, clearStatistics |-> clearStatistics,
     getHistogram |-> getHistogram,
     getDefaultHistogram |-> getDefaultHistogram,
     getInterBandCovMatrix |-> getInterBandCovMatrix,
     getMetadata |-> getMetadata, setMetadata |-> setMetadata,
     getMetadataItem |-> getMetadataItem,
     setMetadataItem |-> setMetadataItem,
     getMetadataDomainList |-> getMetadataDomainList, read |-> read,
     readBlock |-> readBlock, readChunk |-> readChunk,
     readToNativeRaster |-> readToNativeRaster, write |-> write,
     writeBlock |-> writeBlock, writeChunk |-> writeChunk,
     fillRaster |-> fillRaster, getChecksum |-> getChecksum,
     addBand |-> addBand, getColorTable |-> getColorTable,
     getPaletteInterp |-> getPaletteInterp, setColorTable |-> setColorTable,
     clearColorTable |-> clearColorTable, getDefaultRAT |-> getDefaultRAT,
     setDefaultRAT |-> setDefaultRAT, show |-> show]
=============================================================================
