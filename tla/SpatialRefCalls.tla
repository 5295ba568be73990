--------------------------- MODULE SpatialRefCalls ---------------------------
(***************************************************************************)
(* srs_api.cpp and transform.cpp: functions on spatial reference systems,  *)
(* and coordinate transformation.                                          *)
(***************************************************************************)
EXTENDS Steps

\* an SRS object made from user input, WKT or an EPSG code
Imported(x) == Take(x) \o Try(FreeIf(x) \o Stop)

\* what the many functions do that ask one question of an SRS; the empty
\* string is no SRS
AskedSrs == Imported("srs") \o Use("srs") \o Free("srs")
SrsQuery == When(Void) \o AskedSrs \o Value

epsg_to_wkt ==
    Imported("srs") \o Get("wkt", Free("srs") \o Stop)
    \o Free("srs") \o Free("wkt") \o Value

(***************************************************************************)
(* srs_to_wkt() as other functions of the package call it: "" goes through *)
(* as it is; with gcs_only the geographic part is exported, and there may  *)
(* be none.                                                                *)
(***************************************************************************)
SrsToWkt ==
    Choose(<< >>,
           Imported("srs_in")
           \o Choose(GetOr("gcs",
                           Get("wkt", Free("gcs") \o Free("srs_in") \o Stop)
                           \o Free("gcs"),
                           Free("srs_in") \o Stop),
                     Get("wkt", Free("srs_in") \o Stop))
           \o Free("srs_in") \o Free("wkt"))

srs_to_wkt == SrsToWkt \o Value

srs_to_projjson ==
    When(Void) \o When(Stop) \o Imported("srs")
    \o GetOr("json", << >>, Free("srs") \o FreeIf("json") \o Stop)
    \o Free("srs") \o Free("json") \o Value

srs_find_epsg ==
    When(Void) \o Imported("srs")
    \o When(Take("matches") \o Take("confidence"))
    \o Free("srs") \o Loop(When(Tell))
    \o FreeIf("matches") \o FreeIf("confidence") \o Choose(Value, Void)

srs_get_name          == SrsQuery
srs_is_geographic     == SrsQuery
srs_is_derived_gcs    == SrsQuery
srs_is_local          == SrsQuery
srs_is_projected      == SrsQuery
srs_is_compound       == SrsQuery
srs_is_geocentric     == SrsQuery
srs_is_vertical       == SrsQuery
srs_is_dynamic        == When(Stop) \o SrsQuery
srs_get_angular_units == SrsQuery
srs_get_linear_units  == SrsQuery
srs_get_coord_epoch   == When(Stop) \o SrsQuery
srs_get_utm_zone      == SrsQuery
srs_get_axis_mapping_strategy == SrsQuery
srs_get_axes_count    == SrsQuery
srs_epsg_treats_as_lat_long == SrsQuery
srs_epsg_treats_as_northing_easting == SrsQuery
srs_get_celestial_body_name ==
    When(Stop) \o When(Void) \o When(Stop) \o AskedSrs \o Value

\* the second failure releases both objects
srs_is_same ==
    When(Void) \o Imported("srs")
    \o Take("other_srs") \o Try(Free("srs") \o Free("other_srs") \o Stop)
    \o Use("srs") \o Use("other_srs") \o Free("srs") \o Free("other_srs") \o Value

srs_get_area_of_use ==
    When(Void) \o Imported("srs") \o Try(Free("srs") \o Tell \o Void)
    \o Free("srs") \o Value

srs_get_axes ==
    When(Void) \o Imported("srs")
    \o When(Free("srs") \o Stop) \o When(Free("srs") \o Void)
    \o Loop(Use("srs")) \o Free("srs") \o Choose(Value, Void)

\* a failed query gives an empty data frame
srs_info_from_db == Hold("list", << >>) \o Value

-----------------------------------------------------------------------------
getPROJSearchPaths == Hold("list", << >>) \o Choose(Value, Void)

\* points with a missing coordinate, or that cannot be transformed, become
\* NA with a warning; all of them is an error
TransformPoints ==
    When(Stop) \o Use("ct") \o Try(Choose(Stop, Tell)) \o When(Tell)

\* neither the geographic SRS nor the transformation is compared with null
inv_project ==
    When(Stop) \o SrsToWkt \o Try(Stop)
    \o Choose(Hold("longlat", << >>), HoldNew("longlat") \o Try(Stop))
    \o Use("longlat") \o Hold("ct", << >>) \o TransformPoints \o Value

TransformXY ==
    When(Stop) \o SrsToWkt \o SrsToWkt \o Try(Stop) \o Try(Stop)
    \o Hold("ct", << >>) \o TransformPoints \o Dropped("ct")

transform_xy == TransformXY \o Value

(***************************************************************************)
(* OGR_CT_FORCE_TRADITIONAL_GIS_ORDER is set to NO for authority compliant *)
(* axis order and restored at the end, not when the transformation cannot  *)
(* be made.                                                                *)
(***************************************************************************)
FreeBoth == FreeIf("srs") \o FreeIf("other_srs")

transform_bounds ==
    When(Void) \o When(Stop) \o SrsToWkt \o SrsToWkt
    \o Take("srs") \o Take("other_srs")
    \o Try(FreeBoth \o Stop) \o Try(FreeBoth \o Stop)
    \o When(Take("axis_option"))
    \o Get("ct", FreeBoth \o Stop)
    \o Loop(Choose(Tell, Try(Tell)))
    \o Free("ct") \o Free("srs") \o Free("other_srs")
    \o FreeIf("axis_option") \o Value

SpatialRefBodies ==
    [epsg_to_wkt |-> epsg_to_wkt, srs_to_wkt |-> srs_to_wkt,
     srs_to_projjson |-> srs_to_projjson, srs_find_epsg |-> srs_find_epsg,
     srs_get_name |-> srs_get_name, srs_is_geographic |-> srs_is_geographic,
     srs_is_derived_gcs |-> srs_is_derived_gcs, srs_is_local |-> srs_is_local,
     srs_is_projected |-> srs_is_projected, srs_is_compound |-> srs_is_compound,
     srs_is_geocentric |-> srs_is_geocentric,
     srs_is_vertical |-> srs_is_vertical, srs_is_dynamic |-> srs_is_dynamic,
     srs_get_angular_units |-> srs_get_angular_units,
     srs_get_linear_units |-> srs_get_linear_units,
     srs_get_coord_epoch |-> srs_get_coord_epoch,
     srs_get_utm_zone |-> srs_get_utm_zone,
     srs_get_axis_mapping_strategy |-> srs_get_axis_mapping_strategy,
     srs_get_axes_count |-> srs_get_axes_count,
     srs_epsg_treats_as_lat_long |-> srs_epsg_treats_as_lat_long,
     srs_epsg_treats_as_northing_easting |->
         srs_epsg_treats_as_northing_easting,
     srs_get_celestial_body_name |-> srs_get_celestial_body_name,
     srs_is_same |-> srs_is_same, srs_get_area_of_use |-> srs_get_area_of_use,
     srs_get_axes |-> srs_get_axes, srs_info_from_db |-> srs_info_from_db,
     getPROJSearchPaths |-> getPROJSearchPaths, inv_project |-> inv_project,
     transform_xy |-> transform_xy, transform_bounds |-> transform_bounds]
=============================================================================
