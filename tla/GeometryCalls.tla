---------------------------- MODULE GeometryCalls ----------------------------
(***************************************************************************)
(* geom_api.cpp: functions on geometries, which come and go as WKB.        *)
(*                                                                         *)
(* A NULL, a vector that is no WKB and an empty one give NULL or NA.       *)
(***************************************************************************)
EXTENDS SpatialRefCalls

createGeomFromWkb_(x, failed) == Get(x, Tell \o failed)

\* the size of the WKB is asked for first; `release' runs between the
\* export and the look at what came of it
exportGeomToWkb_(release, failed) ==
    Try(release \o failed) \o release \o Try(failed)

NoGeom == When(Void)
ThisGeom == NoGeom \o createGeomFromWkb_("geom", Void)

getGEOSVersion == Try(Tell) \o Value
has_geos == Get("geom", Stop) \o Use("geom") \o Free("geom") \o Value

-----------------------------------------------------------------------------
\* WKB and WKT; an export to WKT that fails gives ""
WkbToWkt ==
    createGeomFromWkb_("geom", Stop)
    \o GetOr("text", Free("text"), << >>) \o Free("geom")

g_wkb2wkt == NoGeom \o WkbToWkt \o Value
g_wkb_list2wkt == When(Stop) \o Loop(Choose(Tell, WkbToWkt)) \o Value

\* WKT that cannot be read may leave a part of a geometry
FromWkt(failed) ==
    Get("geom", When(Take("geom")) \o FreeIf("geom") \o failed)

WktToWkb == FromWkt(Stop) \o When(Tell) \o exportGeomToWkb_(Free("geom"), Stop)

g_wkt2wkb == When(Void) \o WktToWkb \o Value
g_wkt_vector2wkb == When(Stop) \o Loop(Choose(Tell, WktToWkb)) \o Value

-----------------------------------------------------------------------------
(***************************************************************************)
(* Creation.  OGR_G_AddGeometryDirectly() takes the point in any case.     *)
(* OGR_GEOMETRY_ACCEPT_UNCLOSED_RING is NO while a ring is added, unless   *)
(* the user has set it.                                                    *)
(***************************************************************************)
UnclosedRingOption == When(Take("ring_option"))
RestoreRingOption  == FreeIf("ring_option")

RingAdded ==
    UnclosedRingOption
    \o TryOr(RestoreRingOption \o Free("geom"),
             RestoreRingOption \o Free("geom") \o Free("out") \o Stop)

CreatedWkb ==
    When(Stop) \o Get("geom", Stop) \o When(Tell)
    \o When(Choose(Free("geom") \o Stop,
                   Loop(Take("part") \o Give("part", "geom")
                        \o Try(Free("geom") \o Stop))))
    \o Choose(Take("out") \o Choose(Free("geom"), RingAdded)
              \o exportGeomToWkb_(Free("out"), Stop),
              exportGeomToWkb_(Free("geom"), Stop))

g_create == CreatedWkb \o Value

bbox_to_wkt == When(Stop) \o CreatedWkb \o WkbToWkt \o Value

bbox_from_wkt == FromWkt(Tell \o Void) \o Free("geom") \o Value

\* the option is restored when the part was added, not when it was not
g_add_geom ==
    When(Stop)
    \o createGeomFromWkb_("other", Stop)
    \o createGeomFromWkb_("geom", Free("other") \o Stop)
    \o UnclosedRingOption
    \o TryOr(Free("other"), Free("other") \o Free("geom") \o Stop)
    \o RestoreRingOption \o exportGeomToWkb_(Free("geom"), Stop) \o Value

\* a ring is copied and made a polygon of its own
g_get_geom ==
    NoGeom \o When(Stop) \o createGeomFromWkb_("geom", Void)
    \o Borrow("part", "geom", Free("geom") \o Tell \o Void)
    \o Choose(Get("out", Free("geom") \o FreeIf("out") \o Void)
              \o exportGeomToWkb_(Free("geom") \o Free("out"), Void),
              Use("part") \o exportGeomToWkb_(Free("geom"), Void))
    \o Value

(***************************************************************************)
(* The collection is a C++ object until it is handed to OGR_G_ForceTo(),   *)
(* which frees what it cannot convert.  Elements that do not fit are       *)
(* skipped with a message.                                                 *)
(***************************************************************************)
g_build_collection ==
    When(Stop) \o HoldNew("out")
    \o Loop(Choose(Tell,
                   GetOr("geom",
                         Choose(Tell \o Free("geom"),
                                TryOr(Give("geom", "out"),
                                      Tell \o Free("geom"))),
                         Tell)))
    \o Give("out", "call") \o When(Try(Free("out") \o Stop))
    \o exportGeomToWkb_(Free("out"), Stop) \o When(Tell) \o Value

\* on an error the polygon is destroyed if there is none
g_build_polygon_from_edges ==
    NoGeom \o When(Stop) \o createGeomFromWkb_("geom", Void)
    \o When(Free("geom") \o Tell \o Void)
    \o Get("out", Free("geom") \o FreeIf("out") \o Tell \o Void)
    \o Free("geom") \o Try(Tell \o Void)
    \o exportGeomToWkb_(Free("out"), Void) \o Value

-----------------------------------------------------------------------------
\* questions about one geometry
Measure == ThisGeom \o Use("geom") \o Free("geom") \o Value

g_geom_count  == When(Value) \o createGeomFromWkb_("geom", Void)
                 \o Free("geom") \o Value
g_is_valid    == Measure
g_is_empty    == Measure
g_is_3D       == Measure
g_is_measured == Measure
g_is_ring     == Measure
g_name        == Measure
g_envelope    == Measure
g_length      == Measure
g_area        == Measure
g_summary     == NoGeom \o When(Stop) \o createGeomFromWkb_("geom", Void)
                 \o Give("geom", "scope") \o Value

g_invalid_reason ==
    When(Value) \o When(Stop) \o createGeomFromWkb_("geom", Void)
    \o When(Take("text") \o Free("text")) \o Free("geom") \o Choose(Value, Void)

g_centroid ==
    ThisGeom \o Get("out", Free("geom") \o Void)
    \o Try(Free("out") \o Free("geom") \o Void)
    \o Free("out") \o Free("geom") \o Value

\* srs_to_wkt() and the import of the WKT may stop with the geometry made
g_export_to_json ==
    ThisGeom \o Take("srs")
    \o When(SrsToWkt \o Try(FreeIf("srs") \o Stop))
    \o GetOr("text", Free("text"), << >>)
    \o Free("geom") \o FreeIf("srs") \o Value

Geodesic ==
    LET Done(r) == Free("geom") \o FreeIf("srs") \o FreeIf("axis_option") \o r
    IN When(Stop) \o NoGeom \o Imported("srs") \o When(Free("srs") \o Void)
       \o createGeomFromWkb_("geom", Free("srs") \o Void)
       \o When(Take("axis_option")) \o Try(Done(Void)) \o Done(Value)

g_geodesic_area   == Geodesic
g_geodesic_length == Geodesic

-----------------------------------------------------------------------------
\* operations that make a new geometry from one
UnaryOp ==
    ThisGeom \o Get("out", Free("geom") \o Void)
    \o exportGeomToWkb_(Free("geom") \o Free("out"), Void) \o Value

g_make_valid  == NoGeom \o Try(Tell) \o When(Tell) \o UnaryOp
g_normalize   == When(Stop) \o UnaryOp
g_boundary    == UnaryOp
g_buffer      == UnaryOp
g_convex_hull == UnaryOp
g_concave_hull == When(Stop) \o Try(Tell) \o When(Stop) \o UnaryOp
g_concave_hull_of_polygons == When(Stop) \o Try(Tell) \o When(Stop) \o UnaryOp
g_delaunay_triangulation == Try(Tell) \o When(Stop) \o UnaryOp
g_point_on_surface == UnaryOp
g_simplify    == UnaryOp
g_unary_union == When(Stop) \o UnaryOp

\* operations that change the geometry object
InPlace ==
    ThisGeom \o Use("geom") \o exportGeomToWkb_(Free("geom"), Void) \o Value

g_set_3D       == InPlace
g_set_measured == InPlace
g_swap_xy      == InPlace
g_segmentize   == InPlace

-----------------------------------------------------------------------------
\* two geometries: the second one is looked at when the first is made
TwoGeoms ==
    ThisGeom \o When(Free("geom") \o Void)
    \o createGeomFromWkb_("other", Free("geom") \o Void)

FreeOtherThis == Free("other") \o Free("geom")

Relate == TwoGeoms \o Use("geom") \o Use("other") \o FreeOtherThis \o Value

g_equals   == Relate
g_disjoint == Relate
g_touches  == Relate
g_contains == Relate
g_within   == Relate
g_crosses  == Relate
g_overlaps == Relate
g_distance == TwoGeoms \o Try(FreeOtherThis \o Void) \o FreeOtherThis \o Value

BinaryOp ==
    TwoGeoms \o Get("out", FreeOtherThis \o Void)
    \o exportGeomToWkb_(Free("out") \o FreeOtherThis, Void) \o Value

g_intersection   == BinaryOp
g_union          == BinaryOp
g_difference     == BinaryOp
g_sym_difference == BinaryOp

(***************************************************************************)
(* One geometry against many is prepared when GEOS can; otherwise pairs.   *)
(* An element of a pair that is not a raw vector is passed over without    *)
(* destroying its partner.                                                 *)
(***************************************************************************)
Against(with) ==
    Loop(Choose(Tell, GetOr("other", Use(with) \o Free("other"), Tell)))

g_intersects ==
    When(Stop)
    \o Choose(createGeomFromWkb_("geom", Stop)
              \o Choose(Take("prepared") \o Free("geom")
                        \o Against("prepared") \o Free("prepared"),
                        Against("geom") \o Free("geom")),
              Loop(Choose(Tell,
                  GetOr("geom",
                        Choose(Tell,
                               Choose(Tell,
                                      GetOr("other",
                                            Use("geom") \o Free("other"),
                                            Tell))
                               \o Free("geom")),
                        Tell))))
    \o Value

(***************************************************************************)
(* g_transform() restores the axis order option whatever fails; geometries *)
(* that cannot be transformed become NULL.                                 *)
(***************************************************************************)
TransformedGeom ==
    LET Done == Free("out") \o Free("geom")
    IN GetOr("geom",
             GetOr("out", TryOr(Done, Done \o Tell), Tell \o Free("geom")),
             Tell)

g_transform ==
    LET Restored == FreeIf("axis_option") \o FreeBoth
    IN When(Void) \o SrsToWkt \o SrsToWkt \o Take("srs") \o Take("other_srs")
       \o Try(FreeBoth \o Stop) \o Try(FreeBoth \o Stop)
       \o When(Take("axis_option"))
       \o Get("ct", Restored \o Stop)
       \o Get("transformer", Free("ct") \o Restored \o Stop)
       \o Loop(When(TransformedGeom))
       \o Free("transformer") \o Free("ct") \o Restored \o Choose(Value, Void)

GeometryBodies ==
    [getGEOSVersion |-> getGEOSVersion, has_geos |-> has_geos,
     g_wkb2wkt |-> g_wkb2wkt, g_wkb_list2wkt |-> g_wkb_list2wkt,
     g_wkt2wkb |-> g_wkt2wkb, g_wkt_vector2wkb |-> g_wkt_vector2wkb,
     g_create |-> g_create, bbox_to_wkt |-> bbox_to_wkt,
     bbox_from_wkt |-> bbox_from_wkt, g_add_geom |-> g_add_geom,
     g_get_geom |-> g_get_geom, g_build_collection |-> g_build_collection,
     g_build_polygon_from_edges |-> g_build_polygon_from_edges,
     g_geom_count |-> g_geom_count, g_is_valid |-> g_is_valid,
     g_is_empty |-> g_is_empty, g_is_3D |-> g_is_3D,
     g_is_measured |-> g_is_measured, g_is_ring |-> g_is_ring,
     g_name |-> g_name, g_envelope |-> g_envelope, g_length |-> g_length,
     g_area |-> g_area, g_summary |-> g_summary,
     g_invalid_reason |-> g_invalid_reason, g_centroid |-> g_centroid,
     g_export_to_json |-> g_export_to_json,
     g_geodesic_area |-> g_geodesic_area,
     g_geodesic_length |-> g_geodesic_length, g_make_valid |-> g_make_valid,
     g_normalize |-> g_normalize, g_boundary |-> g_boundary,
     g_buffer |-> g_buffer, g_convex_hull |-> g_convex_hull,
     g_concave_hull |-> g_concave_hull,
     g_concave_hull_of_polygons |-> g_concave_hull_of_polygons,
     g_delaunay_triangulation |-> g_delaunay_triangulation,
     g_point_on_surface |-> g_point_on_surface, g_simplify |-> g_simplify,
     g_unary_union |-> g_unary_union, g_set_3D |-> g_set_3D,
     g_set_measured |-> g_set_measured, g_swap_xy |-> g_swap_xy,
     g_segmentize |-> g_segmentize, g_equals |-> g_equals,
     g_disjoint |-> g_disjoint, g_touches |-> g_touches,
     g_contains |-> g_contains, g_within |-> g_within, g_crosses |-> g_crosses,
     g_overlaps |-> g_overlaps, g_distance |-> g_distance,
     g_intersection |-> g_intersection, g_union |-> g_union,
     g_difference |-> g_difference, g_sym_difference |-> g_sym_difference,
     g_intersects |-> g_intersects, g_transform |-> g_transform]
=============================================================================
