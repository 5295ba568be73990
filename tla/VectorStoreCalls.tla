--------------------------- MODULE VectorStoreCalls ---------------------------
(***************************************************************************)
(* ogr_util.cpp: functions that open a vector data source, look at it or   *)
(* change its layers, fields and field domains, and close it again.        *)
(*                                                                         *)
(* Every function first expands the file name (check_gdal_filename()),     *)
(* which stops on a name that is not one string.                           *)
(***************************************************************************)
EXTENDS GeometryCalls

Filename == When(Stop)

\* opened while GDAL's messages are suppressed, or openly
OpenQuietly(failed) ==
    Take("handler")
    \o GetOr("ds", Free("handler"), Free("handler") \o failed)

Open(failed) == Get("ds", failed)

\* the layer too is looked for quietly
OpenLayerQuietly(failed) ==
    Take("handler")
    \o Get("ds", Free("handler") \o failed)
    \o Borrow("layer", "ds", Free("handler") \o Free("ds") \o failed)
    \o Free("handler")

Close(r) == Free("ds") \o r
Refuse   == When(Tell \o Close(Void))

-----------------------------------------------------------------------------
(***************************************************************************)
(* A field type that is not recognized is an R error of getOFT_(), raised  *)
(* with whatever the caller holds at that point.                           *)
(***************************************************************************)
CreateField_(ok, failed) ==
    When(Stop)
    \o GetOr("flddefn",
             When(Tell)
             \o Effect(Free("flddefn") \o ok,
                      Free("flddefn") \o failed),
             failed)

CreateGeomField_(ok, failed) ==
    LET Made ==
            GetOr("gflddefn",
                  When(Tell)
                  \o Effect(Free("gflddefn") \o FreeIf("srs") \o ok,
                           Free("gflddefn") \o FreeIf("srs") \o failed),
                  FreeIf("srs") \o failed)
    IN Take("srs") \o TryOr(Made, FreeIf("srs") \o Tell \o failed)

(***************************************************************************)
(* The layer is created and then its fields.  A field that cannot be       *)
(* created is reported and passed over; a malformed definition is an       *)
(* error, with the layer created and the caller's dataset open.            *)
(***************************************************************************)
CreateLayer_(failed) ==
    When(Stop)
    \o Take("lsrs") \o Try(FreeIf("lsrs") \o Stop)
    \o Borrow("layer", "ds", FreeIf("lsrs") \o failed) \o Change
    \o Loop(Choose(Stop,
                Choose(Tell, Choose(CreateField_(<< >>, Tell),
                                    CreateGeomField_(<< >>, Tell)))))
    \o FreeIf("lsrs")

\* the new object closes the dataset when it is deleted
AsGDALVector ==
    HoldNew("lyr") \o Give("ds", "lyr") \o Give("lyr", "caller") \o Value

create_ogr ==
    When(Stop) \o Make("ds", Stop)
    \o When(Free("ds") \o HoldNew("lyr") \o Give("lyr", "caller") \o Value)
    \o When(Close(Stop))
    \o CreateLayer_(Close(Stop))
    \o When(GetOr("flddefn",
                  TryOr(Free("flddefn"), Free("flddefn") \o Close(Stop)),
                  Close(Stop)))
    \o AsGDALVector

ogr_layer_create ==
    Filename \o Open(Stop) \o When(Close(Stop))
    \o CreateLayer_(Close(Stop)) \o AsGDALVector

-----------------------------------------------------------------------------
\* looking at a data source
ogr_ds_exists   == Filename \o OpenQuietly(Void) \o Close(Value)
ogr_ds_format   == Filename \o OpenQuietly(Void) \o Close(Value)
ogr_ds_test_cap == Filename \o OpenQuietly(Void) \o Use("ds") \o Close(Value)

\* what cannot be opened has no layers
ogr_ds_layer_count ==
    Filename \o Take("handler")
    \o GetOr("ds", Free("handler") \o Free("ds"), Free("handler"))
    \o Value

ogr_ds_layer_names ==
    Filename \o OpenQuietly(Void) \o When(Close(Void))
    \o Loop(When(Tell)) \o Close(Value)

ogr_ds_field_domain_names ==
    Filename \o Open(Tell \o Void) \o Refuse
    \o When(HoldNew("names")) \o Close(Value)

ogr_layer_exists ==
    Filename \o Take("handler")
    \o Get("ds", Free("handler") \o Void)
    \o Borrow("layer", "ds", Free("handler") \o Close(Void))
    \o Free("handler") \o Close(Value)

\* the dataset stays open when it has no such layer
ogr_layer_test_cap ==
    Filename \o Take("handler")
    \o Get("ds", Free("handler") \o Void)
    \o Borrow("layer", "ds", Free("handler") \o Void)
    \o Free("handler") \o Free("ds") \o Hold("lyr", Stop) \o Value

ogr_layer_field_names ==
    Filename \o OpenLayerQuietly(Void) \o When(Close(Void))
    \o Use("layer") \o Loop(When(Tell)) \o Close(Value)

ogr_field_index ==
    Filename \o OpenLayerQuietly(Void)
    \o Use("layer") \o Choose(Close(Value), Close(Void))

-----------------------------------------------------------------------------
\* changing layers and fields
\* Fault: a failed flush after the change decides the result.
Changed_Flushed == Effect(Try(Close(Void)) \o Close(Value), Close(Void))

Changed == Effect(Close(Value), Close(Void))

\* what is deleted is in every feature
Deleted == Effects(Close(Value), Close(Void))

ogr_layer_rename ==
    Filename \o Open(Void) \o Borrow("layer", "ds", Tell \o Close(Void))
    \o Refuse \o Use("layer") \o Changed

\* the layer found by name is looked for again by its number
ogr_layer_delete ==
    Filename \o Open(Void) \o Refuse
    \o Borrow("layer", "ds", Tell \o Close(Void))
    \o Loop(Use("layer")) \o Deleted

ogr_field_create ==
    Filename \o OpenLayerQuietly(Void)
    \o When(Free("ds") \o Tell \o Void) \o When(Close(Void))
    \o CreateField_(Close(Value), Close(Void))

ogr_geom_field_create ==
    Filename \o When(Stop) \o OpenLayerQuietly(Void)
    \o When(Free("ds") \o Tell \o Void) \o When(Close(Void))
    \o CreateGeomField_(Close(Value), Close(Void))

FieldOfLayer ==
    Filename \o Open(Tell \o Void)
    \o Borrow("layer", "ds", Tell \o Close(Void))
    \o Refuse \o When(Close(Void)) \o Refuse

AlteredField ==
    FieldOfLayer \o Take("flddefn")
    \o Effect(Free("flddefn") \o Close(Value),
             Free("flddefn") \o Close(Tell \o Void))

ogr_field_rename          == AlteredField
ogr_field_set_domain_name == AlteredField
ogr_field_delete          == FieldOfLayer \o Use("layer") \o Deleted

\* the result is NULL whatever came of the statement
ogr_execute_sql ==
    Filename \o When(FromWkt(Tell \o Void))
    \o Open(Tell \o Void) \o When(Tell)
    \o GetOr("layer", Give("layer", "ds") \o Change, When(Change))
    \o FreeIf("geom") \o Close(Value)

-----------------------------------------------------------------------------
(***************************************************************************)
(* A field domain is checked part by part, the dataset being closed before *)
(* each error but those of as<>() and getOFT_().                           *)
(***************************************************************************)
CheckedDomain == When(Close(Stop)) \o When(Stop) \o When(Close(Stop))

Reason == When(Take("reason") \o Tell \o Free("reason"))

AddedDomain(release) ==
    GetOr("domain",
          Effect(Reason \o Free("domain") \o release \o Close(Value),
                Reason \o Free("domain") \o release \o Close(Void)),
          release \o Close(Void))

\* codes and values are copied one by one
CodedDomain ==
    When(Close(Stop)) \o Take("codes")
    \o Loop(HoldNew("tokens")
            \o When(Free("ds") \o Free("codes") \o Stop))
    \o AddedDomain(Free("codes"))

RangeDomain    == When(Close(Stop)) \o AddedDomain(<< >>)
DateTimeDomain == When(Close(Stop)) \o AddedDomain(<< >>)
GlobDomain     == When(Close(Stop)) \o AddedDomain(<< >>)

ogr_ds_add_field_domain ==
    Filename \o Open(Stop) \o CheckedDomain
    \o Choose(Choose(CodedDomain, RangeDomain),
              Choose(Choose(DateTimeDomain, GlobDomain), Close(Stop)))

ogr_ds_delete_field_domain ==
    Filename \o Open(Tell \o Void) \o Changed

VectorStoreBodies ==
    [create_ogr |-> create_ogr, ogr_layer_create |-> ogr_layer_create,
     ogr_ds_exists |-> ogr_ds_exists, ogr_ds_format |-> ogr_ds_format,
     ogr_ds_test_cap |-> ogr_ds_test_cap,
     ogr_ds_layer_count |-> ogr_ds_layer_count,
     ogr_ds_layer_names |-> ogr_ds_layer_names,
     ogr_ds_field_domain_names |-> ogr_ds_field_domain_names,
     ogr_ds_add_field_domain |-> ogr_ds_add_field_domain,
     ogr_ds_delete_field_domain |-> ogr_ds_delete_field_domain,
     ogr_layer_exists |-> ogr_layer_exists,
     ogr_layer_test_cap |-> ogr_layer_test_cap,
     ogr_layer_field_names |-> ogr_layer_field_names,
     ogr_layer_rename |-> ogr_layer_rename,
     ogr_layer_delete |-> ogr_layer_delete, ogr_field_index |-> ogr_field_index,
     ogr_field_create |-> ogr_field_create,
     ogr_geom_field_create |-> ogr_geom_field_create,
     ogr_field_rename |-> ogr_field_rename,
     ogr_field_set_domain_name |-> ogr_field_set_domain_name,
     ogr_field_delete |-> ogr_field_delete, ogr_execute_sql |-> ogr_execute_sql]
=============================================================================
