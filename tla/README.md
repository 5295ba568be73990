# A verification project for gdalraster

gdalraster is an R package that binds the GDAL library: C++ classes exposed to
R (`GDALRaster`, `GDALVector`, `GDALAlg`, `VSIFile`, `CmbTable`,
`RunningStats`), a large set of stand-alone functions, and R code on top.
This directory holds TLA+ specifications of its stateful parts, TLC
configurations that model-check them, and proofs checked by TLAPS.
`PROJECT.json` ties each definition to the lines it translates.

## 1. The system

R calls one method at a time; there are no threads in the package. What makes
it hard is state that is kept in two places (an R object and the GDAL library
behind it), objects whose life is ended by the user (`close()`), by the garbage
collector (the destructor) or by reopening, handles several objects share,
methods that fail halfway, and integer and floating-point arithmetic on sizes.

| Part | State | Operations | Interacts with | What makes it correct |
|---|---|---|---|---|
| `GDALRaster` (`src/gdalraster.cpp`) | file name, dataset handle, access mode, shared flag, R objects preserved from the collector; pixels and metadata in the dataset | constructors, `create()`, `createCopy()`, `rvector_to_MEM()`, `mdim_as_classic()`, `autoCreateWarpedVRT()`, `open`, `close`, destructor, reading, writing, `addBand`, `flushCache` | other objects on the same shared dataset, virtual datasets, `GDALAlg` | a handle is alive while an object has it, the reference counts are exact, an object that claims write access has it, R data stay protected while a band points into them and no longer |
| `GDALVector` (`src/gdalvector.cpp`) | dataset and layer handle, access mode, a copy of the attribute filter, ignored fields; in the layer: filters, cursor, features, transaction | `open`, `close`, filters, `fetch` in four forms, `getFeature`, `setNextByIndex`, create/set/upsert/delete, transactions, Arrow stream, layer algebra | the OGR layer and its driver, which may count wrongly or move the cursor | the layer handle is used only while its dataset lives, paging skips nothing silently, a full fetch is complete, a read-only object never writes, the copy of the filter follows the layer's |
| `GDALAlg` (`src/gdalalg.cpp`) | algorithm handles, flags parsed/run/finalized, arguments as text, datasets among them, properties of vector inputs | constructor, `setArg`, `parseCommandLineArgs`, `run`, `output`, `close`, `release`, destructor | `GDALRaster`, `GDALVector` objects as arguments and results | text, objects and `setArg` are combined in a defined order; an algorithm that ran is finalized before it is released |
| Block and chunk indexing (`make_chunk_index_`) | none; loop variables | one function | `readChunk`, `writeChunk` | chunks tile the raster, hold at most `max_pixels`, lie on blocks |
| `CmbTable`, `combine()` | hash map of combinations, last ID | `update`, `updateFromMatrix`, `asDataFrame` | R checks and closes the rasters, C++ opens them again and walks over their rows | numbered by first sight; the table is the overlay of the rasters and agrees with the image written |
| `RunningStats` | count, mean, extremes, sum, M2 | `update`, `reset`, accessors | called per chunk by `read` clients | equal to the two-pass definitions however the stream is cut |
| `VSIFile` | file handle, access | `open`, `seek`, `read`, `write`, `truncate`, `close`, `set_access` | VSI file systems, which may report errors | a handle is used only between `open` and `close`, and closed once; a loop of reads ends with all bytes |
| OGR management (`ogr_util.cpp`) | data source on disk; an open dataset during a call | create/rename/delete of data sources, layers, fields, domains | `GDALVector` objects on the same file | every handle is released on every path; TRUE means done |
| `calc()` and other processing in R | datasets opened for a call | one function each | `GDALRaster`, `VSIFile` functions | inputs are compatible, outputs not overwritten by mistake, datasets closed |
| Geometry, spatial reference, transformation, VSI functions, raster and vector utilities, methods on pixels, bands and features | during a call: geometries, SRS objects, datasets, strings, error handlers, configuration options of the process | some 300 functions, one call each | GDAL, PROJ, GEOS | whatever a call takes it gives back on every exit, an R error included; failures are made known; a call that fails has changed nothing |
| Polygon fill, progress bar, data types, display, wrappers | none or one global | stateless calls | GDAL, cli | arguments are passed on |

Hard behaviours, in one sentence each (the full list with lines is
`hazards` in `PROJECT.json`): two R objects on one shared dataset; a dataset
that outlives the R vectors its bands point into; a reopen that fails after
the close; a driver that counts one feature too few or moves its cursor while
counting; filters replaced for one call and restored only if it does not throw;
arguments from three sources where the last one wins; a parse that fails
halfway and is repeated; 64-bit counts that become ints by way of doubles;
a NaN that compares false with everything; an R error, which is a C++ exception
and loses every raw handle; rasters replaced between a check and their opening;
an error indicator a reader never looks at.

## 2. The plan

In this order; a module marked * exists.

1. * `RunningStats`, * `CmbTable`: small, complete, with a reference definition each.
2. * `GDALVector`: handles, filters, cursor, all forms of fetch, writing, transactions.
3. * `ChunkIndex`: the tiling of a raster, with finite widths.
4. * `GDALAlg`: arguments and life of an algorithm.
5. * `GDALRaster`: several objects, shared handles, protection of R data.
6. * `GDALRasterProofs`: every invariant of `GDALRaster`.
7. * `VSIFile`: the handle, the position, and `close()` when the library fails; the loop of reads.
8. * `Combine` with `CmbTable`, and `CmbCount`, the abstract specification it implements.
9. * `NativeCall`, `Steps` and the modules `*Calls`: what every native function takes, releases,
   reports and changes, on every path.
10. * `CombineProofs`, `VSIFileProofs`, `RunningStatsProofs`, and the rest of `ChunkIndexProofs` and
    `GDALVectorProofs`: every safety property of these components.
11. * `Discipline` and `NativeCallProofs`: what can be seen of a body without running it, and that it is
    enough for the properties of `NativeCall`, for any bodies.
12. `GDALVectorColumns`: ignored fields, column numbers and truncation in `fetch()`.
13. Compositions: `GDALAlg` with `GDALRaster` (raw handles of inputs, references of outputs);
    an abstract specification of a paged reader (each matching feature once, in order)
    that `GDALVector` implements for a layer nobody writes to.

## 3. What is modelled

### RunningStats

One object. `m` holds the data members, `stream` is a history of the values
retained since the last `reset()`. Doubles are the integers of `Finite`, both
infinities and NA; means are held in units of `1/Scale` so that division is
exact for every count up to `MaxCount`. Rounding is not modelled, NaN and
infinity arithmetic is. `update(newvalues)` is the call of `update()`, and `updateLoop` one pass
of its loop, on the next of the values in `todo` (`UpdateOne` is what it does to the
members); `reset` keeps everything but the count, as the code does. The
doubles are not initialised by the constructor: `Init` chooses what memory held.

### CmbTable, Combine, CmbCount

`CmbTable` is one object. A combination is a member of `Key`. `updateFromMatrix`
begins a call and `update` visits one column; the hash map is a function on its
keys. `CmbCount` is what the class promises: numbers in the order of first sight, counts
added up. `CmbTable` implements it (`Counter == INSTANCE CmbCount WITH ...`, which maps the IDs and
the counts of the hash map; a visit is a step of the count, the rest are stutters).

`Combine` extends `CmbTable` with `combine()`. A raster is a record of its rows of pixels, its
width and its cell size. `Check` compares the sizes and cell sizes in R (`SameGrid`), and closes the files; `Open`
opens them again in C++; in between another program may replace any of them by any other
(`Replaced`, which the history variable `replaced` remembers), and C++ compares nothing: it takes
the size of the first raster for all. Then come a row from each raster (`Read`), the row handed to the
table (`Hand`, `Count`), the IDs written to the output (`Write`). Every step that calls
GDAL may be an R error instead (`Stop`): reading a window that reaches beyond a raster always is; so may the interrupt that is polled after a
row. `Stored` is the saturation of IDs in a small output type. A table an R user feeds by
hand (`phase = "user"`) is in the same specification.

### ChunkIndex

`make_chunk_index_()`: `ChunkSize` computes the size of the chunks from the
arguments chosen by `Init`, `NextChunk` is one row of the result. A double has
`Precision` bits and rounds to nearest even (`Nearest`, `Double`); casts and products that do not fit
an int may give any int. The assumptions on doubles say that no quotient overflows or
underflows the exponents (`ExponentAssumption`), that every int is a double and that `max_pixels`
has three bits less than one (`PrecisionAssumption`: 2^50 of 2^53). What rounding does to the chunks
follows and is proved.

### GDALVector

One object and one layer. The layer (filters, cursor, features, transaction)
is external and modelled from what the class relies on; the driver's freedom is
in the constants `Efficient`, `Emulated`, `CountResets`, `CountFallsShort`. A
feature is its FID, a filter the set of FIDs it lets through. `open` is one
action with its failures in the middle: the old dataset closed, the new one
opened, the layer not found. A query that does not compile is an action of its own
(`setAttributeFilterRefused`, `getFeatureRefused`): OGR drops the query installed (or, in some drivers, keeps it),
and R stops before the object's copy is set. `fetch(n)`, `fetch(Inf)` or `-1`, and `fetch(NA)` are
`fetchPage`, `fetchAll`, `fetchRemaining`; `getNextFeature` is `fetchPage(1)`.
`passed` is a history: what the cursor has dealt with since reading began.
`m_last_write_fid`, the ignored fields and the values of columns are left out.
`VectorMethodCalls` has the methods from the other side: what they take and release.

### GDALAlg

One algorithm. An argument's value is abstracted to where it came from: unset,
user (text or `setArg`) or object. `Parse` is the body of
`parseCommandLineArgs()`: datasets, arguments from the properties of objects in
the algorithm's own order with the `break` of the loop, then the text; each may
fail and leaves what was done before. `run` includes it. The library's
outcomes (which arguments it refuses, whether it has an actual algorithm)
are chosen in `Outcomes`. `m_args` are the arguments that the text gives, `seen` those that the loop
takes as given: it looks for the name or an alias among all pieces of the text, so it misses `--name` and
finds a value that is spelled like an argument. The two sets are independent.

### GDALRaster

Several objects (`Objs`), dataset handles, one file, R vectors. A dataset has a
count of references, of which `outside` are held by virtual datasets or
algorithms. `GDALClose` and `GDALReleaseDataset` differ as in GDAL: the first counts only
for a shared dataset and deletes any other. `Opens` is `GDALOpenEx()`: in shared
mode it returns a dataset of the same name if one is open in that mode or for
update. `destroy` is the garbage collector: it may come at any time and for any
object, which includes all times it really comes.

### VSIFile

One object and one file of at most `MaxSize` bytes. `content` is the file as the open
handle sees it, `stored` what other handles see: bytes written are seen after `flush`, a
`close` without error, or the reading of what was written. A read may return less than
asked and set the error indicator, a write may be short, a close may
report an error. `m_fp` is "freed" when the pointer is kept although the library has
freed it. `BeginLoop`, `LoopTest`, `LoopRead`, `AfterLoop` are the R code the manual
describes for `eof()`: test, read, append, from wherever the handle stands; it begins
after `open()`, `seek()` or `rewind()`, with the end-of-file indicator clear.

### NativeCall, Steps and the modules of calls

The functions of `srs_api.cpp`, `transform.cpp` (`SpatialRefCalls`), `geom_api.cpp`
(`GeometryCalls`), `ogr_util.cpp` (`VectorStoreCalls`), `gdal_vsi.cpp` (`FileSystemCalls`),
`gdal_exp.cpp` and `gdal_mdim.cpp` (`RasterUtilCalls`), and the methods of `GDALRaster`
(`RasterMethodCalls`) and `GDALVector` (`VectorMethodCalls`) share one pattern: they
take things that must be given back, call functions that can fail, and leave by one
of several exits. The hazard is the same everywhere and no unit test reaches it: a test
cannot make the third allocation of a function fail.

So each function is written as its sequence of steps, in the vocabulary of `Steps` (`Get`,
`Hold`, `Borrow`, `Free`, `Give`, `Use`, `Try`, `Choose`, `Loop`, `Tell`, `Effect`, `Effects`, and the exits
`Value`, `Void`, `Stop`), and `NativeCall` is the machine that runs them: `holder[x]` says who
is to release `x` (the function, a C++ object, the caller, or another thing of which `x`
is a part), and every call that can fail does both. `Stop` is `Rcpp::stop()`, a C++
exception: destructors run, raw handles are lost. An order in the code is an order in the
sequence, an early return is an exit inside a branch, and a C++ function called by
another is its steps in place.

What a call of the library leaves when it fails is the library's matter, and one rule is applied
everywhere. A call on one thing (a property of a band or layer, the definition of a field, one feature, one
file deleted, one directory) either changes it or fails: `Effect`. A call that works through many (pixels, features,
layers, files, directories), copies contents, or deletes what every feature has, can fail when it has
done a part: `Effects`. One that makes a dataset (`Make`) can fail when the old one of that name is
gone or was added to, or a piece of the new one is there. What this rule takes for atomic, a driver need not be.

What this abstracts: geometries, pixels, strings and option lists. Argument checks
of one kind before anything is taken are one step (`When(Stop)`). Branches on data
(`Choose`) are free, so more paths are checked than can be taken. R's own allocation errors, `options(warn = 2)`
and failures of the functions that release are left out. A message
suppressed by `quiet` counts as told, since the user asked for that.

The sets `MCLeaks`, `MCMisuse`, `MCSilent`, `MCPartial` in `MCNativeCall` name the places where
the code does not live up to the properties (section 5). The run shows that the functions as
modelled have no others, and each entry is reached: without it the run fails. `MCPartial` has two kinds,
functions that fail between two calls of the library (`SeveralCalls`) and those that fail inside one
long call (`OneLongCall`).

`Discipline` looks at a body without running it. A handle held, a failure not made known, a thing
that is not there, each is a *debt* (`Owed`): some steps raise it (`Raises`), some clear it (`Clears`), some
are wrong while it is owed (`Wrong`). `Pass`, `Sure` and `Safe` are marks on steps, and `Obeys` says what
the marks promise, one level deep: a step marked `Pass` does nothing wrong while the debt is owed, one marked
`Sure` leaves it cleared or leaves the function, one marked `Safe` settles on its own what it raises. A body is `Tidy`
when its steps obey and each is safe or followed by fine ones. `MCNativeCall` computes the marks from the bodies by
recursion; the theorems need only that they obey. So `TidyThing`, `KeepsOrder`, `Cleans`, `Minds`, `Tells` and
`Commits` say of one function that its steps visibly keep one of the properties.

## 4. The runs

| Run | Instance | Shows |
|---|---|---|
| `running_stats` | 3 finite values, both infinities, NA; chunks up to 2, streams up to 4 | `CountSumMean`, `VarianceIsTwoPass`, `ExtremesOrNA` |
| `running_stats_empty` | the same, no infinities | violated: `ExtremesOfEmpty` |
| `cmb_table` | 2 rasters of up to 2 rows and 2 columns, 2 values, 2 cell sizes, an output type up to 2; a table by hand with 4 visits | `IDsAreDense`, `ReturnedIDsStayValid`, `TableIsOverlay`, `ImageMatchesTable`, `CountsByFirstSight` (the refinement), `CombineEnds` (liveness) |
| `vector` | 3 features with a gap, 2 attribute and 2 spatial filters, queries that are refused, a count that may fall short | `LayerHandleAlive`, `NothingSkippedSilently`, `FetchAllIsComplete`, `RemainingOnly`, `FilterCopyFollows`, `ReadOnlyNeverWrites` |
| `vector_is_open` | 2 features | violated: `IsOpenSound` |
| `chunk_index` | rasters to 4 x 4, blocks to 3 x 3, `max_pixels` to 16, 4-bit ints, 8-bit doubles | `ChunksDisjoint`, `ChunksCover`, `ChunksOnBlocks` |
| `gdalalg` | three algorithms that differ in arguments and their order, every text and every set of arguments seen in it | `FinalizedBeforeRelease`, `RunsWithText`, `SelectionApplied` |
| `gdalalg_input` | one algorithm | violated: `ObjectIsInput` |
| `gdalraster` | 2 objects, 2 handles, a file, 2 R vectors, 1 outside reference per dataset | `RefsExact`, `UpdateIsReal`, `DataProtected`, `ProtectedWhileOpen` |
| `gdalraster_flush` | the same, no outside references | violated: `ClosedIsFlushed` |
| `native_calls` | every function of the seven modules of calls | `NothingLeaks`, `NothingMisused`, `FailureMadeKnown`, `AllOrNothing` |
| `vsifile` | a file of up to 3 of 2 bytes, reads and writes of up to 2 | `HandleFreedOnce`, `LoopReadsAll`, `LoopEnds` (liveness) |

Why the bounds are enough. A stream of four values has an element before, at and
after a chunk boundary and a reset; the update formulas look at one value and
one state. Four combinations over two rows contain a new one after a repeated one, a
row that repeats the one before, a raster that is shorter, longer, narrower, wider or finer than the first, and an ID beyond the
output type. A file of three bytes read by two has a full read, a short one, and
one at the end. `native_calls` has no bound: a function's steps are finite, and a
loop that runs again meets the same state. Three features contain a first, a middle and a last one, and a
gap in the FIDs distinguishes a cursor from a count. Rasters up to four with
blocks up to three contain whole and incomplete blocks and chunks; 8-bit
doubles round within these numbers, and 4-bit ints overflow. The three algorithms contain an argument
before and after each of those that can stop the loop. Two objects and two
handles contain sharing, a handle reused after deletion, and an object reopened
next to another; the third object a reader may miss is `outside`. Where a theorem
exists the bound does not matter.

Each property of a passing run is violated by a mutated definition
(`mutants` in `PROJECT.json`), kept next to the definition with the comment
"Fault:".

Fairness. Two specifications assume it, for what R's only thread does once it has begun.
`WF_allvars(CombineStep)`: `combine()` goes on until it returns or stops, and nothing
else runs meanwhile; replacing a file is another program's doing and is not fair.
`WF_vars(Loop)`: R code inside a loop of reads goes on with it; what the file system
answers is free, so it may report errors for ever, which is the case `LoopEnds` is about.
The other modules assume none: R does nothing by itself and the collector promises no time.

Deadlock is checked in `gdalraster`, `vector` and `native_calls`. It is off where the
modelled thing really stops: a function that returns, a released algorithm, a history
bound that is reached, or a freed handle in use, of which nothing is claimed.

## 5. What the violations show

* `ExtremesOfEmpty`: `get_min()` and `get_max()` look at `m_sum` before the count; the
  constructor does not set it and `reset()` does not clear it.
* `IsOpenSound`: when `open()` finds no layer it releases the dataset and keeps the
  handle; `isOpen()` is TRUE and the next `close()` releases it again.
* `ObjectIsInput`: the properties of a vector input stay when it is replaced
  by an input of another class.
* `ClosedIsFlushed`: `close()` of one of two objects on a shared dataset does not flush.

What `native_calls` needs its exceptions for, that is, where the code leaves
something behind, misuses it, keeps a failure to itself or fails halfway:

* Left behind at an R error: the ignored fields with `OGR_GEOMETRY` in them and the
  feature, when `fetch()` throws in its loop (`gdalvector.cpp:1192`); the filters, when it does so
  inside `getFeature()` (1085); the configuration option of `transform_bounds()` when no
  transformation is found (`transform.cpp:546`) and of `g_add_geom()` for a polygon
  (`geom_api.cpp:499`); the dataset of `ogr_layer_test_cap()` when there is no such layer
  (`ogr_util.cpp:1610`) and of `create_ogr()` and others when an argument deep inside is
  refused; the error handler of `vsi_curl_clear_cache()`; sources opened by wrappers whose
  options are refused; everything taken in a constructor of `GDALVector` that throws.
* Misused: with `returnGeomAs = "SUMMARY"` a `unique_ptr` destroys the geometry that the
  feature owns (`gdalvector.cpp:1601`); `warp()` closes datasets of its arguments' objects
  when a later one is not open (`gdal_exp.cpp:3101`); a colour entry beyond the table
  (`gdal_exp.cpp:3296`); transformations used without a test for null.
* Silent: `fetch()` cannot tell a read error from the end of the layer; an error of the Arrow
  stream is taken for its end (`gdalvector.cpp:1926`); a test for `OGRERR_NOT_ENOUGH_DATA` stands
  where `OGRERR_UNSUPPORTED_GEOMETRY_TYPE` is meant (`gdalvector.cpp:3986`), so that a feature is
  written without that geometry; `setRasterColorInterp()` does not look at the result.
* Halfway, between calls: `create_ogr()` leaves the data source, `ogr_layer_create()` the layer, `combine()` the
  output raster, a batch of features or of Arrow data those before, `addFileInZip()` has
  deleted the old archive.
* Halfway, within a call: what writes pixels or features (fills, warps, overviews, layer overlays, `ogr2ogr()` and
  `footprint()` into an existing data source), what makes a dataset in place of another (`translate()`,
  `buildVRT()`, `dem_proc()`, `rasterize()`, `mdim_translate()`), what goes through files (`vsi_sync()`, recursive
  `vsi_rmdir()` and `vsi_mkdir()`, `vsi_copy_file()`, `vsi_rename()`, `vsi_unlink_batch()`, `deleteDataset()`, `renameDataset()`,
  `copyDatasetFiles()`) and what is deleted from every feature (`ogr_layer_delete()`, `ogr_field_delete()`).

Seen while modelling, not the subject of a run:

* `GDALVector$getFeature()` restores the filters only when the fetch inside does not
  throw (an unsupported `returnGeomAs`); `FiltersLeft` models that.
* `open()` does not reset `m_attr_filter`: after a reopen `getAttributeFilter()` reports
  the filter of before. `FilterCopyFollows` allows the layer no filter for that reason.
* A refused query does the same: `setAttributeFilter()` stops before line 818 of
  `gdalvector.cpp`, when OGR has dropped the filter. `getAttributeFilter()` and `info()` report the
  old one, and the next `getFeature()` installs it again.
* `combine()` cuts what a raster replaced after the check has more than the first, and takes the smaller
  size of a first raster that was replaced, without a word; of two rasters that lie in different places it
  compares only sizes and cell sizes, although its message speaks of the extent.
* A value in the text of a `GDALAlg` that is spelled like an argument hides it from the loop
  (`gdalalg.cpp:1241`): after `c("--output-layer", "sql")` the SQL of a vector input is not
  applied, the message says that the text overrides it, and the algorithm works on the
  whole dataset. `SelectionApplied` says so of `seen`.
* `fetch(NA)` counts before it reads on; with a driver whose count moves the cursor it
  starts again at the first feature (`CountResets`; the checked instance has it FALSE, the
  theorem about `RemainingOnly` covers both).
* A stream with both infinities has a NaN sum, so `get_min()` answers NA;
  `ExtremesOrNA` allows it.
* In `make_chunk_index_()` the quotient of two rounded quotients can fall just below a
  whole number: the chunks are then one row of blocks short of the most
  `max_pixels` allows.
* In `make_chunk_index_()` the number of pixels of a row of chunks is an int product: it overflows
  once `max_pixels` exceeds about 2^31 times the width of the raster. The chunks still tile the
  raster and hold at most `max_pixels`, but may begin inside blocks: `BlockAligned` speaks of
  the rows only while their number fits (`RowsFit`).
* Values that an object sets during the parse replace those given to `setArg()`, while
  `R/gdalalg.R:78` can be read as if they did not.
* A definition's field domain is read from `fld["default"]` (`ogr_util.cpp:441`).
* A data frame of fewer rows than expected is filled by the number of the field and read by the
  number of the column (`gdalvector.cpp:1719`).
* The failure of `input-format`, which a comment in `parseCommandLineArgs()` lets pass
  silently, stays in `res` and makes the parse fail when nothing overwrites it.
* `m_hasFinalized` is never set, so every `close()` finalizes again.
* The vectors behind a MEM dataset are released when the object that brought them
  closes, although a virtual dataset or a second shared object may keep the dataset.
* `calc()` compares the dimensions of all rasters but the last with the first one.

## 6. What is proved

All theorems hold for every value of the constants that satisfies the named assumption
of the module; nothing else is assumed.

* `RunningStatsProofs` (`StatsAssumption`): `TypeCorrect`, `CountSumMeanRight`, `VarianceRight`,
  `ExtremesRight`, for streams of any length. The invariant relates each member to the
  stream: the sum is NA, an infinity or a number by what is in the stream; an NA stays in mean and M2;
  the stored extremes are those of a stream without NA; and of a finite stream
  `mean * n = Scale * T` and `M2 * n = Scale^2 * (n * Q - T^2)`, with `T` the sum and `Q` the
  sum of squares (`Welford`). `WelfordStep` is the algebra of one update: as `n` and `n + 1` both divide
  `Scale`, no quotient is truncated. `DeviationsOpened` brings the two-pass definition to the same form.
* `CombineProofs`, for the table (`CmbAssumption`): `TypeCorrect`, `DenseIDs`, `ValidIDs`, and `TableCounts`, that
  `CmbTable` implements `CmbCount`. The invariant is
  `TypeOK /\ IDsAreDense /\ ReturnedIDsStayValid`: density is what makes `m_last_ID + 1`
  new, and equal to the number of keys plus one, which is how `CmbCount` numbers; typing is
  needed for the arithmetic. One step for a visit to a known key, one for a new key.
* `CombineProofs`, for `combine()` (`CmbAssumption`, `CombineAssumption`: a row of combinations is a matrix the table
  takes): `CombineUsesTable`, that `CombineSpec` implements the specification of the table, so what is
  proved of `CmbTable` holds inside `combine()` (`CombineKeepsPromises`); `ImageIsRight`; `TableIsRight`. The
  invariant follows the walk: which rasters have given the current row (`RowsRead`), which
  columns of it were counted (`RowHanded`), that the table counts exactly the pixels of the rows
  before and of those columns (`TableSoFar`), and that what was written is the IDs of that time,
  which no later call changes (`ImageSoFar`); and two rasters not replaced have the same grid (`SameUnlessReplaced`), which
  is all the check leaves for `TableIsRight` to say about their other pixels. `CombineNearsEnd` is the safety half of `CombineEnds`: the steps
  still to make, `nrows * (NRasters + ncols + 2)` and two before the first row, are a
  natural number that every step lowers; only a raster replaced before it is opened raises it.
* `GDALVectorProofs` (`VectorAssumption`): `TypeCorrect`; `LayerAlive`, an invariant by itself
  once `open` is split by where it fails; `ReadOnlySafe`, an action property from the
  invariant that what a read-only object could roll back to is what is there;
  `NothingSkipped`, strengthened by what holds while counts fall short with warnings off;
  `FetchAllComplete` and `RemainingComplete`, from what a loop of `n` reads returns when `n` was counted
  (`CountedLoopReturns`), for drivers of every kind; `FilterCopyIsRight`, with the invariant `CopyOrNone`: the layer filters by the copy or not at all.
* `ChunkIndexProofs` (`ChunkAssumption`, `PrecisionAssumption`, `ExponentAssumption`):
  `TypeCorrect`, `Disjoint`, `Cover`, `OnBlocks`, `RoundingHarmless`, `NumChunksExact`. The loop invariant says that `chunks` are exactly the chunks at
  positions before `(x, y)`; that a pixel is in one column and one row of
  chunks is a pair of lemmas on division. They hold whatever an overflow gives. `OnBlocks` adds what
  the size chosen has to do with blocks and `max_pixels` (`SizeInv`). Rounding: a double is off by
  at most a part `1/R`, `R = 2^Precision`, a number with fewer bits is exact, and what is at
  least 1 stays so (`Rounding`). The error of each quotient then composes with those of its operands
  (`BlocksPerChunkNear`, `RoundingHarmless`), and parts `1/R` cannot carry a whole number past `max_pixels`
  (`NotBeyond`) nor past the next chunk (`NumChunksExact`).
* `VSIFileProofs` (`VSIFileAssumption`): `TypeCorrect`, `FreedOnce`, `LoopIsComplete`, `LoopNearsEnd`. The invariant adds to the
  types that a handle in use after being freed comes from a `close()` that failed
  (`FreedByError`), and that the loop has read the bytes between where it began and the
  position (`LoopSoFar`). `LoopNearsEnd` is the safety half of `LoopEnds`: of a `read()` that is followed by
  another one, `eof()` was FALSE, so it neither failed nor met the end and got all the bytes it asked for,
  at least one; the bytes left, and the sign that ends the loop, become fewer.
* `GDALAlgProofs` (`AlgAssumption`): `TypeCorrect`, `FinalizedFirst`, `TextHonoured`,
  `SelectionReached`. The invariant adds that a parsed object has its text in place and
  a run one is parsed. `SelectionReached` is about one step: when the loop ended with
  `res` TRUE it broke nowhere, so every position was reached; what it passed over is what it had `seen`.
* `GDALRasterProofs` (`RasterAssumption`): `TypeCorrect`, `CountsExact`, `WritesAreReal`,
  `VectorsProtected`, `VectorsReleased`. The invariant, `Sound`, speaks of each dataset
  with the set of objects that have it: their number and the references outside are its
  count, access mode and shared flag of each object agree with it, and a dataset that nobody
  else has held, or that has no driver, has one object. The last part is what makes
  `GDALClose()` on an unshared dataset safe. `Sound` takes its functions as
  arguments, so that `open()`, which closes first, is proved as letting go and then taking.
* `NativeCallProofs` (`NamesAssumption`, `BodyAssumption`: how steps are built; `HomesAssumption`): `CallsClean`,
  `MisuseIsKnown`, `FailuresTold`, `EffectsCommitted`, `PartsKept`, for every set of functions, of any size and nesting.
  Each says that a function which visibly keeps a property (`Cleans(fn)`, `Minds(fn)`, ...) or is listed as known not to
  has it in every state of every run. The invariant is that a call fulfils its debts: while
  `d` is owed, what is left to do is `Fine`, and every step left that may raise `d` again is followed by what is
  fine (`Opened`). `FineJoin` and `OpenedJoin` carry this over a branch put before the rest, and over a loop
  body put before the loop; `ThingAccounts` shows that steps raise and clear as `Discipline` says, for a thing that
  goes with the thing it is part of too. That no misuse happens needs four debts of a thing together
  (`FulfilsThing`): giving away what is not there is excluded by the fourth. That parts are not parts of parts needs the
  same of everything something is put into (`WholeIsProper`). TLC evaluates the hypotheses for the 295 functions
  of the modules of calls: all bodies are tidy or listed, but for `Tells` of six that test a transformation or a colour
  entry for null too late or not at all (`transform_xy`, `inv_project`, `pixel_extract`, `getMinMaxLocation`,
  `isLineOfSightVisible`, `createColorRamp`; `MCMisuse` lists them). `TidyAssumption` in `MCNativeCall` has TLC
  confirm on every run that, of each kind, at most one function in twenty is not covered.

Induction over a stream, which `RunningStatsProofs` needs, is done with a set: the library's
induction theorem takes a predicate, which the provers cannot instantiate, but its facts
about well-founded relations on `Nat` give that a set of numbers with 0 and with `n + 1` for each
`n` is `Nat` (`Induction`), and that is enough for recursive functions such as `SumTo` and
`Pow2`, which `ChunkIndexProofs` treats the same way.

Only model-checked: that functions which misuse a thing before they return are silent about nothing
else (six bodies that `Tells` does not cover, see above); and the liveness properties
`CombineEnds` and `LoopEnds`. Liveness under fairness and ENABLED are out of the
prover's reach: `CombineNearsEnd` and `LoopNearsEnd` prove for every size that neither can go on for ever by its own steps, and
TLC checks that neither stops half-way.

## 7. What is not modelled

Every part is listed under `components` in `PROJECT.json` with the reason. What GDAL, PROJ and
GEOS compute is theirs. Conversions of values between R and GDAL, pixels, option lists and
graphics are data that no property here tells apart; the column numbers of a truncated
`fetch()` are in the plan. `calc()` evaluates a user's R expression. The polygon fill works on
doubles, and its answer at edges is a matter of rounding: a model over integers
would not be that code. The progress bar is the cli package's. `RcppExports` is generated.
Configuration options that R code sets around a call (`rvector_to_MEM()`) are not in the
calls modelled; those C++ code sets are.
