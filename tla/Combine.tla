------------------------------- MODULE Combine -------------------------------
(***************************************************************************)
(* combine(): overlay of rasters, which numbers the distinct combinations  *)
(* of their pixel values, counts their pixels, and may write the number of *)
(* each pixel's combination to an output raster.  The R function compares  *)
(* the sizes of the files and closes them; the C++ function opens them     *)
(* again, reads them row by row and hands every row to a CmbTable.         *)
(*                                                                         *)
(* A raster has rows of pixel values, all of one width, and a cell size;   *)
(* where it lies, and its projection, the code does not compare.  CmbTable *)
(* is also a class of its own: the specification allows a table to which   *)
(* an R user gives matrices in any order.                                  *)
(***************************************************************************)
EXTENDS CmbTable, FiniteSets

CONSTANTS
    NRasters,    \* how many rasters are combined
    Pixel,       \* the values of a pixel
    Resolution,  \* the cell sizes
    MaxRows,     \* bound: rows of a raster
    MaxCols,     \* bound: pixels of a row
    TypeMax      \* the largest value of the output data type

\* the keys of the table are the combinations of the rasters' pixels, and a
\* row fits a matrix of the table
ASSUME CombineAssumption ==
    /\ NRasters \in Nat \ {0} /\ MaxRows \in Nat
    /\ MaxCols \in 0..MaxColumns /\ TypeMax \in Nat
    /\ 1 \in Increment
    /\ [1..NRasters -> Pixel] \subseteq Key

RasterOf(m, n) ==
    [row : [1..m -> [1..n -> Pixel]], ncols : {n}, res : Resolution]

Raster == UNION {RasterOf(m, n) : m \in 1..MaxRows, n \in 1..MaxCols}

VARIABLES
    phase,       \* what runs: "user", or a step of combine()
    src,         \* the raster files
    out_raster,  \* whether there is an output raster
    rowdata,     \* the current row of the rasters read so far
    y,           \* rows done
    dst,         \* rows written to the output raster
    replaced     \* history: the rasters replaced since the check

cvars == <<phase, src, out_raster, rowdata, y, dst, replaced>>
allvars == <<vars, cvars>>

CombineInit ==
    /\ Init
    /\ phase \in {"user", "check"}
    /\ phase = "check" => incr = 1
    /\ src \in IF phase = "user" THEN {<< >>} ELSE [1..NRasters -> Raster]
    /\ out_raster \in IF phase = "user" THEN {FALSE} ELSE BOOLEAN
    /\ rowdata = << >> /\ y = 0 /\ dst = << >> /\ replaced = {}

-----------------------------------------------------------------------------
\* an R error: C++ objects close the rasters, rows written stay written
Stop ==
    /\ phase' = "stopped"
    /\ UNCHANGED <<vars, src, out_raster, rowdata, y, dst, replaced>>

nrows == Len(src[1].row)
ncols == src[1].ncols

\* Fault: only the rows are compared.
SameGrid_RowsOnly(r) == Len(src[r].row) = nrows

SameGrid(r) ==
    /\ Len(src[r].row) = nrows /\ src[r].ncols = ncols
    /\ src[r].res = src[1].res

\* in R: a file does not open, or has another size or cell size than the first
Check ==
    /\ phase = "check"
    /\ \/ /\ \A r \in 1..NRasters : SameGrid(r)
          /\ phase' = "open"
          /\ UNCHANGED <<vars, src, out_raster, rowdata, y, dst, replaced>>
       \/ Stop

\* the files are closed between the check and the opening in C++
Replaced(r) ==
    /\ phase = "open"
    /\ \E raster \in Raster : src' = [src EXCEPT ![r] = raster]
    /\ replaced' = replaced \cup {r}
    /\ UNCHANGED <<vars, phase, out_raster, rowdata, y, dst>>

\* the rasters are opened and the output is created
Open ==
    /\ phase = "open"
    /\ \/ /\ phase' = "read"
          /\ UNCHANGED <<vars, src, out_raster, rowdata, y, dst, replaced>>
       \/ Stop

ToRead == Len(rowdata) + 1

\* a window beyond a raster cannot be read, and other reads may fail
Read ==
    /\ phase = "read" /\ Len(rowdata) < NRasters
    /\ \/ /\ y < Len(src[ToRead].row) /\ ncols <= src[ToRead].ncols
          /\ rowdata' = Append(rowdata,
                               [x \in 1..ncols |-> src[ToRead].row[y + 1][x]])
          /\ UNCHANGED <<vars, phase, src, out_raster, y, dst, replaced>>
       \/ Stop

Columns == [x \in 1..ncols |-> [r \in 1..NRasters |-> rowdata[r][x]]]

\* the row is handed to the table with an increment of 1
Hand ==
    /\ phase = "read" /\ Len(rowdata) = NRasters
    /\ updateFromMatrix(Columns) /\ incr' = 1
    /\ phase' = "count"
    /\ UNCHANGED <<src, out_raster, rowdata, y, dst, replaced>>

Count == phase = "count" /\ update /\ UNCHANGED cvars

\* Fault: the increment of the row before is written.
Stored_LastID(id) == m_last_ID

\* the library stores the largest value there is for one that is too large
Stored(id) == IF id > TypeMax THEN TypeMax ELSE id

\* Fault: the row is not advanced.
NextRow_Same == y

NextRow == y + 1

RowsDone == NextRow = nrows

\* the IDs are written; a failed write or the user's interrupt is an error
Write ==
    /\ phase = "count" /\ todo = << >>
    /\ \/ /\ dst' = IF out_raster
                      THEN Append(dst, [x \in 1..ncols |-> Stored(out[x])])
                      ELSE dst
          /\ y' = NextRow
          /\ rowdata' = << >>
          /\ phase' = IF RowsDone THEN "returned" ELSE "read"
          /\ UNCHANGED <<vars, src, out_raster, replaced>>
       \/ Stop

CombineStep == Check \/ Open \/ Read \/ Hand \/ Count \/ Write

User == phase = "user" /\ Next /\ UNCHANGED cvars

CombineNext ==
    \/ User
    \/ CombineStep
    \/ \E r \in 1..NRasters : Replaced(r)

\* combine() runs on R's only thread until it returns or stops
CombineSpec ==
    /\ CombineInit
    /\ [][CombineNext]_allvars
    /\ WF_allvars(CombineStep)

-----------------------------------------------------------------------------
PixelsOf(r) == (1..Len(src[r].row)) \X (1..src[r].ncols)
Overlay(p) == [r \in 1..NRasters |-> src[r].row[p[1]][p[2]]]

(***************************************************************************)
(* The data frame that combine() returns has a row for each combination at *)
(* the pixels of the first raster, as it was opened, for no other, and     *)
(* counts the pixels of each, and every raster has all these pixels.  When *)
(* neither the first nor another was replaced since the check, that is all *)
(* of the other: none of its pixels is left out.  The code does not promise *)
(* it of a raster replaced: the rest of one that has got larger, or of all *)
(* when the first has got smaller, is left out and nobody is told.         *)
(***************************************************************************)
TableIsOverlay ==
    phase = "returned" =>
        /\ \A r \in 1..NRasters : PixelsOf(1) \subseteq PixelsOf(r)
        /\ \A r \in 1..NRasters :
               {1, r} \cap replaced = {} =>
                   PixelsOf(r) = PixelsOf(1) /\ src[r].res = src[1].res
        /\ DOMAIN m_cmb_map = {Overlay(p) : p \in PixelsOf(1)}
        /\ \A k \in DOMAIN m_cmb_map :
               m_cmb_map[k].count =
                   Cardinality({p \in PixelsOf(1) : Overlay(p) = k})

(***************************************************************************)
(* While the output data type can hold the IDs given, every pixel written  *)
(* to the output raster is the ID that the table has for the combination   *)
(* at that pixel, whatever was numbered after the row was written.         *)
(***************************************************************************)
ImageMatchesTable ==
    phase # "user" /\ m_last_ID <= TypeMax =>
        \A p \in (1..Len(dst)) \X (1..ncols) :
            dst[p[1]][p[2]] = m_cmb_map[Overlay(p)].ID

(* A call of combine() comes to an end. *)
CombineEnds == phase = "check" ~> phase \in {"returned", "stopped"}
=============================================================================
