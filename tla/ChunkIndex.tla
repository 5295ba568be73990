----------------------------- MODULE ChunkIndex -----------------------------
(***************************************************************************)
(* make_chunk_index_(): the raster is cut into chunks of whole blocks, one *)
(* row of the result per chunk, left to right and top to bottom.           *)
(*                                                                         *)
(* The chunk size is computed in double precision and cast to int; both    *)
(* have a width here.  A double is a rational [num, den] whose numerator   *)
(* has at most Precision bits, each operation rounds to the nearest one,   *)
(* and a cast or a product that does not fit an int is undefined: it may   *)
(* give any int.  The bounding boxes of the chunks are left out.           *)
(***************************************************************************)
EXTENDS Integers

CONSTANTS
    RasterSizes,   \* raster_xsize and raster_ysize
    BlockSizes,    \* block_xsize and block_ysize
    MaxPixels,     \* max_pixels, 0 for "chunks are blocks"
    MaxInt,        \* the largest int
    Precision,     \* bits of the mantissa of a double
    Exponents      \* exponents of the doubles that come up

Ints == (0 - MaxInt - 1)..MaxInt

ASSUME ChunkAssumption ==
    /\ MaxInt \in Nat
    /\ RasterSizes \subseteq 1..MaxInt
    /\ BlockSizes \subseteq 1..MaxInt
    /\ MaxPixels \subseteq Nat
    /\ Precision \in Nat \ {0}
    /\ Exponents \subseteq Int
-----------------------------------------------------------------------------
(* Doubles. *)

Pow2[n \in Nat] == IF n = 0 THEN 1 ELSE 2 * Pow2[n - 1]

\* Every int is a double, and max_pixels has at most Precision - 3 bits: true
\* of doubles of 53 bits while max_pixels is at most 2^50.
ASSUME PrecisionAssumption ==
    /\ MaxInt < Pow2[Precision]
    /\ \A m \in MaxPixels : 8 * m <= Pow2[Precision]

Positive(e) == IF e > 0 THEN e ELSE 0

\* n/d in units of 2^e is Num(n, e)/Den(d, e).
Num(n, e) == n * Pow2[Positive(-e)]
Den(d, e) == d * Pow2[Positive(e)]

\* In these units n/d has Precision bits before the point.
Normal(n, d, e) ==
    /\ Pow2[Precision - 1] * Den(d, e) <= Num(n, e)
    /\ Num(n, e) < Pow2[Precision] * Den(d, e)

\* n/d rounded to the nearest whole number, ties to the even one.
Nearest(n, d) ==
    LET low   == n \div d
        twice == 2 * (n % d)
        up    == twice > d \/ (twice = d /\ low % 2 = 1)
    IN  IF up THEN low + 1 ELSE low

\* n/d rounded to the nearest double.
Double(n, d) ==
    LET e == CHOOSE e \in Exponents : Normal(n, d, e)
    IN  [num |-> Nearest(Num(n, e), Den(d, e)) * Pow2[Positive(e)],
         den |-> Pow2[Positive(-e)]]

Quotient(p, q) == Double(p.num * q.den, p.den * q.num)
Less(p, q)     == p.num * q.den < q.num * p.den
Trunc(p)       == p.num \div p.den
Ceil(p)        == (p.num + p.den - 1) \div p.den

BlocksPerChunk(m, bx, by) == Quotient(Double(m, 1), Double(bx * by, 1))
BlocksPerRow(xsize, bx)   == Quotient(Double(xsize, 1), Double(bx, 1))

\* Fault: the incomplete chunk at the end is forgotten.
FullChunks(size, chunk) == size \div chunk

NumChunks(size, chunk) == Ceil(Quotient(Double(size, 1), Double(chunk, 1)))
-----------------------------------------------------------------------------
\* No quotient overflows or underflows: the doubles that come up have one of
\* the exponents.
Representable(n, d) == \E e \in Exponents : Normal(n, d, e)
HasQuotient(p, q)   == Representable(p.num * q.den, p.den * q.num)

ASSUME ExponentAssumption ==
    /\ \A m \in MaxPixels \ {0} : Representable(m, 1)
    /\ \A xsize \in RasterSizes : \A n \in 1..xsize :
          Representable(n, 1) /\ HasQuotient(Double(xsize, 1), Double(n, 1))
    /\ \A bx, by \in BlockSizes : Representable(bx, 1) /\ Representable(bx * by, 1)
    /\ \A m \in MaxPixels \ {0}, bx, by \in BlockSizes :
          HasQuotient(Double(m, 1), Double(bx * by, 1))
    /\ \A xsize \in RasterSizes, bx \in BlockSizes :
          HasQuotient(Double(xsize, 1), Double(bx, 1))
    /\ \A m \in MaxPixels \ {0}, xsize \in RasterSizes, bx, by \in BlockSizes :
          HasQuotient(BlocksPerChunk(m, bx, by), BlocksPerRow(xsize, bx))

VARIABLES
    raster_xsize, raster_ysize, block_xsize, block_ysize, max_pixels,
    chunk_xsize, chunk_ysize,  \* 0 until they are computed
    x, y,                      \* the loop: chunk column and row
    chunks                     \* the rows of the matrix

args  == <<raster_xsize, raster_ysize, block_xsize, block_ysize, max_pixels>>
sizes == <<chunk_xsize, chunk_ysize>>
vars  == <<args, sizes, x, y, chunks>>

blocks_per_chunk == BlocksPerChunk(max_pixels, block_xsize, block_ysize)
blocks_per_row   == BlocksPerRow(raster_xsize, block_xsize)

Smaller(a, b) == IF a < b THEN a ELSE b
Larger(a, b)  == IF a < b THEN b ELSE a

\* Fault: the chunk is not cut to the raster.
ClampedBelow(n, raster_size) == Larger(n, 1)

\* A chunk has at least one pixel and ends with the raster.
Clamped(n, raster_size) == Smaller(Larger(n, 1), raster_size)

\* The cast of rows and its product with block_ysize fit an int.
Fits(rows) == rows <= MaxInt /\ block_ysize * rows <= MaxInt

\* Whole rows of blocks, as an int.
RowsOfBlocks(rows) == IF Fits(rows) THEN {block_ysize * rows} ELSE Ints

\* Fault: the pixels of a row are counted, the blocks are not.
ColumnsByPixels == max_pixels \div block_ysize

\* Some blocks of one row of blocks.
ColumnsOfBlocks == block_xsize * Larger(Trunc(blocks_per_chunk), 1)

\* Some whole rows of blocks.
WholeRows == Trunc(Quotient(blocks_per_chunk, blocks_per_row))

ChunkSize ==
    /\ chunk_xsize = 0
    /\ IF max_pixels = 0 THEN
          /\ chunk_xsize' = Clamped(block_xsize, raster_xsize)
          /\ chunk_ysize' = Clamped(block_ysize, raster_ysize)
       ELSE IF Less(blocks_per_chunk, blocks_per_row) THEN
          /\ chunk_xsize' = Clamped(ColumnsOfBlocks, raster_xsize)
          /\ chunk_ysize' = Clamped(block_ysize, raster_ysize)
       ELSE
          /\ chunk_xsize' = Clamped(raster_xsize, raster_xsize)
          /\ \E n \in RowsOfBlocks(WholeRows) : chunk_ysize' = Clamped(n, raster_ysize)
    /\ UNCHANGED <<args, x, y, chunks>>

num_chunks_x == NumChunks(raster_xsize, chunk_xsize)
num_chunks_y == NumChunks(raster_ysize, chunk_ysize)

\* Fault: the last chunk keeps its full size.
ChunkUncut(i, j) ==
    [xoff |-> i * chunk_xsize, yoff |-> j * chunk_ysize,
     xsize |-> chunk_xsize, ysize |-> chunk_ysize]

Chunk(i, j) ==
    LET xoff == i * chunk_xsize
        yoff == j * chunk_ysize
    IN  [xoff |-> xoff, yoff |-> yoff,
         xsize |-> Smaller(chunk_xsize, raster_xsize - xoff),
         ysize |-> Smaller(chunk_ysize, raster_ysize - yoff)]

\* One row of the matrix, and on to the next.
NextChunk ==
    /\ chunk_xsize # 0
    /\ y < num_chunks_y
    /\ chunks' = chunks \cup {Chunk(x, y)}
    /\ IF x + 1 < num_chunks_x THEN x' = x + 1 /\ y' = y
                               ELSE x' = 0 /\ y' = y + 1
    /\ UNCHANGED <<args, sizes>>

Init ==
    /\ raster_xsize \in RasterSizes /\ raster_ysize \in RasterSizes
    /\ block_xsize \in BlockSizes /\ block_ysize \in BlockSizes
    /\ max_pixels \in MaxPixels
    /\ chunk_xsize = 0 /\ chunk_ysize = 0
    /\ x = 0 /\ y = 0
    /\ chunks = {}

Next == ChunkSize \/ NextChunk

Spec == Init /\ [][Next]_vars
-----------------------------------------------------------------------------
(* Properties. *)

TypeOK ==
    /\ raster_xsize \in RasterSizes /\ raster_ysize \in RasterSizes
    /\ block_xsize \in BlockSizes /\ block_ysize \in BlockSizes
    /\ max_pixels \in MaxPixels
    /\ chunk_xsize \in 0..raster_xsize /\ chunk_ysize \in 0..raster_ysize
    /\ x \in 0..raster_xsize /\ y \in 0..raster_ysize
    /\ chunks \subseteq [xoff : 0..raster_xsize, yoff : 0..raster_ysize,
                         xsize : 1..raster_xsize, ysize : 1..raster_ysize]

Holds(c, px, py) ==
    /\ c.xoff <= px /\ px < c.xoff + c.xsize
    /\ c.yoff <= py /\ py < c.yoff + c.ysize

Within(c) == c.xoff + c.xsize <= raster_xsize /\ c.yoff + c.ysize <= raster_ysize

\* No pixel is in two chunks and no chunk reaches out of the raster, so a
\* client that reads and writes chunk by chunk handles no pixel twice.
ChunksDisjoint ==
    /\ \A c \in chunks : Within(c)
    /\ \A c, d \in chunks : \A px \in 0..(raster_xsize - 1), py \in 0..(raster_ysize - 1) :
          Holds(c, px, py) /\ Holds(d, px, py) => c = d

Done == chunk_xsize # 0 /\ y = num_chunks_y

\* When the loop ends every pixel of the raster is in a chunk, incomplete
\* blocks and chunks at the right and bottom edges included.
ChunksCover ==
    Done => \A px \in 0..(raster_xsize - 1), py \in 0..(raster_ysize - 1) :
                \E c \in chunks : Holds(c, px, py)

\* "The chunks will contain at most max_pixels", or one block if a block has
\* more, whatever the rounding of the quotients and an overflow do.
ChunksFit ==
    \A c \in chunks : c.xsize * c.ysize <= Larger(max_pixels, block_xsize * block_ysize)

RowsFit == max_pixels # 0 => Fits(WholeRows)

\* Every chunk begins on a block boundary.  The rows of an overflow do not.
BlockAligned ==
    \A c \in chunks : /\ c.xoff % block_xsize = 0
                      /\ RowsFit => c.yoff % block_ysize = 0

\* "potentially multi-block chunks defined on block boundaries" that hold at
\* most max_pixels.
ChunksOnBlocks == ChunksFit /\ BlockAligned
=============================================================================
