-------------------------------- MODULE Steps --------------------------------
(***************************************************************************)
(* The steps a native function of the package is made of.                  *)
(*                                                                         *)
(* A C++ function that wraps GDAL takes things that must be given back (a  *)
(* geometry, an SRS object, a dataset handle, a string of CPLMalloc(), a   *)
(* pushed error handler, a changed configuration option), calls functions  *)
(* that can fail, and leaves by one of several exits: a value, a value     *)
(* that says failure (NULL, NA, FALSE, -1, and "" where the manual says    *)
(* so), or an R error, which is a C++ exception: it runs the destructors   *)
(* of C++ objects and nothing else, so a raw handle still held at a        *)
(* Rcpp::stop() is lost.                                                   *)
(*                                                                         *)
(* The body of a function is a sequence of steps; this module names them,  *)
(* module NativeCall says what each does.  A branch is a sequence too: it  *)
(* runs before the steps that follow, unless it ends in Return.  Bodies    *)
(* are put together with \o, a C++ function called by another one being    *)
(* its steps in place.                                                     *)
(***************************************************************************)
EXTENDS Sequences

Step(op, x, to, yes, no) ==
    <<[op |-> op, x |-> x, to |-> to, yes |-> yes, no |-> no]>>

(***************************************************************************)
(* x is obtained as a raw handle the function must release: Take cannot    *)
(* fail; Get can, and then runs `failed'; GetOr goes on with `ok'          *)
(* or with `failed'.                                                       *)
(***************************************************************************)
Take(x)              == Step("take", x, "call", << >>, << >>)
GetOr(x, ok, failed) == Step("get", x, "call", ok, failed)
Get(x, failed)       == GetOr(x, << >>, failed)

\* x is obtained inside a C++ object (unique_ptr, CPLStringList) that
\* releases it on every exit
Hold(x, failed) == Step("get", x, "scope", << >>, failed)
HoldNew(x)      == Step("take", x, "scope", << >>, << >>)

\* x is obtained as a part of y: y keeps it, and it dies with y
Borrow(x, y, failed) == Step("get", x, y, << >>, failed)

\* x is released; FreeIf first compares it with nullptr
Free(x)   == Step("free", x, "call", << >>, << >>)
FreeIf(x) == Step("freeif", x, "call", << >>, << >>)

\* x is dereferenced or passed to a function that needs it
Use(x) == Step("use", x, "call", << >>, << >>)

\* x becomes a part of y, or is handed over: to "caller" with the result,
\* to "scope" when a C++ object takes it
Give(x, y) == Step("give", x, y, << >>, << >>)

\* the C++ object that holds x goes out of scope before the function ends
Dropped(x) == Give(x, "call") \o FreeIf(x)

\* a call that can fail and obtains nothing
TryOr(ok, failed) == Step("try", "none", "call", ok, failed)
Try(failed)       == TryOr(<< >>, failed)

\* the arguments or the data decide, and no failure is involved
Choose(this, that) == Step("choose", "none", "call", this, that)
When(this)         == Choose(this, << >>)

\* zero or more times; the body ends by falling through
Loop(body) == Step("loop", "none", "call", body, << >>)

\* a failure is made known: a warning, a message, an NA in the result
Tell == Step("tell", "none", "call", << >>, << >>)

\* a stored thing (a file, a layer, a field, the pixels) is changed
Change == Step("change", "none", "call", << >>, << >>)

(***************************************************************************)
(* A call of the library that changes stored data and can fail.  Asked to  *)
(* change one thing (a property, a feature, the definition of a field, a   *)
(* file it deletes), it changes it or fails.  Asked to work through many   *)
(* (pixels, features, layers, files, directories) or to copy contents, it  *)
(* can fail when it has done a part.  So can the one that makes a dataset  *)
(* x: an old one of that name may be gone, or have been added to, and a    *)
(* piece of the new one stay behind.                                       *)
(***************************************************************************)
Effect(ok, failed)  == TryOr(Change \o ok, failed)
Effects(ok, failed) == TryOr(Change \o ok, When(Change) \o failed)
Make(x, failed)     == GetOr(x, Change, When(Change) \o failed)

\* the ways to leave
Return(r) == Step("return", "none", r, << >>, << >>)
Value     == Return("value")
Void      == Return("void")
Stop      == Return("stop")
=============================================================================
