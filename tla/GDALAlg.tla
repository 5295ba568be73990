------------------------------ MODULE GDALAlg ------------------------------
(***************************************************************************)
(* Class GDALAlg: one algorithm of the gdal command line interface, from   *)
(* the constructor through the setting of its arguments, its run and its   *)
(* finalization to its release.                                            *)
(*                                                                         *)
(* Arguments come from four places: the text of the constructor's args,    *)
(* the dataset objects among them, setArg(), and the properties of an      *)
(* input object of class GDALVector, which parseCommandLineArgs() turns    *)
(* into the arguments AutoArgs.  Only these, "input" and "like" are        *)
(* modelled; a value is abstracted to where it came from.                  *)
(*                                                                         *)
(* A method that returns FALSE before it changes anything is no action.    *)
(***************************************************************************)
EXTENDS Naturals, Sequences

CONSTANTS
    ArgOrders,   \* the arguments that algorithms have, in the order in which
                 \* they list them; an algorithm need not have all of them
    MaxCloses    \* bound on the calls of close()

AutoArgs == {"input-format", "input-layer", "sql", "dialect", "like-layer", "like-sql"}

DatasetArgs == {"input", "like"}

\* What a dataset argument holds: a layer, or a SQL statement, with or without
\* a dialect, are objects of class GDALVector; anything else is a name, an object
\* of another class, or a list of several.
Vectors == {"layer", "sql", "sqlDialect"}
Inputs == Vectors \cup {"none", "other"}

ASSUME AlgAssumption ==
    /\ \A s \in ArgOrders :
          /\ s \in Seq(AutoArgs \cup DatasetArgs)
          /\ \A i, j \in DOMAIN s : s[i] = s[j] => i = j
    /\ MaxCloses \in Nat

VARIABLES
    \* fixed by the constructor
    argNames,          \* the arguments the algorithm has, in its order
    m_args,            \* the AutoArgs among them given in the text of args
    seen,              \* the arguments that parsing takes as given there: a piece
                       \* of the text is the name without dashes or an alias.  An
                       \* argument given as "--name" or "--name=value" is not seen,
                       \* one is whose name or alias is the value of another
    m_map_input_hDS,   \* "input" and "like" when args gave an object for them
    \* the object
    m_in_vector_props, \* the object they were taken from, or "none"
    m_like_vector_props,
    setVectorArgsFromObject,
    m_hAlg,
    m_hActualAlg,
    m_haveParsedCmdLineArgs,
    m_hasRun,
    m_hasFinalized,
    \* the algorithm in the GDAL library
    input, like,       \* what these arguments hold
    value,             \* where the value of an argument came from
    finalized          \* calls of GDALAlgorithmFinalize()

given   == <<argNames, m_args, seen, m_map_input_hDS>>
props   == <<m_in_vector_props, m_like_vector_props>>
flags   == <<m_haveParsedCmdLineArgs, m_hasRun, m_hasFinalized>>
handles == <<m_hAlg, m_hActualAlg>>
args    == <<input, like, value>>
vars    == <<given, props, setVectorArgsFromObject, handles, flags, args, finalized>>

Available == {a \in AutoArgs : \E i \in DOMAIN argNames : argNames[i] = a}
HasArg(n) == \E i \in DOMAIN argNames : argNames[i] = n
-----------------------------------------------------------------------------
(* Setting arguments from the properties of an object. *)

\* The arguments that apply to the objects whose properties were kept.
Applies(a) ==
    \/ a = "input-format" /\ m_in_vector_props # "none"
    \/ a = "input-layer" /\ m_in_vector_props = "layer"
    \/ a = "sql" /\ m_in_vector_props \in {"sql", "sqlDialect"}
    \/ a = "dialect" /\ m_in_vector_props = "sqlDialect"
    \/ a = "like-sql" /\ m_like_vector_props \in {"sql", "sqlDialect"}
    \/ a = "like-layer" /\ m_like_vector_props = "layer"

\* The loop calls setArg() at these positions, ...
Tries == {i \in DOMAIN argNames : argNames[i] \notin seen /\ Applies(argNames[i])}

\* Fault: a failure is looked at only when the loop has ended.
NoChecks == {}

\* ... and at these it breaks when res is FALSE: not after input-format, but at
\* dialect also when there is no dialect to set.
Checks ==
    {i \in Tries : argNames[i] # "input-format"} \cup
    {i \in DOMAIN argNames :
        argNames[i] = "dialect" /\ "dialect" \notin seen /\ m_in_vector_props = "sql"}

\* res after position i, when setArg() fails on the arguments in F: the outcome
\* of the last call.
ResAfter(F, i) ==
    \A j \in Tries :
        j <= i /\ (\A k \in Tries : k <= i => k <= j) => argNames[j] \notin F

Breaks(F, i) == i \in Checks /\ ~ResAfter(F, i)

Reached(F, i) == \A j \in DOMAIN argNames : j < i => ~Breaks(F, j)

\* The arguments the loop has set, and res after it.
SetFrom(F) == {argNames[i] : i \in {j \in Tries : Reached(F, j) /\ argNames[j] \notin F}}
ResOfLoop(F) == Reached(F, Len(argNames) + 1) /\ ResAfter(F, Len(argNames))

\* The loop is entered.
FromObject ==
    setVectorArgsFromObject /\ (m_in_vector_props # "none" \/ m_like_vector_props # "none")
-----------------------------------------------------------------------------
(* Parsing. *)

Mark(v, S, origin) == [a \in AutoArgs |-> IF a \in S THEN origin ELSE v[a]]

\* Fault: the objects' values go over the values given as text.
ObjectsLast(v, S, U) == Mark(Mark(v, U, "user"), S, "object")

\* First the values from the objects, then those given as text.
TextLast(v, S, U) == Mark(Mark(v, S, "object"), U, "user")

\* The objects given to the constructor become the values of their arguments;
\* D are those that could be set before one failed.
DatasetsSet(D) ==
    /\ input' = IF "input" \in D THEN m_map_input_hDS.input ELSE input
    /\ like' = IF "like" \in D THEN m_map_input_hDS.like ELSE like

Mapped == {n \in DatasetArgs : m_map_input_hDS[n] # "none"}

\* What can come out of one parse: setArg() fails on the arguments in fails;
\* the objects in datasets are set before one of them fails, in the order of
\* the map; the library takes the text, or refuses it after it has set the
\* arguments in partly; it has the actual algorithm or not.
Outcomes ==
    {o \in [fails : SUBSET Available, datasets : SUBSET Mapped,
            text : BOOLEAN, partly : SUBSET m_args, actual : BOOLEAN] :
        /\ "like" \in o.datasets /\ "input" \in Mapped => "input" \in o.datasets
        /\ IF o.text THEN o.partly = m_args ELSE ~o.actual}

Looped(o) == o.datasets = Mapped /\ FromObject
ReadyForText(o) == o.datasets = Mapped /\ (FromObject => ResOfLoop(o.fails))
Parsed(o) == ReadyForText(o) /\ o.text

FromText(o) ==
    IF ReadyForText(o) THEN o.partly ELSE {}

\* The steps of parseCommandLineArgs(): the datasets, the arguments from the
\* properties of objects, the text, and the handle of the actual algorithm.  A
\* failure leaves what was set before it.
Parse(o) ==
    /\ DatasetsSet(o.datasets)
    /\ value' = TextLast(value, IF Looped(o) THEN SetFrom(o.fails) ELSE {}, FromText(o))
    /\ m_haveParsedCmdLineArgs' = Parsed(o)
    /\ m_hActualAlg' = IF Parsed(o) /\ o.actual THEN "open" ELSE "null"

parseCommandLineArgs ==
    /\ m_hAlg = "open"
    /\ ~m_haveParsedCmdLineArgs
    /\ \E o \in Outcomes : Parse(o)
    /\ UNCHANGED <<given, props, setVectorArgsFromObject, m_hAlg, m_hasRun, m_hasFinalized,
                   finalized>>
-----------------------------------------------------------------------------
(* Setting arguments by hand. *)

\* setArg() of an argument that is no dataset.
setArg(a) ==
    /\ m_hAlg = "open" /\ ~m_hasRun
    /\ a \in Available
    /\ value' = Mark(value, {a}, "user")
    /\ UNCHANGED <<given, props, setVectorArgsFromObject, handles, flags, input, like, finalized>>

\* Fault: the properties are taken from an object of any class.
setInputAnyClass(x) ==
    /\ m_hAlg = "open" /\ ~m_hasRun
    /\ HasArg("input") /\ "input" \notin Mapped
    /\ input' = x
    /\ m_in_vector_props' = x
    /\ UNCHANGED <<given, m_like_vector_props, setVectorArgsFromObject, handles, flags,
                   like, value, finalized>>

\* setArg("input", x): a vector object also leaves its properties; when the
\* argument is a list it leaves them even if the library refuses the object.
setInput(x) ==
    /\ m_hAlg = "open" /\ ~m_hasRun
    /\ HasArg("input") /\ "input" \notin Mapped
    /\ input' \in IF x \in Vectors THEN {x, input} ELSE {x}
    /\ m_in_vector_props' = IF x \in Vectors THEN x ELSE m_in_vector_props
    /\ UNCHANGED <<given, m_like_vector_props, setVectorArgsFromObject, handles, flags,
                   like, value, finalized>>

\* The same with a list of several vector objects, whose properties do not count.
setInputs ==
    /\ m_hAlg = "open" /\ ~m_hasRun
    /\ HasArg("input") /\ "input" \notin Mapped
    /\ input' \in {"other", input}
    /\ m_in_vector_props' = "none"
    /\ UNCHANGED <<given, m_like_vector_props, setVectorArgsFromObject, handles, flags,
                   like, value, finalized>>

setLike(x) ==
    /\ m_hAlg = "open" /\ ~m_hasRun
    /\ HasArg("like") /\ "like" \notin Mapped
    /\ like' = x
    /\ m_like_vector_props' = IF x \in Vectors THEN x ELSE m_like_vector_props
    /\ UNCHANGED <<given, m_in_vector_props, setVectorArgsFromObject, handles, flags, input,
                   value, finalized>>

\* The user assigns the field, which only parsing reads.
SetField ==
    /\ m_hAlg = "open" /\ ~m_haveParsedCmdLineArgs
    /\ setVectorArgsFromObject' \in BOOLEAN
    /\ UNCHANGED <<given, props, handles, flags, args, finalized>>
-----------------------------------------------------------------------------
(* Running, finalizing, releasing. *)

\* run() parses first if nobody has, and gives up if that fails; then the
\* algorithm succeeds or fails, and after a failure it may be run again.
run ==
    /\ m_hAlg = "open" /\ ~m_hasRun
    /\ IF m_haveParsedCmdLineArgs
       THEN UNCHANGED <<args, m_haveParsedCmdLineArgs, m_hActualAlg>>
       ELSE \E o \in Outcomes : Parse(o)
    /\ m_hasRun' \in {FALSE, m_hActualAlg' = "open"}
    /\ UNCHANGED <<given, props, setVectorArgsFromObject, m_hAlg, m_hasFinalized, finalized>>

\* close() finalizes, and reports what that reports; m_hasFinalized is read
\* here, but nothing sets it.
close ==
    /\ m_hAlg = "open" /\ m_hasRun /\ ~m_hasFinalized
    /\ m_hActualAlg = "open"
    /\ finalized < MaxCloses
    /\ finalized' = finalized + 1
    /\ UNCHANGED <<given, props, setVectorArgsFromObject, handles, flags, args>>

\* Fault: release() leaves the finalization to close().
FinalizeByCloseOnly == finalized

FinalizeOnRelease ==
    IF m_hActualAlg = "open" /\ m_hasRun /\ ~m_hasFinalized THEN finalized + 1 ELSE finalized

\* release(), and the destructor.
release ==
    /\ m_hAlg = "open"
    /\ finalized' = FinalizeOnRelease
    /\ m_hAlg' = "null" /\ m_hActualAlg' = "null"
    /\ UNCHANGED <<given, props, setVectorArgsFromObject, flags, args>>
-----------------------------------------------------------------------------
\* The constructor has succeeded: the text and the objects in args, and the
\* properties of the vector objects among them, but not of one in a list given
\* for "like".
Init ==
    /\ argNames \in ArgOrders
    /\ m_args \in SUBSET Available
    /\ seen \in SUBSET Available
    /\ m_map_input_hDS \in [input : Inputs, like : Inputs]
    /\ \A n \in Mapped : HasArg(n)
    /\ m_in_vector_props = IF m_map_input_hDS.input \in Vectors THEN m_map_input_hDS.input ELSE "none"
    /\ m_like_vector_props \in
          IF m_map_input_hDS.like \in Vectors THEN {m_map_input_hDS.like, "none"} ELSE {"none"}
    /\ setVectorArgsFromObject = TRUE
    /\ m_hAlg = "open" /\ m_hActualAlg = "null"
    /\ m_haveParsedCmdLineArgs = FALSE /\ m_hasRun = FALSE /\ m_hasFinalized = FALSE
    /\ input = "none" /\ like = "none"
    /\ value = [a \in AutoArgs |-> "unset"]
    /\ finalized = 0

Next ==
    \/ parseCommandLineArgs
    \/ \E a \in AutoArgs : setArg(a)
    \/ \E x \in Inputs \ {"none"} : setInput(x) \/ setLike(x)
    \/ setInputs
    \/ SetField
    \/ run
    \/ close
    \/ release

Spec == Init /\ [][Next]_vars
-----------------------------------------------------------------------------
(* Properties. *)

Origins == {"unset", "user", "object"}

TypeOK ==
    /\ argNames \in ArgOrders
    /\ m_args \subseteq Available /\ seen \subseteq Available
    /\ m_map_input_hDS \in [input : Inputs, like : Inputs]
    /\ m_in_vector_props \in Vectors \cup {"none"}
    /\ m_like_vector_props \in Vectors \cup {"none"}
    /\ setVectorArgsFromObject \in BOOLEAN
    /\ m_hAlg \in {"null", "open"} /\ m_hActualAlg \in {"null", "open"}
    /\ m_haveParsedCmdLineArgs \in BOOLEAN /\ m_hasRun \in BOOLEAN /\ m_hasFinalized \in BOOLEAN
    /\ input \in Inputs /\ like \in Inputs
    /\ value \in [AutoArgs -> Origins]
    /\ finalized \in Nat

\* An algorithm that has run is finalized before its handles are gone, so that
\* its output is complete, whether or not close() was called and however often
\* parsing or running failed before.
FinalizedBeforeRelease == m_hasRun /\ m_hAlg = "null" => finalized > 0

\* What runs is what was asked for: the algorithm runs only when every argument
\* given as text has its value, whatever was set from an object in between and
\* whatever came of earlier attempts.
RunsWithText == m_hasRun => \A a \in m_args : value[a] = "user"

\* When parsing succeeds with a vector object, the layer or SQL statement of the
\* object has reached every argument for it that the algorithm has and that the
\* text does not give.  The one exception is an argument that is only taken as
\* given, because a value in the text is spelled like it: it keeps the value it
\* had, and the algorithm works on the dataset without the selection.
SelectionApplied ==
    [][m_haveParsedCmdLineArgs' /\ ~m_haveParsedCmdLineArgs /\ FromObject
        => \A a \in Available \ {"input-format"} : Applies(a) =>
              /\ a \in m_args => value'[a] = "user"
              /\ a \notin m_args => value'[a] = IF a \in seen THEN value[a] ELSE "object"]_vars

\* Arguments are set from an object only when the "input" argument is one.
ObjectIsInput ==
    [][\A a \in {"input-format", "input-layer", "sql", "dialect"} :
          value'[a] = "object" /\ value[a] # "object" => input' \in Vectors]_vars
=============================================================================
