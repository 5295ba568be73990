-------------------------- MODULE GDALAlgProofs --------------------------
(***************************************************************************)
(* The safety properties of GDALAlg, for any algorithms, with their        *)
(* arguments in any order, and any number of calls of close().             *)
(***************************************************************************)
EXTENDS GDALAlg, TLAPS

USE DEF AutoArgs, DatasetArgs, Vectors, Inputs, Origins

\* One parse keeps the types and, if it succeeds, gives every argument of the
\* text its value.
LEMMA MarkType ==
    ASSUME NEW v \in [AutoArgs -> Origins], NEW S, NEW origin \in Origins
    PROVE  /\ Mark(v, S, origin) \in [AutoArgs -> Origins]
           /\ \A a \in AutoArgs : Mark(v, S, origin)[a] = IF a \in S THEN origin ELSE v[a]
BY DEF Mark

LEMMA TextLastType ==
    ASSUME NEW v \in [AutoArgs -> Origins], NEW S, NEW U
    PROVE  /\ TextLast(v, S, U) \in [AutoArgs -> Origins]
           /\ \A a \in AutoArgs :
                 TextLast(v, S, U)[a] =
                    IF a \in U THEN "user" ELSE IF a \in S THEN "object" ELSE v[a]
<1>1. "object" \in Origins /\ "user" \in Origins
  OBVIOUS
<1>2. Mark(v, S, "object") \in [AutoArgs -> Origins]
  BY <1>1, MarkType
<1>. QED BY <1>1, <1>2, MarkType DEF TextLast

\* What the proofs use of one parse.
LEMMA ParseEffect ==
    ASSUME TypeOK, NEW o \in Outcomes, Parse(o), UNCHANGED given
    PROVE  /\ input' \in Inputs /\ like' \in Inputs
           /\ value' \in [AutoArgs -> Origins]
           /\ m_haveParsedCmdLineArgs' \in BOOLEAN
           /\ m_hActualAlg' \in {"null", "open"}
           /\ m_hActualAlg' = "open" => m_haveParsedCmdLineArgs'
           /\ m_haveParsedCmdLineArgs' => \A a \in m_args : value'[a] = "user"
<1>1. m_args \subseteq AutoArgs /\ value \in [AutoArgs -> Origins]
  BY DEF TypeOK, Available
<1>2. value' \in [AutoArgs -> Origins]
  BY <1>1, TextLastType DEF Parse
<1>3. m_haveParsedCmdLineArgs' <=> ReadyForText(o) /\ o.text
  BY DEF Parse, Parsed
<1>4. ASSUME m_haveParsedCmdLineArgs'
      PROVE  \A a \in m_args : value'[a] = "user"
  <2>1. FromText(o) = m_args
    BY <1>3, <1>4 DEF FromText, Outcomes
  <2>. QED BY <1>1, <2>1, TextLastType DEF Parse
<1>5. m_haveParsedCmdLineArgs' \in BOOLEAN
  BY DEF Parse, Parsed, ReadyForText, ResOfLoop, Reached, ResAfter, Outcomes
<1>6. m_hActualAlg' \in {"null", "open"} /\ (m_hActualAlg' = "open" => m_haveParsedCmdLineArgs')
  BY DEF Parse
<1>7. input' \in Inputs /\ like' \in Inputs
  BY DEF Parse, DatasetsSet, TypeOK
<1>. QED BY <1>2, <1>4, <1>5, <1>6, <1>7
-----------------------------------------------------------------------------
\* Between the calls: what ran was parsed, with the text in place; the handle of
\* the actual algorithm is there until the release; nothing sets m_hasFinalized.
IInv ==
    /\ TypeOK
    /\ m_haveParsedCmdLineArgs => \A a \in m_args : value[a] = "user"
    /\ m_hasRun => m_haveParsedCmdLineArgs
    /\ m_hasRun /\ m_hAlg = "open" => m_hActualAlg = "open"
    /\ ~m_hasFinalized
    /\ FinalizedBeforeRelease

LEMMA InitIInv == Init => IInv
<1>. SUFFICES ASSUME Init PROVE IInv
  OBVIOUS
<1>1. value \in [AutoArgs -> Origins]
  BY DEF Init
<1>2. m_map_input_hDS \in [input : Inputs, like : Inputs]
  BY DEF Init
<1>3. m_in_vector_props \in Vectors \cup {"none"} /\ m_like_vector_props \in Vectors \cup {"none"}
  BY DEF Init
<1>4. /\ argNames \in ArgOrders /\ m_args \subseteq Available /\ seen \subseteq Available
      /\ setVectorArgsFromObject \in BOOLEAN
      /\ m_hAlg \in {"null", "open"} /\ m_hActualAlg \in {"null", "open"}
      /\ m_haveParsedCmdLineArgs \in BOOLEAN /\ m_hasRun \in BOOLEAN /\ m_hasFinalized \in BOOLEAN
      /\ input \in Inputs /\ like \in Inputs
      /\ finalized \in Nat
  BY DEF Init
<1>5. TypeOK
  BY <1>1, <1>2, <1>3, <1>4 DEF TypeOK
<1>6. ~m_haveParsedCmdLineArgs /\ ~m_hasRun /\ ~m_hasFinalized
  BY DEF Init
<1>. QED BY <1>5, <1>6 DEF IInv, FinalizedBeforeRelease

LEMMA ParseIInv == IInv /\ parseCommandLineArgs => IInv'
<1>. SUFFICES ASSUME IInv, parseCommandLineArgs PROVE IInv'
  OBVIOUS
<1>1. PICK o \in Outcomes : Parse(o)
  BY DEF parseCommandLineArgs
<1>2. /\ UNCHANGED <<given, props, setVectorArgsFromObject, m_hAlg, m_hasRun, m_hasFinalized,
                     finalized>>
      /\ m_hAlg = "open" /\ ~m_haveParsedCmdLineArgs
  BY DEF parseCommandLineArgs
<1>3. TypeOK
  BY DEF IInv
<1>. HIDE DEF AutoArgs, Inputs, Vectors, Origins
<1>4. /\ input' \in Inputs /\ like' \in Inputs
      /\ value' \in [AutoArgs -> Origins]
      /\ m_haveParsedCmdLineArgs' \in BOOLEAN
      /\ m_hActualAlg' \in {"null", "open"}
      /\ m_haveParsedCmdLineArgs' => \A a \in m_args : value'[a] = "user"
  BY <1>1, <1>2, <1>3, ParseEffect
<1>5. TypeOK'
  BY <1>2, <1>3, <1>4 DEF TypeOK, given, props, Available
<1>6. m_hasRun' = m_hasRun /\ m_args' = m_args /\ m_hasFinalized' = m_hasFinalized
  BY <1>2 DEF given
<1>7. ~m_hasRun
  BY <1>2 DEF IInv
<1>8. FinalizedBeforeRelease'
  BY <1>6, <1>7 DEF FinalizedBeforeRelease
<1>. QED BY <1>4, <1>5, <1>6, <1>7, <1>8 DEF IInv

LEMMA RunIInv == IInv /\ run => IInv'
<1>. SUFFICES ASSUME IInv, run PROVE IInv'
  OBVIOUS
<1>1. /\ m_hAlg = "open" /\ ~m_hasRun
      /\ m_hasRun' \in {FALSE, m_hActualAlg' = "open"}
      /\ UNCHANGED <<given, props, setVectorArgsFromObject, m_hAlg, m_hasFinalized, finalized>>
  BY DEF run
<1>2. TypeOK
  BY DEF IInv
<1>3. /\ input' \in Inputs /\ like' \in Inputs
      /\ value' \in [AutoArgs -> Origins]
      /\ m_haveParsedCmdLineArgs' \in BOOLEAN
      /\ m_hActualAlg' \in {"null", "open"}
      /\ m_haveParsedCmdLineArgs' => \A a \in m_args : value'[a] = "user"
  <2>1. CASE m_haveParsedCmdLineArgs
    <3>1. UNCHANGED <<args, m_haveParsedCmdLineArgs, m_hActualAlg>>
      BY <2>1 DEF run
    <3>. QED BY <2>1, <3>1, <1>2 DEF IInv, TypeOK, args
  <2>2. CASE ~m_haveParsedCmdLineArgs
    <3>1. PICK o \in Outcomes : Parse(o)
      BY <2>2 DEF run
    <3>. HIDE DEF AutoArgs, Inputs, Vectors, Origins
    <3>. QED BY <1>1, <1>2, <3>1, ParseEffect
  <2>. QED BY <2>1, <2>2
<1>4. m_hasRun' => m_haveParsedCmdLineArgs' /\ m_hActualAlg' = "open"
  <2>1. CASE m_haveParsedCmdLineArgs
    BY <2>1, <1>1 DEF run
  <2>2. CASE ~m_haveParsedCmdLineArgs
    <3>1. PICK o \in Outcomes : Parse(o)
      BY <2>2 DEF run
    <3>2. m_hActualAlg' = "open" => m_haveParsedCmdLineArgs'
      BY <1>1, <1>2, <3>1, ParseEffect
    <3>. QED BY <1>1, <3>2
  <2>. QED BY <2>1, <2>2
<1>. HIDE DEF AutoArgs, Inputs, Vectors, Origins
<1>5. m_hasRun' \in BOOLEAN
  BY <1>1
<1>6. TypeOK'
  BY <1>1, <1>2, <1>3, <1>5 DEF TypeOK, given, props, Available
<1>7. m_args' = m_args /\ m_hAlg' = "open" /\ m_hasFinalized' = m_hasFinalized
  BY <1>1 DEF given
<1>8. FinalizedBeforeRelease'
  BY <1>7 DEF FinalizedBeforeRelease
<1>. QED BY <1>3, <1>4, <1>6, <1>7, <1>8 DEF IInv

LEMMA SetIInv ==
    IInv /\ ((\E a \in AutoArgs : setArg(a)) \/ (\E x \in Inputs \ {"none"} : setInput(x) \/ setLike(x))
             \/ setInputs \/ SetField)
    => IInv'
<1>. SUFFICES ASSUME IInv PROVE
        (\E a \in AutoArgs : setArg(a)) \/ (\E x \in Inputs \ {"none"} : setInput(x) \/ setLike(x))
        \/ setInputs \/ SetField => IInv'
  OBVIOUS
<1>0. TypeOK
  BY DEF IInv
<1>1. ASSUME NEW a \in AutoArgs, setArg(a) PROVE IInv'
  <2>1. UNCHANGED <<given, props, setVectorArgsFromObject, handles, flags, input, like, finalized>>
        /\ value' = Mark(value, {a}, "user")
    BY <1>1 DEF setArg
  <2>2. value \in [AutoArgs -> Origins] /\ "user" \in Origins
    BY <1>0 DEF TypeOK
  <2>3. value' \in [AutoArgs -> Origins] /\ \A b \in AutoArgs : value[b] = "user" => value'[b] = "user"
    BY <2>1, <2>2, MarkType
  <2>. HIDE DEF AutoArgs, Inputs, Vectors, Origins
  <2>4. TypeOK'
    BY <2>1, <2>3, <1>0 DEF TypeOK, given, props, handles, flags, Available
  <2>5. m_args \subseteq AutoArgs
    BY <1>0 DEF TypeOK, Available
  <2>. QED BY <2>1, <2>3, <2>4, <2>5 DEF IInv, given, handles, flags, FinalizedBeforeRelease
<1>2. ASSUME NEW x \in Inputs \ {"none"}, setInput(x) \/ setLike(x) PROVE IInv'
  <2>1. /\ UNCHANGED <<given, setVectorArgsFromObject, handles, flags, value, finalized>>
        /\ input' \in Inputs /\ like' \in Inputs
        /\ m_in_vector_props' \in Vectors \cup {"none"} /\ m_like_vector_props' \in Vectors \cup {"none"}
    BY <1>0, <1>2 DEF setInput, setLike, TypeOK
  <2>. HIDE DEF AutoArgs, Inputs, Vectors, Origins
  <2>2. TypeOK'
    BY <2>1, <1>0 DEF TypeOK, given, handles, flags, Available
  <2>. QED BY <2>1, <2>2 DEF IInv, given, handles, flags, FinalizedBeforeRelease
<1>3. ASSUME setInputs \/ SetField PROVE IInv'
  <2>1. /\ UNCHANGED <<given, m_like_vector_props, handles, flags, like, value, finalized>>
        /\ input' \in Inputs
        /\ m_in_vector_props' \in Vectors \cup {"none"}
    BY <1>0, <1>3 DEF setInputs, SetField, TypeOK, props, args
  <2>2. setVectorArgsFromObject' \in BOOLEAN
    BY <1>0, <1>3 DEF setInputs, SetField, TypeOK
  <2>. HIDE DEF AutoArgs, Inputs, Vectors, Origins
  <2>3. TypeOK'
    BY <2>1, <2>2, <1>0 DEF TypeOK, given, handles, flags, Available
  <2>. QED BY <2>1, <2>3 DEF IInv, given, handles, flags, FinalizedBeforeRelease
<1>. QED BY <1>1, <1>2, <1>3

LEMMA EndIInv == IInv /\ (close \/ release \/ UNCHANGED vars) => IInv'
<1>. SUFFICES ASSUME IInv PROVE close \/ release \/ UNCHANGED vars => IInv'
  OBVIOUS
<1>0. TypeOK
  BY DEF IInv
<1>. HIDE DEF AutoArgs, Inputs, Vectors, Origins
<1>1. CASE close
  <2>1. /\ UNCHANGED <<given, props, setVectorArgsFromObject, handles, flags, args>>
        /\ finalized' = finalized + 1 /\ m_hAlg = "open"
    BY <1>1 DEF close
  <2>2. TypeOK'
    BY <2>1, <1>0 DEF TypeOK, given, props, handles, flags, args, Available
  <2>. QED BY <2>1, <2>2 DEF IInv, given, handles, flags, args, FinalizedBeforeRelease
<1>2. CASE release
  <2>1. /\ UNCHANGED <<given, props, setVectorArgsFromObject, flags, args>>
        /\ finalized' = FinalizeOnRelease /\ m_hAlg = "open"
        /\ m_hAlg' = "null" /\ m_hActualAlg' = "null"
    BY <1>2 DEF release
  <2>2. finalized \in Nat
    BY <1>0 DEF TypeOK
  <2>3. finalized' \in Nat /\ (m_hasRun => finalized' > 0)
    BY <2>1, <2>2 DEF FinalizeOnRelease, IInv
  <2>4. TypeOK'
    BY <2>1, <2>3, <1>0 DEF TypeOK, given, props, flags, args, Available
  <2>. QED BY <2>1, <2>3, <2>4 DEF IInv, given, flags, args, FinalizedBeforeRelease
<1>3. CASE UNCHANGED vars
  <2>1. TypeOK'
    BY <1>3, <1>0 DEF vars, TypeOK, given, props, handles, flags, args, Available
  <2>. QED BY <1>3, <2>1 DEF vars, IInv, given, handles, flags, args, FinalizedBeforeRelease
<1>. QED BY <1>1, <1>2, <1>3

LEMMA NextIInv == IInv /\ [Next]_vars => IInv'
BY ParseIInv, RunIInv, SetIInv, EndIInv DEF Next

LEMMA Invariance == Spec => []IInv
<1>1. Init => IInv
  BY InitIInv
<1>2. IInv /\ [Next]_vars => IInv'
  BY NextIInv
<1>. QED BY <1>1, <1>2, PTL DEF Spec

\* The fields of the object and the arguments in the library keep their types.
THEOREM TypeCorrect == Spec => []TypeOK
<1>1. IInv => TypeOK
  BY DEF IInv
<1>. QED BY <1>1, Invariance, PTL

\* Whatever was tried before and in whatever order the methods are called, an
\* algorithm that has run is finalized before its handles are released.
THEOREM FinalizedFirst == Spec => []FinalizedBeforeRelease
<1>1. IInv => FinalizedBeforeRelease
  BY DEF IInv
<1>. QED BY <1>1, Invariance, PTL

\* An algorithm that has run did so with every argument given as text.
THEOREM TextHonoured == Spec => []RunsWithText
<1>1. IInv => RunsWithText
  BY DEF IInv, RunsWithText
<1>. QED BY <1>1, Invariance, PTL
-----------------------------------------------------------------------------
\* When the loop over the arguments ends with res TRUE, it has set everything
\* that applies and that the text does not give.
LEMMA LoopSetsAll ==
    ASSUME TypeOK, NEW F, ResOfLoop(F),
           NEW a \in Available \ {"input-format"}, a \notin seen, Applies(a)
    PROVE  a \in SetFrom(F)
<1>1. PICK i \in DOMAIN argNames : argNames[i] = a
  BY DEF Available
<1>2. i \in Tries /\ i \in Checks
  BY <1>1 DEF Tries, Checks
<1>3. argNames \in Seq(AutoArgs \cup DatasetArgs)
  BY AlgAssumption DEF TypeOK
<1>. HIDE DEF AutoArgs, DatasetArgs
<1>4. DOMAIN argNames = 1..Len(argNames) /\ Len(argNames) \in Nat
  BY <1>3
<1>5. \A j \in DOMAIN argNames : ~Breaks(F, j)
  BY <1>4 DEF ResOfLoop, Reached
<1>6. ResAfter(F, i)
  BY <1>2, <1>5 DEF Breaks
<1>7. argNames[i] \notin F
  BY <1>2, <1>4, <1>6 DEF ResAfter
<1>. QED BY <1>1, <1>2, <1>5, <1>7 DEF SetFrom, Reached

\* When parsing succeeds with a vector object, its layer or its SQL statement
\* has reached every argument for it that the text neither gives nor, by a value
\* spelled like it, seems to give; the latter keep what they had.
THEOREM SelectionReached == Spec => SelectionApplied
<1>1. ASSUME IInv, [Next]_vars
      PROVE  [m_haveParsedCmdLineArgs' /\ ~m_haveParsedCmdLineArgs /\ FromObject
                => \A a \in Available \ {"input-format"} :
                      Applies(a) =>
                        /\ a \in m_args => value'[a] = "user"
                        /\ a \notin m_args =>
                              value'[a] = IF a \in seen THEN value[a] ELSE "object"]_vars
  <2>. SUFFICES ASSUME Next, m_haveParsedCmdLineArgs', ~m_haveParsedCmdLineArgs, FromObject,
                       NEW a \in Available \ {"input-format"}, Applies(a)
                PROVE  /\ a \in m_args => value'[a] = "user"
                       /\ a \notin m_args =>
                             value'[a] = IF a \in seen THEN value[a] ELSE "object"
    BY <1>1
  <2>1. parseCommandLineArgs \/ run
    BY DEF Next, setArg, setInput, setInputs, setLike, SetField, close, release, flags
  <2>2. PICK o \in Outcomes : Parse(o)
    BY <2>1 DEF parseCommandLineArgs, run
  <2>3. ReadyForText(o) /\ o.text
    BY <2>2 DEF Parse, Parsed
  <2>4. Looped(o) /\ ResOfLoop(o.fails)
    BY <2>3 DEF ReadyForText, Looped
  <2>5. FromText(o) = m_args
    BY <2>3 DEF FromText, Outcomes
  <2>6. a \in SetFrom(o.fails) <=> a \notin seen
    <3>1. a \notin seen => a \in SetFrom(o.fails)
      BY <1>1, <2>4, LoopSetsAll DEF IInv
    <3>2. a \in SetFrom(o.fails) => a \notin seen
      BY DEF SetFrom, Tries
    <3>. QED BY <3>1, <3>2
  <2>7. value \in [AutoArgs -> Origins] /\ a \in AutoArgs
    BY <1>1 DEF IInv, TypeOK, Available
  <2>8. value' = TextLast(value, SetFrom(o.fails), m_args)
    BY <2>2, <2>4, <2>5 DEF Parse
  <2>. HIDE DEF AutoArgs, Origins
  <2>. QED BY <2>6, <2>7, <2>8, TextLastType
<1>. QED BY <1>1, Invariance, PTL DEF Spec, SelectionApplied
=============================================================================
