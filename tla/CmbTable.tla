------------------------------ MODULE CmbTable ------------------------------
(***************************************************************************)
(* Class CmbTable: a hash table that counts the distinct combinations of   *)
(* integers it is given and numbers them in the order of first sight.      *)
(*                                                                         *)
(* A combination is a member of Key; combinations of a wrong length, which *)
(* update() does not look for, are outside the model.  The buckets of the  *)
(* hash map are abstracted to a function on the keys present.              *)
(* updateFromMatrix() is one action per column: todo holds the columns its *)
(* loop has still to visit and out the IDs it has collected.               *)
(***************************************************************************)
EXTENDS Integers, Sequences

CONSTANTS
    Key,         \* combinations of m_key_len integers
    Increment,   \* the values of the argument incr
    MaxColumns,  \* bound: columns of the matrix of one call
    MaxCalls     \* bound: number of columns handed in altogether

ASSUME CmbAssumption ==
    /\ Increment \subseteq Nat
    /\ MaxColumns \in Nat
    /\ MaxCalls \in Nat

VARIABLES
    m_cmb_map,   \* the table: combination -> [ID, count]
    m_last_ID,   \* the last ID given to a combination
    todo,        \* columns the current call has still to visit
    incr,        \* the increment of the current call
    out,         \* IDs the current call returns
    log          \* history: every column visited, as [key, incr, ID]

vars == <<m_cmb_map, m_last_ID, todo, incr, out, log>>

Entry == [ID : Nat, count : Nat]

Init ==
    /\ m_cmb_map = [k \in {} |-> [ID |-> 0, count |-> 0]]
    /\ m_last_ID = 0
    /\ todo = <<>>
    /\ incr \in Increment
    /\ out = <<>>
    /\ log = <<>>

\* operator[] of the map: the entry of the key, default-constructed when new.
Lookup(key) ==
    IF key \in DOMAIN m_cmb_map THEN m_cmb_map[key] ELSE [ID |-> 0, count |-> 0]

\* Fault: an ID is handed out whenever the count was zero before the update.
NextIDByCount(key) ==
    IF Lookup(key).count = 0 THEN m_last_ID + 1 ELSE Lookup(key).ID

\* Fault: the default-constructed ID is read before it is assigned.
NextIDAbsent(key) == IF Lookup(key).ID = 0 THEN -1 ELSE Lookup(key).ID

\* The ID of the key after update(): a new one for an entry that has none.
NextID(key) == IF Lookup(key).ID = 0 THEN m_last_ID + 1 ELSE Lookup(key).ID

\* Fault: the count of a known combination is replaced instead of increased.
NextCountReplaced(key) == incr

NextCount(key) == Lookup(key).count + incr

\* Fault: m_last_ID follows the ID just returned.
LastIDFollows(key) == NextID(key)

LastID(key) == IF Lookup(key).ID = 0 THEN m_last_ID + 1 ELSE m_last_ID

Insert(key) ==
    m_cmb_map' = [k \in DOMAIN m_cmb_map \cup {key} |->
                     IF k = key THEN [ID |-> NextID(key), count |-> NextCount(key)]
                                ELSE m_cmb_map[k]]

update ==
    /\ todo # <<>>
    /\ LET key == Head(todo)
       IN  /\ Insert(key)
           /\ m_last_ID' = LastID(key)
           /\ out' = Append(out, NextID(key))
           /\ log' = Append(log, [key |-> key, incr |-> incr, ID |-> NextID(key)])
    /\ todo' = Tail(todo)
    /\ UNCHANGED incr

\* The call begins: a matrix of the right shape, by column or by row.
updateFromMatrix(columns) ==
    /\ todo = <<>>
    /\ Len(log) + Len(columns) <= MaxCalls
    /\ todo' = columns
    /\ incr' \in Increment
    /\ out' = <<>>
    /\ UNCHANGED <<m_cmb_map, m_last_ID, log>>

Matrices == UNION {[1..n -> Key] : n \in 1..MaxColumns}

Next == update \/ \E columns \in Matrices : updateFromMatrix(columns)

Spec == Init /\ [][Next]_vars
-----------------------------------------------------------------------------
(* What the rows of asDataFrame() must satisfy. *)

TypeOK ==
    /\ DOMAIN m_cmb_map \subseteq Key
    /\ m_cmb_map \in [DOMAIN m_cmb_map -> Entry]
    /\ m_last_ID \in Nat
    /\ todo \in Seq(Key)
    /\ incr \in Increment
    /\ out \in Seq(Nat)
    /\ log \in Seq([key : Key, incr : Increment, ID : Nat])

\* The IDs of the table are 1..m_last_ID, one per combination: asDataFrame()
\* has no gap and no duplicate in its column cmbid.
IDsAreDense ==
    /\ \A k \in DOMAIN m_cmb_map : m_cmb_map[k].ID \in 1..m_last_ID
    /\ \A k, l \in DOMAIN m_cmb_map : m_cmb_map[k].ID = m_cmb_map[l].ID => k = l
    /\ \A id \in 1..m_last_ID : \E k \in DOMAIN m_cmb_map : m_cmb_map[k].ID = id

\* Every ID ever returned is the one the table holds for that combination
\* now: what combine() wrote into its output raster stays valid.
ReturnedIDsStayValid ==
    \A i \in DOMAIN log :
        /\ log[i].key \in DOMAIN m_cmb_map
        /\ m_cmb_map[log[i].key].ID = log[i].ID

(***************************************************************************)
(* The table is the count of module CmbCount: combinations are numbered in *)
(* the order of first sight and every increment is added up, over all      *)
(* calls and all matrices.  The columns still to visit, and which call a   *)
(* visit belongs to, make no difference.                                   *)
(***************************************************************************)
Counter == INSTANCE CmbCount WITH
    ids    <- [k \in DOMAIN m_cmb_map |-> m_cmb_map[k].ID],
    counts <- [k \in DOMAIN m_cmb_map |-> m_cmb_map[k].count]

CountsByFirstSight == Counter!Spec
=============================================================================
