------------------------------ MODULE NativeCall ------------------------------
(***************************************************************************)
(* One call of a native function of the package, run step by step.         *)
(*                                                                         *)
(* Body gives every function under study its steps (module Steps).  The    *)
(* state is what GDAL and the C++ runtime know while the call runs: who    *)
(* is to release each thing that exists, whether a failure has not been    *)
(* made known yet, whether stored data were changed, and what went wrong.  *)
(*                                                                         *)
(* R calls the package from one thread, so calls do not interleave: a call *)
(* begins, runs to an exit, and control goes back to R.                    *)
(***************************************************************************)
EXTENDS Steps

CONSTANTS
    Body,          \* function from names of native functions to their steps
    Things,        \* names of what a function can hold
    KnownLeaks,    \* pairs of a function and a thing it is known to leave
    KnownMisuse,   \* pairs of a function and a thing it is known to misuse
    KnownSilent,   \* functions known to return a value after a failure
    KnownPartial   \* functions known to fail after they changed stored data

Holders == {"none", "call", "scope", "caller"} \cup Things
Results == {"idle", "running", "value", "void", "stop"}

ASSUME NamesAssumption == Things \cap {"none", "call", "scope", "caller"} = {}

VARIABLES
    fn,       \* the function that runs, or ran last
    todo,     \* the steps it has still to do
    holder,   \* holder[x]: who releases x; "none" when x does not exist
    misused,  \* things released twice, used after release or used when null
    lost,     \* things overwritten while the function had to release them
    unseen,   \* a failure happened that nothing has made known yet
    changed,  \* stored data were changed
    result    \* "running", or how the call ended

vars == <<fn, todo, holder, misused, lost, unseen, changed, result>>

Init ==
    /\ fn \in DOMAIN Body
    /\ todo = << >>
    /\ holder = [x \in Things |-> "none"]
    /\ misused = {}
    /\ lost = {}
    /\ unseen = FALSE
    /\ changed = FALSE
    /\ result = "idle"

step == Head(todo)
Doing(op) == result = "running" /\ todo # << >> /\ step.op = op
GoOn(branch) == todo' = branch \o Tail(todo)

\* Fault: the parts of x stay.
With_Alone(x) == {x}

\* what is released with x: x and its parts
With(x) == {y \in Things : y = x \/ holder[y] = x}
Without(gone) == [y \in Things |-> IF y \in gone THEN "none" ELSE holder[y]]

-----------------------------------------------------------------------------
Begin ==
    /\ result = "idle"
    /\ todo' = Body[fn]
    /\ result' = "running"
    /\ UNCHANGED <<fn, holder, misused, lost, unseen, changed>>

(***************************************************************************)
(* A handle variable that still holds a thing to release is overwritten:   *)
(* nothing can release that thing any more.                                *)
(***************************************************************************)
Obtain(x, by) ==
    /\ step.x = x /\ step.to = by
    /\ holder' = [Without(With(x)) EXCEPT ![x] = by]
    /\ lost' = IF holder[x] = "call" THEN lost \cup {x} ELSE lost
    /\ misused' = IF by \in Things /\ holder[by] = "none"
                    THEN misused \cup {by} ELSE misused
    /\ GoOn(step.yes)
    /\ UNCHANGED <<fn, unseen, changed, result>>

TakeStep == Doing("take") /\ \E x \in Things, by \in Holders : Obtain(x, by)

GetSucceeds == Doing("get") /\ \E x \in Things, by \in Holders : Obtain(x, by)

GetFails ==
    /\ Doing("get")
    /\ GoOn(step.no)
    /\ unseen' = TRUE
    /\ UNCHANGED <<fn, holder, misused, lost, changed, result>>

\* releasing what is not the function's to release is an error of its own
Release(x) ==
    /\ Doing("free") /\ step.x = x
    /\ misused' = IF holder[x] = "call" THEN misused ELSE misused \cup {x}
    /\ holder' = Without(With(x))
    /\ GoOn(<< >>)
    /\ UNCHANGED <<fn, lost, unseen, changed, result>>

ReleaseIf(x) ==
    /\ Doing("freeif") /\ step.x = x
    /\ misused' = IF holder[x] \in {"none", "call"} THEN misused
                                                     ELSE misused \cup {x}
    /\ holder' = Without(With(x))
    /\ GoOn(<< >>)
    /\ UNCHANGED <<fn, lost, unseen, changed, result>>

UseStep(x) ==
    /\ Doing("use") /\ step.x = x
    /\ misused' = IF holder[x] # "none" THEN misused ELSE misused \cup {x}
    /\ GoOn(<< >>)
    /\ UNCHANGED <<fn, holder, lost, unseen, changed, result>>

\* the parts of x go with it
GiveTo(x, y) ==
    /\ step.x = x /\ step.to = y
    /\ misused' = IF holder[x] \in {"call", "scope"}
                       /\ (y \in Things => holder[y] # "none")
                    THEN misused ELSE misused \cup {x}
    /\ holder' = [z \in Things |->
                     IF z = x THEN IF holder[x] = "none" THEN "none" ELSE y
                     ELSE IF holder[z] = x /\ y \in Things THEN y
                     ELSE holder[z]]
    /\ GoOn(<< >>)
    /\ UNCHANGED <<fn, lost, unseen, changed, result>>

GiveStep == Doing("give") /\ \E x \in Things, y \in Holders : GiveTo(x, y)

TrySucceeds ==
    /\ Doing("try")
    /\ GoOn(step.yes)
    /\ UNCHANGED <<fn, holder, misused, lost, unseen, changed, result>>

TryFails ==
    /\ Doing("try")
    /\ GoOn(step.no)
    /\ unseen' = TRUE
    /\ UNCHANGED <<fn, holder, misused, lost, changed, result>>

ChooseStep ==
    /\ Doing("choose")
    /\ GoOn(step.yes) \/ GoOn(step.no)
    /\ UNCHANGED <<fn, holder, misused, lost, unseen, changed, result>>

LoopStep ==
    /\ Doing("loop")
    /\ GoOn(<< >>) \/ todo' = step.yes \o todo
    /\ UNCHANGED <<fn, holder, misused, lost, unseen, changed, result>>

TellStep ==
    /\ Doing("tell")
    /\ unseen' = FALSE
    /\ GoOn(<< >>)
    /\ UNCHANGED <<fn, holder, misused, lost, changed, result>>

ChangeStep ==
    /\ Doing("change")
    /\ changed' = TRUE
    /\ GoOn(<< >>)
    /\ UNCHANGED <<fn, holder, misused, lost, unseen, result>>

(***************************************************************************)
(* Leaving runs the destructors of the C++ objects, whatever the exit.  An *)
(* error or a result that says failure makes the failure known.            *)
(***************************************************************************)
Leave ==
    /\ Doing("return")
    /\ result' = step.to
    /\ todo' = << >>
    /\ holder' = Without(UNION {With(x) : x \in {z \in Things :
                                               holder[z] = "scope"}})
    /\ unseen' = (unseen /\ step.to = "value")
    /\ UNCHANGED <<fn, misused, lost, changed>>

Ended == result \in {"value", "void", "stop"}

\* R is in control again: the next call starts afresh
BackToR ==
    /\ Ended
    /\ holder' = [x \in Things |-> "none"]
    /\ misused' = {} /\ lost' = {}
    /\ unseen' = FALSE /\ changed' = FALSE
    /\ result' = "idle"
    /\ UNCHANGED <<fn, todo>>

Next ==
    \/ Begin
    \/ TakeStep \/ GetSucceeds \/ GetFails
    \/ \E x \in Things : Release(x) \/ ReleaseIf(x) \/ UseStep(x)
    \/ GiveStep
    \/ TrySucceeds \/ TryFails
    \/ ChooseStep \/ LoopStep
    \/ TellStep \/ ChangeStep
    \/ Leave
    \/ BackToR

Spec == Init /\ [][Next]_vars

-----------------------------------------------------------------------------
(***************************************************************************)
(* The variables hold what they should.  A thing is released by the        *)
(* function, by a C++ object or by the caller, or it is a part of another  *)
(* thing that exists and is no part itself: parts of parts do not arise.   *)
(***************************************************************************)
TypeOK ==
    /\ fn \in DOMAIN Body
    /\ holder \in [Things -> Holders]
    /\ \A x \in Things : holder[x] \in Things =>
           holder[holder[x]] \in {"call", "scope", "caller"}
    /\ misused \subseteq Things /\ lost \subseteq Things
    /\ unseen \in BOOLEAN /\ changed \in BOOLEAN
    /\ result \in Results
    /\ result # "running" => todo = << >>

(***************************************************************************)
(* When a call has ended, by any of its exits and whichever of the calls   *)
(* it makes failed, nothing is left that only its raw handles could have   *)
(* released, nothing it was to return is left behind by an R error, and    *)
(* the state of the process it changed for its own purposes (a pushed      *)
(* error handler, a configuration option) is as before.  KnownLeaks lists  *)
(* the places where the code does not live up to this.                     *)
(***************************************************************************)
NothingLeaks ==
    Ended => \A x \in Things :
        \/ holder[x] = "call" \/ x \in lost
        \/ holder[x] = "caller" /\ result # "value"
        => <<fn, x>> \in KnownLeaks

(***************************************************************************)
(* No function uses what is null or already released, releases it twice,   *)
(* or releases a part or what a C++ object or the caller releases.         *)
(***************************************************************************)
NothingMisused == \A x \in misused : <<fn, x>> \in KnownMisuse

(***************************************************************************)
(* A failure inside a call is made known: the call ends in an R error, in  *)
(* a value that says failure, or it warned.  KnownSilent lists the         *)
(* functions that return an ordinary value instead.  After a misuse the    *)
(* outcome is undefined and nothing is claimed of it here.                 *)
(***************************************************************************)
FailureMadeKnown ==
    result = "value" /\ unseen /\ misused = {} => fn \in KnownSilent

(***************************************************************************)
(* A call that reports failure has not changed stored data.  KnownPartial  *)
(* lists the functions of several effects that can fail in between.        *)
(***************************************************************************)
AllOrNothing == result \in {"void", "stop"} /\ changed => fn \in KnownPartial
=============================================================================
