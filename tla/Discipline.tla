------------------------------ MODULE Discipline ------------------------------
(***************************************************************************)
(* What can be seen of a function's steps without running them.            *)
(*                                                                         *)
(* While a call runs it owes things: a handle it holds is to be released   *)
(* before the call ends, a failure to be made known before it returns an   *)
(* ordinary value, a thing that is not there must not be used before it    *)
(* is there again.  Each is a debt: some steps raise it, some clear it,    *)
(* some are wrong while it is owed.  A body is tidy with respect to a      *)
(* debt when, step by step and branch by branch, what follows a step that  *)
(* raises the debt clears it before any step that is wrong.                *)
(*                                                                         *)
(* NativeCallProofs shows that tidy bodies have the properties of          *)
(* NativeCall, whatever fails and however often a loop is run.             *)
(***************************************************************************)
EXTENDS NativeCall, Integers, FiniteSets

CONSTANTS
    Parts,        \* Parts[f]: the steps of f, those in branches included
    Homes(_, _),  \* Homes(f, x): the things x can become a part of in f
    Pass(_, _),   \* Pass(d, s): step s does nothing wrong while d is owed
    Sure(_, _),   \* Sure(d, s): and after it d is owed no more, or all is over
    Safe(_, _)    \* Safe(d, s): d is not owed after s unless it was before

Obtains(s)  == s.op \in {"take", "get"}
Releases(s) == s.op \in {"free", "freeif"}
Puts(s)     == Obtains(s) \/ s.op = "give"
Branches    == {"yes", "no"}

(***************************************************************************)
(* How steps are built (module Steps): only a call that can fail has two   *)
(* branches, nothing is put into itself, the exits are the three of        *)
(* NativeCall.                                                             *)
(***************************************************************************)
Formed(s) ==
    /\ Puts(s) => s.to \notin {"none", s.x}
    /\ s.op = "return" => s.to \in {"value", "void", "stop"}
    /\ s.op \notin {"take", "get", "try", "choose", "loop"} => s.yes = << >>
    /\ s.op \notin {"get", "try", "choose"} => s.no = << >>

ASSUME BodyAssumption ==
    \A f \in DOMAIN Body :
        /\ Body[f] \in Seq(Parts[f])
        /\ \A s \in Parts[f] : /\ Formed(s)
                               /\ s.yes \in Seq(Parts[f])
                               /\ s.no \in Seq(Parts[f])

ASSUME HomesAssumption ==
    \A f \in DOMAIN Body : \A s \in Parts[f] :
        Puts(s) /\ s.to \in Things =>
            /\ s.to \in Homes(f, s.x)
            /\ s.op = "give" =>
                   \A z \in Things : s.x \in Homes(f, z) => s.to \in Homes(f, z)

-----------------------------------------------------------------------------
(***************************************************************************)
(* Debts.  That of a thing is owed while its holder is one of d.when;      *)
(* d.within are the things it may be a part of, and go with.               *)
(***************************************************************************)
Debt(name, x, when, within) ==
    [name |-> name, of |-> x, when |-> when, within |-> within]

Silence == Debt("silence", "none", {}, {})  \* a failure not made known
Altered == Debt("effect", "none", {}, {})   \* stored data changed

Held(f, x)    == Debt("held", x, {"call"}, Homes(f, x))
Due(f, x)     == Debt("due", x, {"caller"}, Homes(f, x))
Absent(f, x)  == Debt("absent", x, {"none"}, Homes(f, x))
NotHeld(f, x) == Debt("unheld", x, Holders \ {"call"}, Homes(f, x))
Foreign(f, x) == Debt("foreign", x, Holders \ {"none", "call"}, Homes(f, x))
NotOwn(f, x)  == Debt("unowned", x, Holders \ {"call", "scope"}, Homes(f, x))
Part(f, x)    == Debt("part", x, Things, Homes(f, x))

OfThing(d) == d.name \notin {"silence", "effect"}

Owed(d) ==
    IF d.name = "silence" THEN unseen
    ELSE IF d.name = "effect" THEN changed
    ELSE holder[d.of] \in d.when

\* who holds s.x after step s, and what becomes of the parts of s.x
After(s)      == IF Puts(s) THEN s.to ELSE "none"
AfterParts(s) == IF s.op = "give" THEN s.to ELSE "none"

\* step s by branch b puts or releases something
Acts(s, b) ==
    s.op \in {"take", "give", "free", "freeif"} \/ (s.op = "get" /\ b = "yes")

Raises(d, s, b) ==
    \/ d.name = "silence" /\ s.op \in {"get", "try"} /\ b = "no"
    \/ d.name = "effect" /\ s.op = "change"
    \/ /\ OfThing(d) /\ Acts(s, b)
       /\ \/ s.x = d.of /\ After(s) \in d.when
          \/ /\ s.x # d.of /\ s.x \in d.within \ d.when
             /\ AfterParts(s) \in d.when
             /\ s.op = "give" => s.to \in Things

Clears(d, s, b) ==
    \/ d.name = "silence" /\ s.op = "tell"
    \/ OfThing(d) /\ Acts(s, b) /\ s.x = d.of /\ After(s) \notin d.when

Wrong(d, s) ==
    \/ d.name = "silence" /\ s.op = "return" /\ s.to = "value"
    \/ d.name = "effect"  /\ s.op = "return" /\ s.to # "value"
    \/ d.name = "held" /\ (s.op = "return" \/ (Obtains(s) /\ s.x = d.of))
    \/ d.name = "due"  /\ s.op = "return" /\ s.to # "value"
    \/ d.name = "absent" /\ \/ s.op = "use" /\ s.x = d.of
                            \/ Puts(s) /\ s.to = d.of
    \/ d.name = "unheld"  /\ s.op = "free" /\ s.x = d.of
    \/ d.name = "foreign"  /\ s.op = "freeif" /\ s.x = d.of
    \/ d.name = "unowned" /\ s.op = "give" /\ s.x = d.of
    \/ d.name = "part" /\ Puts(s) /\ s.to = d.of

(***************************************************************************)
(* The steps of L after the k-th do nothing wrong while d is owed, and, if *)
(* they settle it, they also clear it or leave on every path.              *)
(***************************************************************************)
Fine(d, L, k) ==
    \A i \in (k + 1)..Len(L) :
        Pass(d, L[i]) \/ \E j \in (k + 1)..i : Sure(d, L[j])

Settles(d, L, k) == Fine(d, L, k) /\ \E j \in (k + 1)..Len(L) : Sure(d, L[j])

\* a step of L that may raise d is followed by what settles it, or is fine
Closed(d, L) == \A k \in 1..Len(L) : Safe(d, L[k]) \/ Settles(d, L, k)
Opened(d, L) == \A k \in 1..Len(L) : Safe(d, L[k]) \/ Fine(d, L, k)

\* what Pass, Sure and Safe promise of step s
PassHolds(d, s) ==
    /\ ~Wrong(d, s) /\ s.op # "return"
    /\ \A b \in Branches : Clears(d, s, b) \/ Fine(d, s[b], 0)

SureHolds(d, s) ==
    /\ ~Wrong(d, s)
    /\ \/ s.op = "return"
       \/ /\ s.op # "loop"
          /\ \A b \in Branches : Clears(d, s, b) \/ Settles(d, s[b], 0)

SafeHolds(d, s) ==
    \A b \in Branches :
        Closed(d, s[b]) /\ (Raises(d, s, b) => Settles(d, s[b], 0))

Obeys(d, s) ==
    /\ Pass(d, s) => PassHolds(d, s)
    /\ Sure(d, s) => SureHolds(d, s)
    /\ Safe(d, s) => SafeHolds(d, s)
    /\ \A b \in Branches :
           Opened(d, s[b]) /\ (~Safe(d, s) /\ Raises(d, s, b) => Fine(d, s[b], 0))
    /\ s.op = "loop" => Safe(d, s) \/ Pass(d, s)

Tidy(f, d) ==
    /\ \A s \in Parts[f] : Obeys(d, s)
    /\ Opened(d, Body[f])
    /\ "none" \in d.when => Fine(d, Body[f], 0)

\* the things something is put into, and all things the steps of f name
Wholes(f) == Things \cap {s.to : s \in {t \in Parts[f] : Puts(t)}}
Named(f)  == Wholes(f) \cup (Things \cap {s.x : s \in Parts[f]})

-----------------------------------------------------------------------------
\* the functions that visibly keep each property of NativeCall

TidyThing(f, x) ==
    Tidy(f, Absent(f, x)) /\ Tidy(f, NotHeld(f, x))
        /\ Tidy(f, Foreign(f, x)) /\ Tidy(f, NotOwn(f, x))

KeepsOrder(f) ==
    \A y \in Wholes(f) : TidyThing(f, y) /\ Tidy(f, Part(f, y))

Cleans(f) ==
    \A x \in Named(f) :
        <<f, x>> \in KnownLeaks \/ (Tidy(f, Held(f, x)) /\ Tidy(f, Due(f, x)))

Minds(f) ==
    \A x \in Named(f) : <<f, x>> \in KnownMisuse \/
        /\ TidyThing(f, x)
        /\ \A y \in {s.to : s \in {t \in Parts[f] : t.op = "give" /\ t.x = x}} :
               y \in Things => TidyThing(f, y)

Tells(f)   == f \in KnownSilent \/ Tidy(f, Silence)
Commits(f) == f \in KnownPartial \/ Tidy(f, Altered)
=============================================================================
