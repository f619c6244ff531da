--------------------------- MODULE AdvertisedView ---------------------------
(***************************************************************************)
(* What a topology set promises its readers (the routing table and the     *)
(* defence rules): for each originator a soft-state copy of one of the     *)
(* sets it advertised.  An originator numbers what it advertises; several  *)
(* advertisements may share a number.  One with a newer number replaces    *)
(* the copy as a whole, one with the number already held can only add to   *)
(* it, an older one changes nothing, and links may be forgotten one by     *)
(* one.  Nothing is ever held that no advertisement of that number listed. *)
(***************************************************************************)
EXTENDS Integers

CONSTANTS
    Originators, Dests,
    Injected     \* what an originator may list beyond its own links

VARIABLES
    current,     \* [Originators -> SUBSET Dests], what it has to advertise
    newest,      \* [Originators -> Nat], the number it has come to
    offers,      \* advertisements that may still be taken over
    view,        \* [Originators -> SUBSET Dests], the links held
    stamp        \* [Originators -> Nat], number of the advertisement held

viewVars == <<current, newest, offers, view, stamp>>

Init ==
    /\ current = [o \in Originators |-> {}]
    /\ newest = [o \in Originators |-> 0]
    /\ offers = {}
    /\ view = [o \in Originators |-> {}]
    /\ stamp = [o \in Originators |-> 0]

\* The number of o does not fall, the others' stay.
Numbered(o) ==
    /\ newest'[o] >= newest[o]
    /\ newest' = [newest EXCEPT ![o] = newest'[o]]

\* The links of o change, its number, or both.
Turn(o) ==
    /\ \E S \in SUBSET Dests : current' = [current EXCEPT ![o] = S]
    /\ Numbered(o)
    /\ UNCHANGED <<offers, view, stamp>>

\* o offers all it has, and possibly more.
Advertise(o) ==
    /\ Numbered(o)
    /\ \E extra \in SUBSET Injected :
          /\ current[o] \cup extra # {}
          /\ offers' = offers \cup {[originator |-> o, stamp |-> newest'[o],
                                     links |-> current[o] \cup extra]}
    /\ UNCHANGED <<current, view, stamp>>

\* Another copy of an offer that was taken over may still be about.
TakenFrom(a) == offers' \in {offers, offers \ {a}}

Replace(a) ==
    /\ a.stamp > stamp[a.originator]
    /\ view' = [view EXCEPT ![a.originator] = a.links]
    /\ stamp' = [stamp EXCEPT ![a.originator] = a.stamp]
    /\ TakenFrom(a)
    /\ UNCHANGED <<current, newest>>

Extend(a) ==
    /\ a.stamp = stamp[a.originator]
    /\ view' = [view EXCEPT ![a.originator] = @ \cup a.links]
    /\ TakenFrom(a)
    /\ UNCHANGED <<current, newest, stamp>>

\* Lost on its way, or overtaken by a newer one.
Lose(a) ==
    /\ offers' = offers \ {a}
    /\ UNCHANGED <<current, newest, view, stamp>>

Forget(o) ==
    /\ \E d \in view[o] : view' = [view EXCEPT ![o] = @ \ {d}]
    /\ UNCHANGED <<current, newest, offers, stamp>>

Next ==
    \/ \E o \in Originators : Turn(o) \/ Advertise(o) \/ Forget(o)
    \/ \E a \in offers : Replace(a) \/ Extend(a) \/ Lose(a)

Spec == Init /\ [][Next]_viewVars
=============================================================================
