------------------------------ MODULE Notebook ------------------------------
(***************************************************************************)
(* What HikakuKun promises of its saved comparisons: a notebook of groups, *)
(* each with a number of compared things.  A group appears whole, in one   *)
(* step, with at least two things; it only ever gains things; it leaves    *)
(* only when the user deletes it, whole.  The exception is an incident (a  *)
(* database call that fails, the process being killed), which may leave a  *)
(* group with fewer things than were entered.                              *)
(***************************************************************************)
EXTENDS Naturals

CONSTANTS
    Groups,      \* the ids a group can have
    MaxThings    \* the most things a group can have

VARIABLES
    book,        \* how many things each saved group has
    incidents    \* failures and kills so far

Put(g, n) == [h \in DOMAIN book \cup {g} |-> IF h = g THEN n ELSE book[h]]

BookInit ==
    /\ book = [g \in {} |-> 0]
    /\ incidents = 0

Create(g, n) ==
    /\ g \notin DOMAIN book
    /\ book' = Put(g, n)
    /\ UNCHANGED incidents

Grow(g, n) ==
    /\ g \in DOMAIN book
    /\ 2 <= book[g]
    /\ book[g] < n
    /\ book' = Put(g, n)
    /\ UNCHANGED incidents

Remove(g) ==
    /\ g \in DOMAIN book
    /\ book' = [h \in DOMAIN book \ {g} |-> book[h]]
    /\ UNCHANGED incidents

Incident ==
    /\ incidents' = incidents + 1
    /\ \/ UNCHANGED book
       \/ \E g \in Groups, n \in 0..(MaxThings - 1) :
              g \notin DOMAIN book /\ book' = Put(g, n)

BookNext ==
    \/ \E g \in Groups : \/ \E n \in 2..MaxThings : Create(g, n) \/ Grow(g, n)
                         \/ Remove(g)
    \/ Incident

BookSpec == BookInit /\ [][BookNext]_<<book, incidents>>
=============================================================================
