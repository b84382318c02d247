---------------------------- MODULE CompareRealm ----------------------------
(***************************************************************************)
(* The Realm database of HikakuKun: the rows of CompareItemRealm (one per  *)
(* comparison group) and of CompareContentsRealm (one per compared thing,  *)
(* a "column" of its group), and the queries and writes the view           *)
(* controllers make.  Texts are abstracted away (module CompareCells has   *)
(* them): a row is its key.                                                *)
(*                                                                         *)
(* Realm itself is external: a write transaction is atomic and durable     *)
(* when it returns, a query lists rows in insertion order, and opening the *)
(* file or committing may fail.                                            *)
(***************************************************************************)
EXTENDS Integers, Sequences, SequencesExt

CONSTANTS
    MaxGroupId,   \* bound on the group ids that are handed out
    MaxCols,      \* columns the device can show: 5 if wide, else 4
    MaxFaults     \* bound on the Realm calls that fail

ASSUME MaxGroupIdAssumption == MaxGroupId \in Nat \ {0}
ASSUME MaxColsAssumption == MaxCols \in {4, 5}
ASSUME MaxFaultsAssumption == MaxFaults \in Nat

VARIABLES
    items,        \* groupId of every CompareItemRealm, in insertion order
    contents,     \* contents[g]: id of every CompareContentsRealm of group g
    faults        \* how many Realm calls have failed

realmVars == <<items, contents, faults>>

GroupIds == 1..MaxGroupId
ColumnIds == 0..4

RealmTypeOK ==
    /\ items \in Seq(GroupIds)
    /\ contents \in [GroupIds -> Seq(ColumnIds)]
    /\ faults \in 0..MaxFaults

RealmInit ==
    /\ items = <<>>
    /\ contents = [g \in GroupIds |-> <<>>]
    /\ faults = 0

-----------------------------------------------------------------------------
\* Queries.

\* getItems(groupId).first != nil
Stored(g) == g \in Range(items)

getMaxGroupId == IF items = <<>> THEN 0 ELSE Max(Range(items))

\* Realm() and the write it leads to either succeed, or throw.
RealmWorks == faults' = faults
RealmThrows == faults < MaxFaults /\ faults' = faults + 1

-----------------------------------------------------------------------------
\* Writes: one committed transaction each.

AddItem(g) ==
    /\ items' = Append(items, g)
    /\ UNCHANGED contents

AddColumn(g, id) ==
    /\ contents' = [contents EXCEPT ![g] = Append(@, id)]
    /\ UNCHANGED items

\* Mutant: the item is kept.
DeleteColumnsOnly(g) ==
    /\ contents' = [contents EXCEPT ![g] = <<>>]
    /\ UNCHANGED items

\* Mutant: the columns are kept.
DeleteItemOnly(g) ==
    /\ items' = SelectSeq(items, LAMBDA h : h # g)
    /\ UNCHANGED contents

\* Deletes what getItems(g) and getContentsList(g) return: the row of the
\* group, if it is still there (UniqueGroups: there is at most one), and all
\* of its columns.
DeleteGroup(g) ==
    /\ items' = IF Stored(g)
                THEN RemoveAt(items, CHOOSE i \in DOMAIN items : items[i] = g)
                ELSE items
    /\ contents' = [contents EXCEPT ![g] = <<>>]
=============================================================================
