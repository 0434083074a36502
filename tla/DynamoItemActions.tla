-------------------------- MODULE DynamoItemActions --------------------------
(***************************************************************************)
(* What one write does to one item: the expressions that storage_item.go   *)
(* and storage_transaction.go apply under s.mu, as functions of the item.  *)
(***************************************************************************)
EXTENDS Integers, Sequences

CONSTANTS
    Keys,          \* items, named by table and primary key
    Vals,          \* contents of an item's document
    Bare,          \* the item has no document
    Absent         \* the item is not there

Item == Vals \cup {Bare}

ASSUME ActionsAssumption == Keys # {} /\ Bare \notin Vals /\ Absent \notin Item

\* REMOVE of the document and SET of a path inside it.  (SET of the whole
\* document does what a put does.)
Updates == [nested : {FALSE}, val : {Bare}] \cup [nested : {TRUE}, val : Vals]

Conditions == {"none", "attribute_exists", "attribute_not_exists"}

\* One entry of BatchWriteItem or of TransactWriteItems.
Action ==
    [kind : {"put"}, key : Keys, arg : Vals]
        \cup [kind : {"update"}, key : Keys, arg : Updates]
        \cup [kind : {"delete"}, key : Keys, arg : {Absent}]
        \cup [kind : {"check"}, key : Keys, arg : {"attribute_exists"}]

\* evalCondition
Holds(cond, file) ==
    CASE cond = "none"                 -> TRUE
      [] cond = "attribute_exists"     -> file # Absent
      [] cond = "attribute_not_exists" -> file = Absent

\* applyNestedSet needs the document to be there already.
Valid(file, upd) == upd.nested => file \in Vals

\* The file after an action that succeeds.
Result(act, file) ==
    CASE act.kind = "put"    -> act.arg
      [] act.kind = "delete" -> Absent
      [] act.kind = "update" -> act.arg.val
      [] act.kind = "check"  -> file

Invalid(act, file) == act.kind = "update" /\ ~Valid(file, act.arg)

\* The items after all of acts, which name different items.
Effect(db, acts) ==
    [k \in Keys |->
        LET mine == {i \in DOMAIN acts : acts[i].key = k} IN
        IF mine = {} THEN db[k] ELSE Result(acts[CHOOSE i \in mine : TRUE], db[k])]

=============================================================================
