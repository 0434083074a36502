----------------------------- MODULE DynamoPaging -----------------------------
(***************************************************************************)
(* The paginated reads of the DynamoDB backend: Scan and Query             *)
(* (storage_query.go), ListTables (handler_table.go) and ListStreams       *)
(* (handler_streams.go).                                                   *)
(*                                                                         *)
(* A page is computed under a read lock from the whole data as it is at    *)
(* that moment; the server keeps nothing between two pages.  The client    *)
(* sends back the cursor of the page before, and other requests write in   *)
(* between.                                                                *)
(***************************************************************************)
EXTENDS Integers, FiniteSets

CONSTANTS
    Items,         \* keys in the order they are listed in: hash of the
                   \* primary key, sort key, or name
    SortVals,      \* values of the sort key of a secondary index
    Clients,       \* readers
    Modes,         \* the kinds of reads
    Limits,        \* values of Limit
    TotalSegments, \* segments of a parallel scan
    Writers        \* TRUE: items are written between two pages

\* scan also stands for ListTables and for an ascending Query of the table: they
\* list by key and resume after the key of the cursor too.
AllModes == {"scan", "segment", "query_desc", "index", "index_desc", "hash_index",
             "list_streams"}

ASSUME PagingAssumption ==
    /\ IsFiniteSet(Items) /\ Items \subseteq Nat \ {0}
    /\ SortVals \subseteq Nat \ {0}
    /\ Modes \subseteq AllModes
    /\ Limits \subseteq Nat \ {0}
    /\ TotalSegments \in Nat \ {0}
    /\ Writers \in BOOLEAN

VARIABLES
    val,       \* the index sort key of every item, 0 when the item is absent
    pager      \* the readers

vars == <<val, pager>>

\* cur is the cursor, 0 before the first page; steady are the items that have
\* been there, unchanged, since the first page; got and twice are the items
\* returned so far and those returned more than once; quiet says that nothing
\* at all has been written since the first page.
Pager == [state : {"idle", "open", "done"}, mode : AllModes, seg : Nat, cur : Nat,
          got : SUBSET Items, twice : SUBSET Items, steady : SUBSET Items,
          quiet : BOOLEAN]

Present == {k \in Items : val[k] # 0}

-----------------------------------------------------------------------------
(* One page. *)

\* What the result is sorted by, and the direction (ScanIndexForward).
Descending(mode) == mode \in {"query_desc", "index_desc"}

SortKey(mode, k) == IF mode \in {"index", "index_desc"} THEN val[k] ELSE k

\* The order of the result.  Items that compare equal are in the order in which
\* the directory lists them, here that of the keys.
Precedes(mode, j, k) ==
    LET x == SortKey(mode, j)
        y == SortKey(mode, k)
    IN IF x = y THEN j < k ELSE IF Descending(mode) THEN x > y ELSE x < y

\* The items of a parallel scan's segment: every TotalSegments-th one of the
\* items that the table has at the moment.
Segment(p) ==
    {k \in Present : Cardinality({j \in Present : j < k}) % TotalSegments = p.seg}

Listed(p) == IF p.mode = "segment" THEN Segment(p) ELSE Present

\* Mutant of AfterCursor: the cursor's own item must still be there.
AfterPresentCursor(p, k) ==
    /\ p.cur \in Present
    /\ IF Descending(p.mode) THEN k < p.cur ELSE k > p.cur

\* Mutant of AfterCursor: the page starts with the cursor's item.
AtCursor(p, k) ==
    IF Descending(p.mode) THEN SortKey(p.mode, k) <= p.cur ELSE SortKey(p.mode, k) >= p.cur

\* ExclusiveStartKey.  Scan and ListTables resume after the cursor's key,
\* Query after its sort key; an index without a sort key has no second page;
\* ListStreams looks for the cursor itself.
AfterCursor(p, k) ==
    CASE p.mode = "hash_index"   -> FALSE
      [] p.mode = "list_streams" -> p.cur \in Present /\ k > p.cur
      [] OTHER                   -> IF Descending(p.mode) THEN SortKey(p.mode, k) < p.cur
                                    ELSE SortKey(p.mode, k) > p.cur

\* Mutant of Rest: ExclusiveStartKey is ignored.
RestFromStart(p) == Listed(p)

Rest(p) == IF p.cur = 0 THEN Listed(p) ELSE {k \in Listed(p) : AfterCursor(p, k)}

Rank(p, k) == Cardinality({j \in Rest(p) : Precedes(p.mode, j, k)})

\* Limit: the first ones of the rest, and the last of them as the cursor
\* (LastEvaluatedKey) when there are more.
PageOf(p, limit) == {k \in Rest(p) : Rank(p, k) < limit}
More(p, limit) == Cardinality(Rest(p)) > limit
Last(p, limit) == CHOOSE k \in PageOf(p, limit) : Rank(p, k) = limit - 1

-----------------------------------------------------------------------------
Open(c, mode, seg) ==
    /\ pager[c].state # "open"
    /\ pager' = [pager EXCEPT ![c] =
          [state |-> "open", mode |-> mode, seg |-> seg, cur |-> 0,
           got |-> {}, twice |-> {}, steady |-> Present, quiet |-> TRUE]]
    /\ UNCHANGED val

NextPage(c, limit) ==
    /\ pager[c].state = "open"
    /\ LET p == pager[c]
           page == PageOf(p, limit)
       IN pager' = [pager EXCEPT ![c] =
             [p EXCEPT !.got = @ \cup page, !.twice = @ \cup (p.got \cap page),
                       !.state = IF More(p, limit) THEN "open" ELSE "done",
                       !.cur = IF More(p, limit) THEN SortKey(p.mode, Last(p, limit)) ELSE 0]]
    /\ UNCHANGED val

\* A write of another client: v is the new sort key of k, 0 deletes it.
Write(k, v) ==
    /\ Writers
    /\ val[k] # v
    /\ val' = [val EXCEPT ![k] = v]
    /\ pager' = [c \in Clients |-> [pager[c] EXCEPT !.steady = @ \ {k}, !.quiet = FALSE]]

-----------------------------------------------------------------------------
Init ==
    /\ val \in [Items -> SortVals \cup {0}]
    /\ pager = [c \in Clients |->
          [state |-> "idle", mode |-> "scan", seg |-> 0, cur |-> 0,
           got |-> {}, twice |-> {}, steady |-> {}, quiet |-> FALSE]]

Page(c) == \E limit \in Limits : NextPage(c, limit)

Opens(c) ==
    \E mode \in Modes :
        \E seg \in IF mode = "segment" THEN 0..(TotalSegments - 1) ELSE {0} :
            Open(c, mode, seg)

Next ==
    \/ \E c \in Clients : Opens(c) \/ Page(c)
    \/ \E k \in Items, v \in SortVals \cup {0} : Write(k, v)

Spec == Init /\ [][Next]_vars

\* A client that has started asks for page after page until there is none.
FairSpec == Spec /\ \A c \in Clients : WF_vars(Page(c))

-----------------------------------------------------------------------------
(* Properties. *)

\* Every variable holds a value of its type.
TypeOK ==
    /\ val \in [Items -> SortVals \cup {0}]
    /\ pager \in [Clients -> Pager]

\* A client that has reached the last page has been given every item that was
\* there, unchanged, all the time, whatever was written around it.  (ListStreams
\* promises it only when nothing was written; a segment of a parallel scan is every
\* n-th item of the table as it is at that page, and promises it of no single item.)
NothingSkipped ==
    \A c \in Clients :
        (/\ pager[c].state = "done"
         /\ pager[c].mode # "segment"
         /\ pager[c].mode = "list_streams" => pager[c].quiet)
            => pager[c].steady \subseteq pager[c].got

\* No client is given twice an item that did not change.
NothingTwice == \A c \in Clients : pager[c].twice \cap pager[c].steady = {}

\* Paging comes to an end although items are written all the time.
PagingEnds == \A c \in Clients : pager[c].state = "open" ~> pager[c].state = "done"

=============================================================================
