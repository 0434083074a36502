-------------------------- MODULE DynamoItemsProofs --------------------------
(***************************************************************************)
(* Theorems about DynamoItems, for every value of its constants.           *)
(***************************************************************************)
EXTENDS DynamoItems, SequenceTheorems, TLAPS

File == Item \cup {Absent, Corrupt}
Readable == Item \cup {Absent}

Request == [kind : {"idle", "batch", "transact"}, step : {"none", "apply", "rollback", "emit"},
            acts : Seq(Action), i : Nat, snaps : Seq(Snapshot),
            base : [Keys -> File] \cup {<< >>}]

\* What a request has to be besides a record of its type.
ReqShape ==
    /\ req.kind = "idle" => req = Idle
    /\ req.kind = "batch" =>
          /\ req.step = "apply"
          /\ req.i \in 1..Len(req.acts)
          /\ req.snaps = << >>
          /\ \A j \in 1..Len(req.acts) : req.acts[j].kind # "check"
    /\ req.kind = "transact" =>
          /\ req.step # "none"
          /\ req.i \in 1..(Len(req.acts) + 1)
          /\ req.base \in [Keys -> File]
          /\ req.step = "emit" => req.i = Len(req.acts) + 1
          /\ \A s \in 1..Len(req.snaps) :
                \E j \in 1..Len(req.acts) : req.snaps[s].key = req.acts[j].key
          /\ req.step # "rollback" =>
                \A j \in 1..Len(req.acts) : items[req.acts[j].key] \in Readable

\* While a transaction is not rolled back, what its puts and deletes have written is on disk.
Written ==
    req.kind = "transact" =>
        /\ \A i, j \in 1..Len(req.acts) : i # j => req.acts[i].key # req.acts[j].key
        /\ req.step # "rollback" =>
              \A j \in 1..Len(req.acts) :
                 j < req.i /\ req.acts[j].kind \in {"put", "delete"} =>
                     items[req.acts[j].key] = req.acts[j].arg

TypeInv ==
    /\ items \in [Keys -> File]
    /\ req \in Request
    /\ ReqShape
    /\ Written
    /\ replica \in [Keys -> Readable]
    /\ doubt \subseteq Streamed
    /\ reply \in {"none", "ok", "failed"}

-----------------------------------------------------------------------------
(* Actions and files. *)

\* What an action is made of, whatever its kind.
LEMMA ActionParts ==
    ASSUME NEW a \in Action
    PROVE  /\ a.key \in Keys
           /\ a.kind \in {"put", "update", "delete", "check"}
           /\ a.kind = "put" => a.arg \in Vals
           /\ a.kind = "update" => a.arg \in Updates
<1>1. CASE a \in [kind : {"put"}, key : Keys, arg : Vals]
  BY <1>1
<1>2. CASE a \in [kind : {"update"}, key : Keys, arg : Updates]
  BY <1>2
<1>3. CASE a \in [kind : {"delete"}, key : Keys, arg : {Absent}]
  BY <1>3
<1>4. CASE a \in [kind : {"check"}, key : Keys, arg : {"attribute_exists"}]
  BY <1>4
<1> QED
  BY <1>1, <1>2, <1>3, <1>4 DEF Action

\* An action leaves an item that can be read; a check leaves the item as it is.
LEMMA ResultReadable ==
    ASSUME NEW a \in Action, NEW f
    PROVE  /\ a.kind # "check" => Result(a, f) \in Readable
           /\ a.kind = "check" => Result(a, f) = f
<1>1. CASE a.kind = "put"
  BY <1>1, ActionParts DEF Result, Readable, Item
<1>2. CASE a.kind = "update"
  <2>1. a.arg.val \in Item
    BY <1>2, ActionParts DEF Updates, Item
  <2> QED
    BY <1>2, <2>1 DEF Result, Readable
<1>3. CASE a.kind = "delete"
  BY <1>3 DEF Result, Readable
<1>4. CASE a.kind = "check"
  BY <1>4 DEF Result
<1> QED
  BY <1>1, <1>2, <1>3, <1>4, ActionParts

\* A put and a delete leave what they were given.
LEMMA ResultOfWrite ==
    ASSUME NEW a \in Action, NEW f
    PROVE  a.kind \in {"put", "delete"} => Result(a, f) = a.arg
<1>1. CASE a.kind = "put"
  BY <1>1 DEF Result
<1>2. CASE a.kind = "delete"
  <2>1. a.arg = Absent
    BY <1>2 DEF Action
  <2> QED
    BY <1>2, <2>1 DEF Result
<1> QED
  BY <1>1, <1>2

\* A call leaves the new content, the old one or a torn file, and has succeeded only when
\* it leaves the new one.
LEMMA OutcomeParts ==
    ASSUME NEW file \in File, NEW new \in Readable, NEW o \in Outcomes(file, new)
    PROVE  /\ o.ok \in BOOLEAN
           /\ o.file \in File
           /\ o.ok => o.file = new
           /\ Faults \subseteq {"open", "remove"} => (~o.ok => o.file = file)
<1>1. \/ o = [file |-> new, ok |-> TRUE]
      \/ o = [file |-> file, ok |-> FALSE]
      \/ o = [file |-> Corrupt, ok |-> FALSE] /\ "write" \in Faults
      \/ o = [file |-> new, ok |-> FALSE] /\ "close" \in Faults
  BY DEF Outcomes, RemoveOutcomes, WriteOutcomes, Fails
<1>2. CASE o = [file |-> new, ok |-> TRUE]
  BY <1>2 DEF File, Readable
<1>3. CASE o = [file |-> file, ok |-> FALSE]
  BY <1>3
<1>4. CASE o = [file |-> Corrupt, ok |-> FALSE] /\ "write" \in Faults
  BY <1>4 DEF File
<1>5. CASE o = [file |-> new, ok |-> FALSE] /\ "close" \in Faults
  BY <1>5 DEF File, Readable
<1> QED
  BY <1>1, <1>2, <1>3, <1>4, <1>5

-----------------------------------------------------------------------------
(* Types. *)

\* Transactions and batches are sequences of one action or more.
LEMMA Requested ==
    ASSUME NEW acts \in Transactions \cup Batches
    PROVE  acts \in Seq(Action) /\ Len(acts) \in Nat /\ Len(acts) >= 1
<1>1. PICK n \in Nat : n >= 1 /\ acts \in [1..n -> Offered]
  BY ItemsAssumption DEF Transactions, Batches
<1>2. Offered \subseteq Action
  BY DEF Offered
<1>3. acts \in [1..n -> Action]
  BY <1>1, <1>2
<1> QED
  BY <1>1, <1>3

LEMMA IdleIsRequest == Idle \in Request
<1>1. << >> \in Seq(Action) /\ << >> \in Seq(Snapshot)
  OBVIOUS
<1> QED
  BY <1>1 DEF Idle, Request

LEMMA TypeInit == Init => TypeInv
<1> SUFFICES ASSUME Init PROVE TypeInv
  OBVIOUS
<1>1. Idle.kind = "idle"
  BY DEF Idle
<1> QED
  BY <1>1, IdleIsRequest DEF Init, TypeInv, ReqShape, Written, File, Readable

\* A request that is over.
LEMMA TypeFinish ==
    ASSUME TypeInv, req' = Idle, reply' \in {"none", "ok", "failed"},
           items' \in [Keys -> File], replica' \in [Keys -> Readable], doubt' \subseteq Streamed
    PROVE  TypeInv'
<1>1. Idle.kind = "idle"
  BY DEF Idle
<1> QED
  BY <1>1, IdleIsRequest DEF TypeInv, ReqShape, Written

\* What the stream is sent are images of items that can be read.
LEMMA TypeEmit ==
    ASSUME TypeInv, NEW k \in Keys, NEW old, NEW new \in Readable,
           EmitChange(k, old, new) \/ NoRecord
    PROVE  replica' \in [Keys -> Readable] /\ doubt' \subseteq Streamed
BY DEF TypeInv, EmitChange, Emit, NoRecord

LEMMA TypeWriteOne ==
    ASSUME TypeInv, req = Idle, NEW k \in Keys, NEW old, NEW new \in Readable,
           WriteOne(k, old, new)
    PROVE  TypeInv'
<1>1. PICK o \in Outcomes(items[k], new) :
          /\ items' = [items EXCEPT ![k] = o.file]
          /\ reply' = IF o.ok THEN "ok" ELSE "failed"
          /\ IF o.ok THEN EmitChange(k, old, new) ELSE NoRecord
          /\ UNCHANGED req
  BY DEF WriteOne
<1>2. o.file \in File
  BY OutcomeParts DEF TypeInv
<1>3. items' \in [Keys -> File]
  BY <1>1, <1>2 DEF TypeInv
<1>4. replica' \in [Keys -> Readable] /\ doubt' \subseteq Streamed
  BY <1>1, TypeEmit
<1>5. reply' \in {"none", "ok", "failed"}
  BY <1>1
<1> QED
  BY <1>1, <1>3, <1>4, <1>5, TypeFinish

LEMMA TypeOneItem == ASSUME TypeInv, OneItem PROVE TypeInv'
<1>1. PICK k \in Keys, cond \in Conditions :
          \/ \E item \in Vals : PutItem(k, item, cond)
          \/ DeleteItem(k, cond)
          \/ \E upd \in Updates : UpdateItem(k, upd, cond)
  BY DEF OneItem
<1>2. ASSUME NEW item \in Vals, PutItem(k, item, cond)
      PROVE  TypeInv'
  <2>1. item \in Readable
    BY DEF Readable, Item
  <2> QED
    BY <1>2, <2>1, TypeWriteOne DEF PutItem, Admits
<1>3. CASE DeleteItem(k, cond)
  <2>1. Absent \in Readable
    BY DEF Readable
  <2> QED
    BY <1>3, <2>1, TypeWriteOne DEF DeleteItem, Admits
<1>4. ASSUME NEW upd \in Updates, UpdateItem(k, upd, cond)
      PROVE  TypeInv'
  <2>1. upd.val \in Readable
    BY DEF Readable, Item, Updates
  <2> QED
    BY <1>4, <2>1, TypeWriteOne DEF UpdateItem, Admits
<1> QED
  BY <1>1, <1>2, <1>3, <1>4

LEMMA TypeRefuse == ASSUME TypeInv, Refuse PROVE TypeInv'
BY TypeFinish DEF Refuse, NoRecord, TypeInv

LEMMA TypeBatchBegin ==
    ASSUME TypeInv, NEW acts \in Batches, BatchBegin(acts)
    PROVE  TypeInv'
<1>1. acts \in Seq(Action) /\ Len(acts) \in Nat /\ Len(acts) >= 1
  BY Requested
<1>2. req' = [kind |-> "batch", step |-> "apply", acts |-> acts, i |-> 1, snaps |-> << >>,
              base |-> << >>]
  BY DEF BatchBegin, Idle
<1>3. req' \in Request
  BY <1>1, <1>2 DEF Request
<1>4. \A j \in 1..Len(acts) : acts[j].kind # "check"
  BY DEF BatchBegin
<1>5. ReqShape'
  BY <1>1, <1>2, <1>4 DEF ReqShape
<1>6. Written'
  BY <1>2 DEF Written
<1> QED
  BY <1>3, <1>5, <1>6 DEF TypeInv, BatchBegin, NoRecord

\* The steps of a request change its position, its snapshots and its step.
Advanced(r, x, st, n, q) ==
    /\ x \in Request
    /\ x.kind = r.kind /\ x.acts = r.acts /\ x.base = r.base
    /\ x.step = st /\ x.i = n /\ x.snaps = q

LEMMA Advance ==
    ASSUME NEW r \in Request, NEW n \in Nat, NEW q \in Seq(Snapshot),
           NEW st \in {"apply", "rollback", "emit"}
    PROVE  /\ Advanced(r, [r EXCEPT !.i = n, !.snaps = q], r.step, n, q)
           /\ Advanced(r, [r EXCEPT !.i = n], r.step, n, r.snaps)
           /\ Advanced(r, [r EXCEPT !.step = st], st, r.i, r.snaps)
           /\ Advanced(r, [r EXCEPT !.step = st, !.snaps = q], st, r.i, q)
           /\ Advanced(r, [r EXCEPT !.snaps = q], r.step, r.i, q)
<1>1. Advanced(r, [r EXCEPT !.i = n, !.snaps = q], r.step, n, q)
  BY DEF Request, Advanced
<1>2. Advanced(r, [r EXCEPT !.i = n], r.step, n, r.snaps)
  BY DEF Request, Advanced
<1>3. Advanced(r, [r EXCEPT !.step = st], st, r.i, r.snaps)
  BY DEF Request, Advanced
<1>4. Advanced(r, [r EXCEPT !.step = st, !.snaps = q], st, r.i, q)
  BY DEF Request, Advanced
<1>5. Advanced(r, [r EXCEPT !.snaps = q], r.step, r.i, q)
  BY DEF Request, Advanced
<1> QED
  BY <1>1, <1>2, <1>3, <1>4, <1>5

LEMMA TypeBatchStep == ASSUME TypeInv, BatchStep PROVE TypeInv'
<1> DEFINE act == req.acts[req.i]
           k == act.key
           new == Result(act, items[k])
<1>1. req.i \in 1..Len(req.acts) /\ req.acts \in Seq(Action) /\ act \in Action
  BY DEF TypeInv, ReqShape, BatchStep, Request
<1>2. k \in Keys /\ new \in Readable
  BY <1>1, ActionParts, ResultReadable DEF TypeInv, ReqShape, BatchStep
<1>3. CASE Finish("failed") /\ NoRecord /\ UNCHANGED items
  BY <1>3, TypeFinish DEF Finish, NoRecord, TypeInv
<1>4. ASSUME NEW o \in Outcomes(items[k], new),
             items' = [items EXCEPT ![k] = o.file],
             IF o.ok THEN EmitChange(k, items[k], new) ELSE NoRecord,
             \/ ~o.ok /\ Finish("failed")
             \/ o.ok /\ req.i = Len(req.acts) /\ Finish("ok")
             \/ o.ok /\ req.i < Len(req.acts) /\ req' = [req EXCEPT !.i = @ + 1] /\ UNCHANGED reply
      PROVE  TypeInv'
  <2>1. o.file \in File
    BY <1>2, OutcomeParts DEF TypeInv
  <2>2. items' \in [Keys -> File]
    BY <1>4, <2>1 DEF TypeInv
  <2>3. replica' \in [Keys -> Readable] /\ doubt' \subseteq Streamed
    BY <1>2, <1>4, TypeEmit
  <2>4. CASE Finish("failed") \/ Finish("ok")
    BY <2>2, <2>3, <2>4, TypeFinish DEF Finish
  <2>5. CASE req.i < Len(req.acts) /\ req' = [req EXCEPT !.i = @ + 1] /\ UNCHANGED reply
    <3>0. req \in Request /\ req.i + 1 \in Nat /\ req.snaps \in Seq(Snapshot)
      BY DEF TypeInv, Request
    <3>1. req' \in Request /\ req'.i = req.i + 1 /\ req'.i \in 1..Len(req'.acts)
      <4>1. Advanced(req, req', req.step, req.i + 1, req.snaps)
        BY <2>5, <3>0, Advance
      <4> QED
        BY <1>1, <2>5, <4>1 DEF Advanced
    <3>2. /\ req'.kind = "batch" /\ req'.step = req.step /\ req'.acts = req.acts
          /\ req'.snaps = req.snaps
      BY <2>5 DEF TypeInv, Request, BatchStep
    <3>3. ReqShape'
      BY <3>1, <3>2 DEF TypeInv, ReqShape, BatchStep
    <3>4. Written'
      BY <3>2 DEF Written
    <3> QED
      BY <2>2, <2>3, <2>5, <3>1, <3>3, <3>4 DEF TypeInv
  <2> QED
    BY <1>4, <2>4, <2>5
<1> QED
  BY <1>3, <1>4 DEF BatchStep

LEMMA TypeTransactBegin ==
    ASSUME TypeInv, NEW acts \in Transactions, TransactBegin(acts)
    PROVE  TypeInv'
<1>1. acts \in Seq(Action) /\ Len(acts) \in Nat /\ Len(acts) >= 1
  BY Requested
<1>2. req' = [kind |-> "transact", step |-> "apply", acts |-> acts, i |-> 1, snaps |-> << >>,
              base |-> items]
  BY DEF TransactBegin, Idle
<1>3. req' \in Request
  BY <1>1, <1>2 DEF Request, TypeInv
<1>4. \A j \in 1..Len(acts) : items[acts[j].key] \in Readable
  <2> SUFFICES ASSUME NEW j \in 1..Len(acts) PROVE items[acts[j].key] \in Readable
    OBVIOUS
  <2>1. acts[j].key \in Keys
    BY <1>1, ActionParts
  <2> QED
    BY <2>1 DEF TransactBegin, TypeInv, File, Readable
<1>5. /\ req'.kind = "transact" /\ req'.step = "apply" /\ req'.acts = acts
      /\ req'.snaps = << >> /\ req'.base = items /\ req'.i = 1
  BY <1>2
<1>6. req'.base \in [Keys -> File] /\ UNCHANGED items
  BY <1>5 DEF TypeInv, TransactBegin
<1>7. ReqShape'
  BY <1>1, <1>4, <1>5, <1>6 DEF ReqShape
<1>8. Written'
  BY <1>1, <1>5 DEF Written, TransactBegin
<1> QED
  BY <1>3, <1>7, <1>8 DEF TypeInv, TransactBegin, NoRecord

\* The action that a transaction has come to, and its item.
LEMMA ApplyingParts ==
    ASSUME TypeInv, Applying
    PROVE  /\ req.kind = "transact" /\ req.step = "apply"
           /\ req.i \in 1..Len(req.acts) /\ req.acts \in Seq(Action) /\ req.snaps \in Seq(Snapshot)
           /\ req.acts[req.i] \in Action /\ req.acts[req.i].key \in Keys
           /\ items[req.acts[req.i].key] \in Readable
<1>1. req.kind = "transact" /\ req.step = "apply" /\ req.acts \in Seq(Action) /\ req.snaps \in Seq(Snapshot)
  BY DEF TypeInv, Request, Applying
<1>2. req.i \in 1..Len(req.acts)
  BY <1>1 DEF TypeInv, ReqShape, Applying
<1>3. req.acts[req.i] \in Action
  BY <1>1, <1>2
<1>4. req.acts[req.i].key \in Keys
  BY <1>3, ActionParts
<1>5. items[req.acts[req.i].key] \in Readable
  BY <1>1, <1>2 DEF TypeInv, ReqShape
<1> QED
  BY <1>1, <1>2, <1>3, <1>4, <1>5

LEMMA TypeTransactSkip == ASSUME TypeInv, TransactSkip PROVE TypeInv'
<1>1. Applying
  BY DEF TransactSkip
<1>2. req' \in Request /\ req' = [req EXCEPT !.i = req.i + 1]
  BY DEF TransactSkip, TypeInv, Request
<1>3. /\ req'.kind = req.kind /\ req'.step = req.step /\ req'.acts = req.acts
      /\ req'.snaps = req.snaps /\ req'.base = req.base /\ req'.i = req.i + 1
  BY <1>2 DEF TypeInv, Request
<1>4. ReqShape'
  BY <1>1, <1>3, ApplyingParts DEF TransactSkip, TypeInv, ReqShape
<1>5. Written'
  <2>1. req.acts[req.i].kind = "check" /\ UNCHANGED items /\ req.i \in Nat
    BY DEF TransactSkip, TypeInv, Request
  <2>2. Written /\ req.kind = "transact" /\ req.step # "rollback" /\ Len(req.acts) \in Nat
    BY <1>1, ApplyingParts DEF TypeInv
  <2> QED
    BY <1>3, <2>1, <2>2 DEF Written
<1> QED
  BY <1>2, <1>4, <1>5 DEF TransactSkip, NoRecord, TypeInv

LEMMA TypeTransactApply == ASSUME TypeInv, TransactApply PROVE TypeInv'
<1> DEFINE act == req.acts[req.i]
           k == act.key
           new == Result(act, items[k])
           s == [key |-> k, content |-> items[k]]
<1>0. Applying /\ act.kind # "check"
  BY DEF TransactApply
<1>1. /\ req.kind = "transact" /\ req.step = "apply"
      /\ req.i \in 1..Len(req.acts) /\ req.acts \in Seq(Action) /\ req.snaps \in Seq(Snapshot)
      /\ act \in Action /\ k \in Keys /\ items[k] \in Readable
  BY <1>0, ApplyingParts
<1>2. new \in Readable
  BY <1>0, <1>1, ResultReadable
<1>3. CASE req' = [req EXCEPT !.step = "rollback"] /\ items' \in [Keys -> File]
  <2>1. req' \in Request
    BY <1>3 DEF TypeInv, Request
  <2>2. /\ req'.kind = req.kind /\ req'.step = "rollback" /\ req'.acts = req.acts
        /\ req'.snaps = req.snaps /\ req'.base = req.base /\ req'.i = req.i
    BY <1>3 DEF TypeInv, Request
  <2>3. ReqShape'
    BY <1>1, <2>2 DEF ReqShape, TypeInv
  <2>4. Written'
    BY <1>1, <2>2 DEF Written, TypeInv
  <2> QED
    BY <1>3, <2>1, <2>3, <2>4 DEF TypeInv, TransactApply, NoRecord
<1>4. ASSUME NEW o \in Outcomes(items[k], new), items' = [items EXCEPT ![k] = o.file], o.ok,
             req' = [req EXCEPT !.i = @ + 1, !.snaps = Append(@, s)]
      PROVE  TypeInv'
  <2>1. o.file = new /\ items' \in [Keys -> File]
    <3>1. items[k] \in File /\ new \in File
      BY <1>1, <1>2 DEF File, Readable
    <3>2. o.file = new
      BY <1>2, <1>4, <3>1, OutcomeParts
    <3> QED
      BY <1>4, <3>1, <3>2 DEF TypeInv
  <2>2. s \in Snapshot /\ Append(req.snaps, s) \in Seq(Snapshot)
    BY <1>1 DEF Snapshot, Readable
  <2> HIDE DEF s
  <2>3. req \in Request /\ req.i + 1 \in Nat
    BY DEF TypeInv, Request
  <2>4. /\ req' \in Request
        /\ req'.kind = req.kind /\ req'.step = req.step /\ req'.acts = req.acts
        /\ req'.snaps = Append(req.snaps, s) /\ req'.base = req.base /\ req'.i = req.i + 1
    <3>1. Advanced(req, req', req.step, req.i + 1, Append(req.snaps, s))
      BY <1>4, <2>2, <2>3, Advance
    <3> QED
      BY <3>1 DEF Advanced
  <2>5. \A n \in 1..Len(req'.snaps) :
           \E j \in 1..Len(req.acts) : req'.snaps[n].key = req.acts[j].key
    <3>1. \A n \in 1..Len(req.snaps) :
             \E j \in 1..Len(req.acts) : req.snaps[n].key = req.acts[j].key
      BY <1>1 DEF TypeInv, ReqShape
    <3> QED
      BY <1>1, <2>2, <2>4, <3>1 DEF s
  <2>6. \A j \in 1..Len(req.acts) : items'[req.acts[j].key] \in Readable
    BY <1>1, <1>2, <1>4, <2>1 DEF TypeInv, ReqShape
  <2>7. ReqShape'
    <3>1. req.base \in [Keys -> File] /\ req.i + 1 \in 1..(Len(req.acts) + 1)
      BY <1>1 DEF TypeInv, ReqShape
    <3> QED
      BY <1>1, <2>4, <2>5, <2>6, <3>1 DEF ReqShape
  <2>8. Written'
    <3>1. Written /\ Len(req.acts) \in Nat /\ req.i \in Nat
      BY <1>1 DEF TypeInv
    <3>2. act.kind \in {"put", "delete"} => new = act.arg
      BY <1>1, ResultOfWrite
    <3>3. \A j \in 1..Len(req.acts) :
             j < req.i + 1 /\ req.acts[j].kind \in {"put", "delete"} =>
                 items'[req.acts[j].key] = req.acts[j].arg
      <4> SUFFICES ASSUME NEW j \in 1..Len(req.acts), j < req.i + 1,
                          req.acts[j].kind \in {"put", "delete"}
                   PROVE  items'[req.acts[j].key] = req.acts[j].arg
        OBVIOUS
      <4>1. CASE j = req.i
        BY <1>1, <1>4, <2>1, <3>2, <4>1 DEF TypeInv
      <4>2. CASE j < req.i
        <5>1. items[req.acts[j].key] = req.acts[j].arg /\ req.acts[j].key # k
          BY <1>1, <3>1, <4>2 DEF Written
        <5>2. req.acts[j].key \in Keys
          BY <1>1, ActionParts
        <5> QED
          BY <1>4, <5>1, <5>2 DEF TypeInv
      <4> QED
        BY <3>1, <4>1, <4>2
    <3> QED
      BY <1>1, <2>4, <3>1, <3>3 DEF Written
  <2> QED
    BY <2>1, <2>4, <2>7, <2>8 DEF TypeInv, TransactApply, NoRecord
<1>5. ASSUME NEW o \in Outcomes(items[k], new), items' = [items EXCEPT ![k] = o.file]
      PROVE  items' \in [Keys -> File]
  <2>1. o.file \in File
    BY <1>1, <1>2, OutcomeParts DEF TypeInv
  <2> QED
    BY <1>5, <2>1 DEF TypeInv
<1>6. CASE Invalid(act, items[k]) /\ req' = [req EXCEPT !.step = "rollback"] /\ UNCHANGED items
  BY <1>3, <1>6 DEF TypeInv
<1> QED
  BY <1>3, <1>4, <1>5, <1>6 DEF TransactApply

\* The snapshots without the last one, and without the first one.
LEMMA Shorter ==
    ASSUME NEW q \in Seq(Snapshot), q # << >>
    PROVE  /\ Len(q) \in Nat /\ Len(q) >= 1
           /\ q[Len(q)] \in Snapshot /\ q[1] \in Snapshot /\ Head(q) = q[1]
           /\ SubSeq(q, 1, Len(q) - 1) \in Seq(Snapshot)
           /\ Len(SubSeq(q, 1, Len(q) - 1)) = Len(q) - 1
           /\ \A n \in 1..(Len(q) - 1) : SubSeq(q, 1, Len(q) - 1)[n] = q[n]
           /\ Tail(q) \in Seq(Snapshot)
           /\ Len(Tail(q)) = Len(q) - 1
           /\ \A n \in 1..(Len(q) - 1) : Tail(q)[n] = q[n + 1]
<1>1. Len(q) \in Nat /\ Len(q) >= 1
  OBVIOUS
<1>2. q[Len(q)] \in Snapshot /\ q[1] \in Snapshot /\ Head(q) = q[1]
  BY <1>1
<1>3. /\ SubSeq(q, 1, Len(q) - 1) \in Seq(Snapshot)
      /\ Len(SubSeq(q, 1, Len(q) - 1)) = Len(q) - 1
      /\ \A n \in 1..(Len(q) - 1) : SubSeq(q, 1, Len(q) - 1)[n] = q[n]
  BY <1>1
<1>4. Tail(q) \in Seq(Snapshot) /\ Len(Tail(q)) = Len(q) - 1
      /\ \A n \in 1..(Len(q) - 1) : Tail(q)[n] = q[n + 1]
  BY <1>1
<1> QED
  BY <1>1, <1>2, <1>3, <1>4

LEMMA TypeTransactRollback == ASSUME TypeInv, TransactRollback PROVE TypeInv'
<1> DEFINE n == Len(req.snaps)
           k == req.snaps[n].key
           old == req.snaps[n].content
<1>1. req \in Request /\ req.snaps \in Seq(Snapshot) /\ req.snaps # << >> /\ req.i \in Nat
      /\ req.kind = "transact" /\ req.step = "rollback"
  BY DEF TypeInv, ReqShape, Request, TransactRollback, Idle
<1>2. n \in Nat /\ n >= 1 /\ k \in Keys /\ old \in Readable
  BY <1>1, Shorter DEF Snapshot, Readable
<1>3. PICK o \in Outcomes(items[k], old) :
          /\ items' = [items EXCEPT ![k] = o.file]
          /\ req' = [req EXCEPT !.snaps = SubSeq(@, 1, n - 1)]
  BY DEF TransactRollback
<1>4. items' \in [Keys -> File]
  <2>1. o.file \in File
    BY <1>2, OutcomeParts DEF TypeInv
  <2> QED
    BY <1>3, <2>1 DEF TypeInv
<1>5. Advanced(req, req', req.step, req.i, SubSeq(req.snaps, 1, n - 1))
  BY <1>1, <1>3, Shorter, Advance
<1>6. ReqShape'
  <2>1. \A s \in 1..Len(req'.snaps) :
           \E j \in 1..Len(req.acts) : req'.snaps[s].key = req.acts[j].key
    <3> SUFFICES ASSUME NEW s \in 1..Len(req'.snaps)
                 PROVE  \E j \in 1..Len(req.acts) : req'.snaps[s].key = req.acts[j].key
      OBVIOUS
    <3>1. s \in 1..n /\ req'.snaps[s] = req.snaps[s]
      BY <1>1, <1>5, Shorter DEF Advanced
    <3> QED
      BY <1>1, <3>1 DEF TypeInv, ReqShape
  <2> QED
    BY <1>1, <1>5, <2>1 DEF ReqShape, Advanced, TypeInv
<1>7. Written'
  BY <1>1, <1>5 DEF Written, Advanced, TypeInv
<1> QED
  BY <1>4, <1>5, <1>6, <1>7 DEF TypeInv, Advanced, TransactRollback, NoRecord

LEMMA TypeTransactFail == ASSUME TypeInv, TransactFail PROVE TypeInv'
BY TypeFinish DEF TransactFail, Finish, NoRecord, TypeInv

LEMMA TypeTransactCommit == ASSUME TypeInv, TransactCommit PROVE TypeInv'
BY TypeFinish DEF TransactCommit, Finish, NoRecord, TypeInv

\* The snapshot whose record is next, and its item.
LEMMA EmitParts ==
    ASSUME TypeInv, TransactEmit
    PROVE  /\ req \in Request /\ req.kind = "transact" /\ req.step \in {"apply", "emit"}
           /\ req.i = Len(req.acts) + 1
           /\ req.snaps \in Seq(Snapshot) /\ req.snaps # << >>
           /\ Head(req.snaps) = req.snaps[1]
           /\ req.snaps[1].key \in Keys /\ items[req.snaps[1].key] \in Readable
           /\ Advanced(req, req', "emit", req.i, Tail(req.snaps))
<1>1. req \in Request /\ req.kind = "transact" /\ req.step \in {"apply", "emit"}
      /\ req.snaps \in Seq(Snapshot) /\ req.snaps # << >> /\ req.acts \in Seq(Action)
  BY DEF TypeInv, Request, TransactEmit
<1>2. req.i = Len(req.acts) + 1
  <2>1. req.i > Len(req.acts) /\ Len(req.acts) \in Nat
    BY <1>1 DEF TransactEmit
  <2>2. req.i \in 1..(Len(req.acts) + 1)
    BY <1>1 DEF TypeInv, ReqShape
  <2> QED
    BY <2>1, <2>2
<1>3. Head(req.snaps) = req.snaps[1] /\ req.snaps[1].key \in Keys /\ 1 \in 1..Len(req.snaps)
  <2>1. Len(req.snaps) \in Nat /\ Len(req.snaps) >= 1
    BY <1>1, Shorter
  <2>2. Head(req.snaps) = req.snaps[1] /\ req.snaps[1] \in Snapshot
    BY <1>1, Shorter
  <2> QED
    BY <2>1, <2>2 DEF Snapshot
<1>4. items[req.snaps[1].key] \in Readable
  BY <1>1, <1>3 DEF TypeInv, ReqShape
<1>5. Advanced(req, req', "emit", req.i, Tail(req.snaps))
  <2>1. Tail(req.snaps) \in Seq(Snapshot) /\ req.i \in Nat
    BY <1>1, Shorter DEF Request
  <2> QED
    BY <1>1, <2>1, Advance DEF TransactEmit
<1> QED
  BY <1>1, <1>2, <1>3, <1>4, <1>5

\* The new image of the record is what is stored, whether it was read back or not.
LEMMA EmitsStored ==
    ASSUME TypeInv, TransactEmit
    PROVE  EmitChange(req.snaps[1].key, req.snaps[1].content, items[req.snaps[1].key])
<1>1. PICK j \in 1..Len(req.acts) :
          /\ req.acts[j].key = req.snaps[1].key /\ req.acts[j].kind # "check"
          /\ EmitChange(req.snaps[1].key, req.snaps[1].content,
                IF req.acts[j].kind = "update" THEN items[req.snaps[1].key] ELSE req.acts[j].arg)
  BY EmitParts DEF TransactEmit
<1>2. CASE req.acts[j].kind = "update"
  BY <1>1, <1>2
<1>3. CASE req.acts[j].kind # "update"
  <2>1. req.acts \in Seq(Action) /\ j < req.i
    BY EmitParts DEF TypeInv, Request
  <2>2. req.acts[j].kind \in {"put", "delete"}
    BY <1>1, <1>3, <2>1, ActionParts
  <2>3. items[req.acts[j].key] = req.acts[j].arg
    BY <2>1, <2>2, EmitParts DEF TypeInv, Written
  <2> QED
    BY <1>1, <1>3, <2>3
<1> QED
  BY <1>2, <1>3

LEMMA TypeTransactEmit == ASSUME TypeInv, TransactEmit PROVE TypeInv'
<1> DEFINE s == req.snaps[1]
<1>1. replica' \in [Keys -> Readable] /\ doubt' \subseteq Streamed
  BY EmitParts, EmitsStored, TypeEmit
<1>2. ReqShape'
  <2>1. \A n \in 1..Len(req'.snaps) :
           \E j \in 1..Len(req.acts) : req'.snaps[n].key = req.acts[j].key
    <3> SUFFICES ASSUME NEW n \in 1..Len(req'.snaps)
                 PROVE  \E j \in 1..Len(req.acts) : req'.snaps[n].key = req.acts[j].key
      OBVIOUS
    <3>1. n + 1 \in 1..Len(req.snaps) /\ req'.snaps[n] = req.snaps[n + 1]
      <4>1. /\ req'.snaps = Tail(req.snaps) /\ Len(Tail(req.snaps)) = Len(req.snaps) - 1
            /\ Len(req.snaps) \in Nat
            /\ \A x \in 1..(Len(req.snaps) - 1) : Tail(req.snaps)[x] = req.snaps[x + 1]
        BY EmitParts, Shorter DEF Advanced
      <4> QED
        BY <4>1
    <3> QED
      BY <3>1, EmitParts DEF TypeInv, ReqShape
  <2>2. req.acts \in Seq(Action) /\ UNCHANGED items
    BY DEF TypeInv, Request, TransactEmit
  <2> QED
    BY <2>1, <2>2, EmitParts DEF ReqShape, Advanced, TypeInv
<1>3. Written'
  BY EmitParts DEF TypeInv, Advanced, TransactEmit, Written
<1> QED
  BY <1>1, <1>2, <1>3, EmitParts DEF TypeInv, Advanced, TransactEmit

\* A file that is being written is one of the request's.
LEMMA BeingWrittenParts ==
    ASSUME TypeInv, NEW k \in BeingWritten
    PROVE  k \in Keys /\ \E j \in 1..Len(req.acts) : req.acts[j].key = k
<1>1. req.acts \in Seq(Action) /\ req.snaps \in Seq(Snapshot)
  BY DEF TypeInv, Request
<1>2. CASE req.i \in 1..Len(req.acts) /\ k = req.acts[req.i].key
  BY <1>1, <1>2, ActionParts
<1>3. CASE req.step = "rollback" /\ req.snaps # << >> /\ k = req.snaps[Len(req.snaps)].key
  <2>1. Len(req.snaps) \in 1..Len(req.snaps) /\ k \in Keys
    <3>1. Len(req.snaps) \in Nat /\ Len(req.snaps) >= 1 /\ req.snaps[Len(req.snaps)] \in Snapshot
      BY <1>1, <1>3, Shorter
    <3> QED
      BY <1>3, <3>1 DEF Snapshot
  <2>2. req.kind = "transact"
    BY <1>3 DEF TypeInv, ReqShape, Idle, Request
  <2> QED
    BY <1>3, <2>1, <2>2 DEF TypeInv, ReqShape
<1> QED
  BY <1>2, <1>3 DEF BeingWritten

LEMMA TypeKill == ASSUME TypeInv, Kill PROVE TypeInv'
<1>1. items' \in [Keys -> File]
  BY BeingWrittenParts DEF Kill, TypeInv, File
<1>2. replica' \in [Keys -> Readable] /\ doubt' \subseteq Streamed
  BY DEF Kill, TypeInv
<1> QED
  BY <1>1, <1>2, TypeFinish DEF Kill, Finish

LEMMA TypeStep == ASSUME TypeInv, [Next]_vars PROVE TypeInv'
<1>1. CASE OneItem
  BY <1>1, TypeOneItem
<1>2. CASE Refuse
  BY <1>2, TypeRefuse
<1>3. CASE Batch
  BY <1>3, TypeBatchBegin, TypeBatchStep DEF Batch
<1>4. CASE Transact
  BY <1>4, TypeTransactBegin, TypeTransactSkip, TypeTransactApply, TypeTransactRollback,
     TypeTransactFail, TypeTransactEmit, TypeTransactCommit DEF Transact
<1>5. CASE Kill
  BY <1>5, TypeKill
<1>6. CASE UNCHANGED vars
  BY <1>6 DEF vars, TypeInv, ReqShape, Written
<1> QED
  BY <1>1, <1>2, <1>3, <1>4, <1>5, <1>6 DEF Next

-----------------------------------------------------------------------------
(* Records are about what is on disk. *)

LEMMA PhantomWriteOne ==
    ASSUME TypeInv, NEW k \in Keys, NEW old, NEW new \in Readable, WriteOne(k, old, new),
           rec' # NoRec
    PROVE  items'[rec'.key] = rec'.new
<1>1. PICK o \in Outcomes(items[k], new) :
          /\ items' = [items EXCEPT ![k] = o.file]
          /\ IF o.ok THEN EmitChange(k, old, new) ELSE NoRecord
  BY DEF WriteOne
<1>2. o.ok
  BY <1>1 DEF NoRecord
<1>3. o.file = new
  BY <1>2, OutcomeParts DEF TypeInv
<1>4. rec'.key = k /\ rec'.new = new
  BY <1>1, <1>2 DEF EmitChange, Emit, NoRecord
<1> QED
  BY <1>1, <1>3, <1>4 DEF TypeInv

LEMMA PhantomBatchStep ==
    ASSUME TypeInv, BatchStep, rec' # NoRec
    PROVE  items'[rec'.key] = rec'.new
<1> DEFINE act == req.acts[req.i]
           k == act.key
           new == Result(act, items[k])
<1>1. act \in Action
  BY DEF TypeInv, ReqShape, BatchStep, Request
<1>2. k \in Keys /\ new \in Readable
  BY <1>1, ActionParts, ResultReadable DEF TypeInv, ReqShape, BatchStep
<1>3. PICK o \in Outcomes(items[k], new) :
          /\ items' = [items EXCEPT ![k] = o.file]
          /\ IF o.ok THEN EmitChange(k, items[k], new) ELSE NoRecord
  BY DEF BatchStep, NoRecord
<1>4. o.ok
  BY <1>3 DEF NoRecord
<1>5. o.file = new
  BY <1>2, <1>4, OutcomeParts DEF TypeInv
<1>6. rec'.key = k /\ rec'.new = new
  BY <1>3, <1>4 DEF EmitChange, Emit, NoRecord
<1> QED
  BY <1>2, <1>3, <1>5, <1>6 DEF TypeInv

\* emitStreamRecord is only reached when the write has succeeded, and the records of a
\* transaction when all of its writes have: whichever calls fail, also those of a rollback,
\* and whenever the process is killed, no record tells of a change that is not on disk.
THEOREM RecordsAreOnDisk == Spec => NoPhantomRecord
<1>1. TypeInv /\ [Next]_vars => [rec' # NoRec => items'[rec'.key] = rec'.new]_vars
  <2> SUFFICES ASSUME TypeInv, Next, rec' # NoRec
               PROVE  items'[rec'.key] = rec'.new
    OBVIOUS
  <2>1. CASE OneItem
    <3>1. PICK k \in Keys, cond \in Conditions :
              \/ \E item \in Vals : PutItem(k, item, cond)
              \/ DeleteItem(k, cond)
              \/ \E upd \in Updates : UpdateItem(k, upd, cond)
      BY <2>1 DEF OneItem
    <3>2. Absent \in Readable /\ (\A item \in Vals : item \in Readable)
          /\ \A upd \in Updates : upd.val \in Readable
      BY DEF Readable, Item, Updates
    <3>3. ASSUME NEW item \in Vals, PutItem(k, item, cond)
          PROVE  items'[rec'.key] = rec'.new
      BY <3>2, <3>3, PhantomWriteOne DEF PutItem
    <3>4. CASE DeleteItem(k, cond)
      BY <3>2, <3>4, PhantomWriteOne DEF DeleteItem
    <3>5. ASSUME NEW upd \in Updates, UpdateItem(k, upd, cond)
          PROVE  items'[rec'.key] = rec'.new
      BY <3>2, <3>5, PhantomWriteOne DEF UpdateItem
    <3> QED
      BY <3>1, <3>3, <3>4, <3>5
  <2>2. CASE Refuse
    BY <2>2 DEF Refuse, NoRecord
  <2>3. CASE Batch
    BY <2>3, PhantomBatchStep DEF Batch, BatchBegin, NoRecord
  <2>4. CASE TransactEmit
    <3>1. EmitChange(req.snaps[1].key, req.snaps[1].content, items[req.snaps[1].key]) /\ UNCHANGED items
      BY <2>4, EmitsStored DEF TransactEmit
    <3> QED
      BY <3>1 DEF EmitChange, Emit, NoRecord
  <2>5. CASE Transact /\ ~TransactEmit
    BY <2>5 DEF Transact, TransactBegin, TransactSkip, TransactApply, TransactRollback,
                TransactFail, TransactCommit, NoRecord
  <2>6. CASE Kill
    BY <2>6 DEF Kill
  <2> QED
    BY <2>1, <2>2, <2>3, <2>4, <2>5, <2>6 DEF Next
<1> QED
  BY TypeInit, TypeStep, <1>1, PTL DEF Spec, NoPhantomRecord

-----------------------------------------------------------------------------
(* The snapshots of a transaction are enough to undo it, and tell where it is. *)

\* No call fails half way, and none of a rollback fails.
Mild == Faults \subseteq {"open", "remove"} /\ ~DoubleFaults

\* Request r has a snapshot of item k.
Snapped(r, k) == \E s \in 1..Len(r.snaps) : r.snaps[s].key = k

\* Which items have a snapshot: some of those that were written before the action r.i,
\* in the order of their actions, each with what it was at the beginning.
SnapsInOrder(r) ==
    /\ \A a, b \in 1..Len(r.acts) : a # b => r.acts[a].key # r.acts[b].key
    /\ \A a \in 1..Len(r.acts) :
          Snapped(r, r.acts[a].key) => a < r.i /\ r.acts[a].kind # "check"
    /\ \A s \in 1..Len(r.snaps) : r.snaps[s].content = r.base[r.snaps[s].key]
    /\ \A s, t \in 1..Len(r.snaps), a, b \in 1..Len(r.acts) :
          (s < t /\ r.snaps[s].key = r.acts[a].key /\ r.snaps[t].key = r.acts[b].key) => a < b

\* Until the transaction is decided the items with a snapshot are the ones that have been
\* written to the files f, and they are those of the first actions.
WrittenAreSnapped(r, f) ==
    /\ \A k \in Keys : ~Snapped(r, k) => f[k] = r.base[k]
    /\ \A a \in 1..Len(r.acts) :
          Snapped(r, r.acts[a].key) => f[r.acts[a].key] = Result(r.acts[a], r.base[r.acts[a].key])
    /\ \A a, b \in 1..Len(r.acts) :
          (a < b /\ Snapped(r, r.acts[b].key) /\ r.acts[a].kind # "check")
             => Snapped(r, r.acts[a].key)
    /\ r.step = "apply" =>
          \A a \in 1..Len(r.acts) :
             a < r.i /\ r.acts[a].kind # "check" => Snapped(r, r.acts[a].key)

Undo ==
    req.kind = "transact" =>
        /\ SnapsInOrder(req)
        /\ Undecided => WrittenAreSnapped(req, items)
        /\ ~Undecided => items = Effect(req.base, req.acts)

\* What the stream has said of an item is what the item is, or was when the transaction
\* whose records are still to come began.
Sent ==
    \A k \in Streamed \ doubt :
        /\ ~Snapped(req, k) => replica[k] = items[k]
        /\ \A s \in 1..Len(req.snaps) : req.snaps[s].key = k => replica[k] = req.snaps[s].content

\* Effect, item by item.
LEMMA EffectAt ==
    ASSUME NEW db \in [Keys -> File], NEW acts \in Seq(Action),
           \A a, b \in 1..Len(acts) : a # b => acts[a].key # acts[b].key
    PROVE  /\ \A a \in 1..Len(acts) :
                 Effect(db, acts)[acts[a].key] = Result(acts[a], db[acts[a].key])
           /\ \A k \in Keys : (\A a \in 1..Len(acts) : acts[a].key # k) => Effect(db, acts)[k] = db[k]
           /\ DOMAIN Effect(db, acts) = Keys
           /\ Effect(db, acts) = [k \in Keys |-> Effect(db, acts)[k]]
<1> DEFINE Mine(k) == {i \in DOMAIN acts : acts[i].key = k}
<1>1. DOMAIN acts = 1..Len(acts)
  OBVIOUS
<1>2. ASSUME NEW a \in 1..Len(acts)
      PROVE  Effect(db, acts)[acts[a].key] = Result(acts[a], db[acts[a].key])
  <2>1. acts[a].key \in Keys
    BY ActionParts
  <2>2. Mine(acts[a].key) = {a}
    BY <1>1
  <2>3. (CHOOSE i \in Mine(acts[a].key) : TRUE) = a
    BY <2>2
  <2> QED
    BY <2>1, <2>2, <2>3 DEF Effect
<1>3. ASSUME NEW k \in Keys, \A a \in 1..Len(acts) : acts[a].key # k
      PROVE  Effect(db, acts)[k] = db[k]
  <2>1. Mine(k) = {}
    BY <1>1, <1>3
  <2> QED
    BY <2>1 DEF Effect
<1>4. DOMAIN Effect(db, acts) = Keys /\ Effect(db, acts) = [k \in Keys |-> Effect(db, acts)[k]]
  BY DEF Effect
<1> QED
  BY <1>2, <1>3, <1>4

\* Items on which every action has had its result are the effect of all of them.
LEMMA AllApplied ==
    ASSUME NEW db \in [Keys -> File], NEW acts \in Seq(Action), NEW cur \in [Keys -> File],
           \A a, b \in 1..Len(acts) : a # b => acts[a].key # acts[b].key,
           \A a \in 1..Len(acts) : cur[acts[a].key] = Result(acts[a], db[acts[a].key]),
           \A k \in Keys : (\A a \in 1..Len(acts) : acts[a].key # k) => cur[k] = db[k]
    PROVE  cur = Effect(db, acts)
<1>1. ASSUME NEW k \in Keys
      PROVE  cur[k] = Effect(db, acts)[k]
  <2>1. CASE \A a \in 1..Len(acts) : acts[a].key # k
    BY <2>1, EffectAt
  <2>2. ASSUME NEW a \in 1..Len(acts), acts[a].key = k
        PROVE  cur[k] = Effect(db, acts)[k]
    BY <2>2, EffectAt
  <2> QED
    BY <2>1, <2>2
<1> QED
  BY <1>1, EffectAt

\* Once the last action has been applied the transaction is decided.
LEMMA Decided ==
    ASSUME NEW r \in Request, r.base \in [Keys -> File], NEW f \in [Keys -> File],
           SnapsInOrder(r), WrittenAreSnapped(r, f), r.step = "apply",
           r.i = Len(r.acts) + 1,
           \A s \in 1..Len(r.snaps) : \E j \in 1..Len(r.acts) : r.snaps[s].key = r.acts[j].key
    PROVE  f = Effect(r.base, r.acts)
<1>1. r.acts \in Seq(Action) /\ r.snaps \in Seq(Snapshot) /\ Len(r.acts) \in Nat
  BY DEF Request
<1>2. ASSUME NEW a \in 1..Len(r.acts)
      PROVE  f[r.acts[a].key] = Result(r.acts[a], r.base[r.acts[a].key])
  <2>1. r.acts[a] \in Action /\ r.acts[a].key \in Keys
    BY <1>1, ActionParts
  <2>2. CASE r.acts[a].kind = "check"
    BY <2>1, <2>2, ResultReadable DEF SnapsInOrder, WrittenAreSnapped
  <2>3. CASE r.acts[a].kind # "check"
    BY <1>1, <2>3 DEF WrittenAreSnapped
  <2> QED
    BY <2>2, <2>3
<1>3. ASSUME NEW k \in Keys, \A a \in 1..Len(r.acts) : r.acts[a].key # k
      PROVE  f[k] = r.base[k]
  <2>1. ~Snapped(r, k)
    BY <1>3 DEF Snapped
  <2> QED
    BY <2>1 DEF WrittenAreSnapped
<1>4. \A a, b \in 1..Len(r.acts) : a # b => r.acts[a].key # r.acts[b].key
  BY DEF SnapsInOrder
<1> QED
  BY <1>1, <1>2, <1>3, <1>4, AllApplied

LEMMA UndoTransactBegin ==
    ASSUME TypeInv, NEW acts \in Transactions, TransactBegin(acts)
    PROVE  Undo'
<1>1. acts \in Seq(Action) /\ Len(acts) \in Nat /\ Len(acts) >= 1
  BY Requested
<1>2. /\ req'.kind = "transact" /\ req'.step = "apply" /\ req'.acts = acts
      /\ req'.snaps = << >> /\ req'.base = items /\ req'.i = 1 /\ items' = items
  BY DEF TransactBegin, Idle
<1>3. Len(req'.snaps) = 0 /\ \A k : ~Snapped(req', k)
  BY <1>2 DEF Snapped
<1>4. Undecided'
  BY <1>1, <1>2 DEF Undecided
<1>5. SnapsInOrder(req')
  BY <1>2, <1>3 DEF SnapsInOrder, TransactBegin
<1>6. WrittenAreSnapped(req', items')
  BY <1>2, <1>3 DEF WrittenAreSnapped
<1> QED
  BY <1>4, <1>5, <1>6 DEF Undo

LEMMA UndoTransactSkip == ASSUME TypeInv, TypeInv', Undo, TransactSkip PROVE Undo'
<1>1. /\ req.kind = "transact" /\ req.step = "apply" /\ req.i \in 1..Len(req.acts)
      /\ req.acts[req.i].kind = "check" /\ Len(req.acts) \in Nat
  BY ApplyingParts DEF TransactSkip
<1>2. Advanced(req, req', req.step, req.i + 1, req.snaps) /\ items' = items
  <2>1. req \in Request /\ req.i + 1 \in Nat /\ req.snaps \in Seq(Snapshot)
    BY DEF TypeInv, Request
  <2> QED
    BY <2>1, Advance DEF TransactSkip
<1>3. \A k : Snapped(req', k) <=> Snapped(req, k)
  BY <1>2 DEF Snapped, Advanced
<1>4. Undecided /\ SnapsInOrder(req) /\ WrittenAreSnapped(req, items)
  BY <1>1 DEF Undo, Undecided
<1>5. SnapsInOrder(req')
  BY <1>1, <1>2, <1>3, <1>4 DEF SnapsInOrder, Advanced
<1>6. WrittenAreSnapped(req', items')
  BY <1>1, <1>2, <1>3, <1>4 DEF WrittenAreSnapped, Advanced
<1>7. CASE Undecided'
  BY <1>5, <1>6, <1>7 DEF Undo
<1>8. CASE ~Undecided'
  <2>1. req'.kind = "transact" /\ req'.step = "apply" /\ req'.i = Len(req'.acts) + 1
    BY <1>1, <1>2, <1>8 DEF Undecided, Advanced
  <2>2. items' = Effect(req'.base, req'.acts)
    BY <1>5, <1>6, <2>1, Decided DEF TypeInv, ReqShape
  <2> QED
    BY <1>5, <1>8, <2>2 DEF Undo
<1> QED
  BY <1>7, <1>8

\* The action that a transaction has come to has no snapshot yet.
LEMMA NotYetSnapped ==
    ASSUME TypeInv, Undo, Applying
    PROVE  /\ Undecided /\ SnapsInOrder(req) /\ WrittenAreSnapped(req, items)
           /\ ~Snapped(req, req.acts[req.i].key)
           /\ items[req.acts[req.i].key] = req.base[req.acts[req.i].key]
<1>1. Undecided /\ SnapsInOrder(req) /\ WrittenAreSnapped(req, items)
  BY ApplyingParts DEF Undo, Undecided
<1>2. ~Snapped(req, req.acts[req.i].key)
  BY <1>1, ApplyingParts DEF SnapsInOrder
<1> QED
  BY <1>1, <1>2, ApplyingParts DEF WrittenAreSnapped

\* What becomes of the action that a transaction has come to: it is applied, or it fails
\* and leaves its item alone.
LEMMA ApplyCases ==
    ASSUME Mild, TypeInv, TransactApply
    PROVE  LET act == req.acts[req.i]
               k == act.key
           IN  \/ /\ Advanced(req, req', "rollback", req.i, req.snaps)
                  /\ items' = items
               \/ /\ Advanced(req, req', "apply", req.i + 1,
                              Append(req.snaps, [key |-> k, content |-> items[k]]))
                  /\ items' = [items EXCEPT ![k] = Result(act, items[k])]
<1> DEFINE act == req.acts[req.i]
           k == act.key
           s == [key |-> k, content |-> items[k]]
           new == Result(act, items[k])
<1>1. Applying /\ act.kind # "check"
  BY DEF TransactApply
<1>2. req \in Request /\ req.i \in Nat /\ req.i + 1 \in Nat /\ req.snaps \in Seq(Snapshot)
      /\ req.step = "apply" /\ act \in Action /\ k \in Keys /\ items[k] \in Readable
  BY <1>1, ApplyingParts DEF TypeInv, Request
<1>3. new \in Readable /\ items[k] \in File
  BY <1>1, <1>2, ResultReadable DEF File, Readable
<1>4. s \in Snapshot /\ Append(req.snaps, s) \in Seq(Snapshot)
  BY <1>2 DEF Snapshot, Readable
<1>5. CASE req' = [req EXCEPT !.step = "rollback"] /\ items' = items
  BY <1>2, <1>5, Advance
<1>6. ASSUME NEW o \in Outcomes(items[k], new), items' = [items EXCEPT ![k] = o.file],
             \/ o.ok /\ req' = [req EXCEPT !.i = @ + 1, !.snaps = Append(@, s)]
             \/ ~o.ok /\ req' = [req EXCEPT !.step = "rollback"]
      PROVE  \/ Advanced(req, req', "rollback", req.i, req.snaps) /\ items' = items
             \/ /\ Advanced(req, req', "apply", req.i + 1, Append(req.snaps, s))
                /\ items' = [items EXCEPT ![k] = new]
  <2>1. CASE o.ok /\ req' = [req EXCEPT !.i = @ + 1, !.snaps = Append(@, s)]
    <3>1. o.file = new
      BY <1>3, <2>1, OutcomeParts
    <3> HIDE DEF s
    <3>2. Advanced(req, req', req.step, req.i + 1, Append(req.snaps, s))
      BY <1>2, <1>4, <2>1, Advance
    <3> QED
      BY <1>2, <1>6, <3>1, <3>2
  <2>2. CASE ~o.ok /\ req' = [req EXCEPT !.step = "rollback"]
    <3>1. o.file = items[k]
      BY <1>3, <2>2, OutcomeParts DEF Mild
    <3>2. items' = items
      BY <1>2, <1>6, <3>1 DEF TypeInv
    <3> QED
      BY <1>2, <2>2, <3>2, Advance
  <2> QED
    BY <1>6, <2>1, <2>2
<1>7. \/ req' = [req EXCEPT !.step = "rollback"] /\ items' = items
      \/ \E o \in Outcomes(items[k], new) :
            /\ items' = [items EXCEPT ![k] = o.file]
            /\ \/ o.ok /\ req' = [req EXCEPT !.i = @ + 1, !.snaps = Append(@, s)]
               \/ ~o.ok /\ req' = [req EXCEPT !.step = "rollback"]
  BY DEF TransactApply
<1> QED
  BY <1>5, <1>6, <1>7

\* One more snapshot.
LEMMA SnappedMore ==
    ASSUME TypeInv, NEW s \in Snapshot, req'.snaps = Append(req.snaps, s)
    PROVE  /\ req.snaps \in Seq(Snapshot) /\ Len(req.snaps) \in Nat
           /\ Len(req'.snaps) = Len(req.snaps) + 1
           /\ req'.snaps[Len(req.snaps) + 1] = s
           /\ \A n \in 1..Len(req.snaps) : req'.snaps[n] = req.snaps[n]
           /\ \A x : Snapped(req', x) <=> Snapped(req, x) \/ x = s.key
<1>1. req.snaps \in Seq(Snapshot) /\ Len(req.snaps) \in Nat
  BY DEF TypeInv, Request
<1>2. Len(req'.snaps) = Len(req.snaps) + 1 /\ req'.snaps[Len(req.snaps) + 1] = s
      /\ \A n \in 1..Len(req.snaps) : req'.snaps[n] = req.snaps[n]
  BY <1>1
<1>3. ASSUME NEW x PROVE Snapped(req', x) <=> Snapped(req, x) \/ x = s.key
  BY <1>1, <1>2 DEF Snapped
<1> QED
  BY <1>1, <1>2, <1>3

LEMMA UndoTransactApply ==
    ASSUME Mild, TypeInv, TypeInv', Undo, TransactApply
    PROVE  Undo'
<1> DEFINE act == req.acts[req.i]
           k == act.key
           s == [key |-> k, content |-> items[k]]
<1>0. Applying /\ act.kind # "check"
  BY DEF TransactApply
<1>1. /\ req.kind = "transact" /\ req.step = "apply" /\ req.i \in 1..Len(req.acts)
      /\ Len(req.acts) \in Nat /\ req.acts \in Seq(Action) /\ k \in Keys /\ items[k] \in Readable
      /\ act \in Action
  BY <1>0, ApplyingParts
<1>2. Undecided /\ SnapsInOrder(req) /\ WrittenAreSnapped(req, items)
      /\ ~Snapped(req, k) /\ items[k] = req.base[k]
  BY <1>0, NotYetSnapped
<1>3. CASE Advanced(req, req', "rollback", req.i, req.snaps) /\ items' = items
  <2>1. \A x : Snapped(req', x) <=> Snapped(req, x)
    BY <1>3 DEF Snapped, Advanced
  <2>2. SnapsInOrder(req')
    BY <1>2, <1>3, <2>1 DEF SnapsInOrder, Advanced
  <2>3. WrittenAreSnapped(req', items')
    BY <1>2, <1>3, <2>1 DEF WrittenAreSnapped, Advanced
  <2>4. Undecided'
    BY <1>1, <1>3 DEF Undecided, Advanced
  <2> QED
    BY <2>2, <2>3, <2>4 DEF Undo
<1>4. CASE /\ Advanced(req, req', "apply", req.i + 1, Append(req.snaps, s))
           /\ items' = [items EXCEPT ![k] = Result(act, items[k])]
  <2>0. s \in Snapshot /\ s.key = k /\ s.content = items[k]
    BY <1>1 DEF Snapshot, Readable
  <2> HIDE DEF s
  <2>1. /\ req.snaps \in Seq(Snapshot) /\ Len(req.snaps) \in Nat
        /\ Len(req'.snaps) = Len(req.snaps) + 1
        /\ req'.snaps[Len(req.snaps) + 1] = s
        /\ \A n \in 1..Len(req.snaps) : req'.snaps[n] = req.snaps[n]
        /\ \A x : Snapped(req', x) <=> Snapped(req, x) \/ x = k
    BY <1>4, <2>0, SnappedMore DEF Advanced
  <2>2. /\ req'.kind = "transact" /\ req'.step = "apply" /\ req'.i = req.i + 1
        /\ req'.acts = req.acts /\ req'.base = req.base
    BY <1>1, <1>4 DEF Advanced
  <2>3. SnapsInOrder(req')
    <3>1. \A a, b \in 1..Len(req'.acts) : a # b => req'.acts[a].key # req'.acts[b].key
      BY <1>2, <2>2 DEF SnapsInOrder
    <3>2. ASSUME NEW a \in 1..Len(req'.acts), Snapped(req', req'.acts[a].key)
          PROVE  a < req'.i /\ req'.acts[a].kind # "check"
      <4>1. CASE a = req.i
        BY <1>0, <1>1, <2>2, <4>1
      <4>2. CASE a # req.i
        <5>1. req.acts[a].key # k
          BY <1>1, <2>2, <3>1, <4>2
        <5>2. Snapped(req, req.acts[a].key)
          BY <2>1, <2>2, <3>2, <5>1
        <5>3. a < req.i /\ req.acts[a].kind # "check"
          BY <1>2, <2>2, <5>2 DEF SnapsInOrder
        <5> QED
          BY <1>1, <2>2, <5>3
      <4> QED
        BY <4>1, <4>2
    <3>3. ASSUME NEW n \in 1..Len(req'.snaps)
          PROVE  req'.snaps[n].content = req'.base[req'.snaps[n].key]
      <4>1. CASE n \in 1..Len(req.snaps)
        BY <1>2, <2>1, <2>2, <4>1 DEF SnapsInOrder
      <4>2. CASE n = Len(req.snaps) + 1
        BY <1>2, <2>0, <2>1, <2>2, <4>2
      <4> QED
        BY <2>1, <4>1, <4>2
    <3>4. ASSUME NEW m \in 1..Len(req'.snaps), NEW n \in 1..Len(req'.snaps),
                 NEW a \in 1..Len(req'.acts), NEW b \in 1..Len(req'.acts),
                 m < n, req'.snaps[m].key = req'.acts[a].key, req'.snaps[n].key = req'.acts[b].key
          PROVE  a < b
      <4>1. m \in 1..Len(req.snaps) /\ req'.snaps[m] = req.snaps[m]
        BY <2>1, <3>4
      <4>2. CASE n \in 1..Len(req.snaps)
        <5>1. /\ n \in 1..Len(req.snaps) /\ a \in 1..Len(req.acts) /\ b \in 1..Len(req.acts)
              /\ req.snaps[m].key = req.acts[a].key /\ req.snaps[n].key = req.acts[b].key
          BY <2>1, <2>2, <3>4, <4>1, <4>2
        <5>2. SnapsInOrder(req)
          BY <1>2
        <5> QED
          BY <3>4, <4>1, <5>1, <5>2 DEF SnapsInOrder
      <4>3. CASE n = Len(req.snaps) + 1
        <5>1. b = req.i
          <6>1. req'.snaps[n].key = req'.acts[req.i].key
            BY <2>0, <2>1, <2>2, <4>3
          <6>2. req.i \in 1..Len(req'.acts)
            BY <1>1, <2>2
          <6> QED
            BY <3>1, <3>4, <6>1, <6>2
        <5>2. a < req.i
          BY <1>2, <2>2, <3>4, <4>1 DEF SnapsInOrder, Snapped
        <5> QED
          BY <5>1, <5>2
      <4> QED
        BY <2>1, <4>2, <4>3
    <3> QED
      BY <3>1, <3>2, <3>3, <3>4 DEF SnapsInOrder
  <2>4. WrittenAreSnapped(req', items')
    <3>1. \A x \in Keys : ~Snapped(req', x) => items'[x] = req'.base[x]
      BY <1>2, <1>4, <2>1, <2>2 DEF WrittenAreSnapped, TypeInv
    <3>2. ASSUME NEW a \in 1..Len(req'.acts), Snapped(req', req'.acts[a].key)
          PROVE  items'[req'.acts[a].key] = Result(req'.acts[a], req'.base[req'.acts[a].key])
      <4>1. req.acts[a].key \in Keys
        BY <1>1, <2>2, ActionParts
      <4>2. CASE a = req.i
        BY <1>1, <1>2, <1>4, <2>2, <4>2 DEF TypeInv
      <4>3. CASE a # req.i
        <5>1. req.acts[a].key # k
          BY <1>1, <1>2, <2>2, <4>3 DEF SnapsInOrder
        <5> QED
          BY <1>1, <1>2, <1>4, <2>1, <2>2, <3>2, <4>1, <5>1 DEF WrittenAreSnapped, TypeInv
      <4> QED
        BY <4>2, <4>3
    <3>3. ASSUME NEW a \in 1..Len(req'.acts), a < req'.i, req'.acts[a].kind # "check"
          PROVE  Snapped(req', req'.acts[a].key)
      BY <1>1, <1>2, <2>1, <2>2, <3>3 DEF WrittenAreSnapped
    <3>4. ASSUME NEW a \in 1..Len(req'.acts), NEW b \in 1..Len(req'.acts), a < b,
                 Snapped(req', req'.acts[b].key), req'.acts[a].kind # "check"
          PROVE  Snapped(req', req'.acts[a].key)
      <4>1. b < req'.i
        BY <2>3, <3>4 DEF SnapsInOrder
      <4> QED
        BY <1>1, <2>2, <3>3, <3>4, <4>1
    <3> QED
      BY <3>1, <3>2, <3>3, <3>4 DEF WrittenAreSnapped
  <2>5. CASE Undecided'
    BY <2>3, <2>4, <2>5 DEF Undo
  <2>6. CASE ~Undecided'
    <3>1. req'.i = Len(req'.acts) + 1
      BY <1>1, <2>2, <2>6 DEF Undecided
    <3>2. items' = Effect(req'.base, req'.acts)
      BY <2>2, <2>3, <2>4, <3>1, Decided DEF TypeInv, ReqShape
    <3> QED
      BY <2>3, <2>6, <3>2 DEF Undo
  <2> QED
    BY <2>5, <2>6
<1> QED
  BY <1>3, <1>4, ApplyCases

\* rollbackLocked puts back what the last snapshot has.
LEMMA RollbackParts ==
    ASSUME Mild, TypeInv, TransactRollback
    PROVE  LET n == Len(req.snaps)
               s == req.snaps[n]
           IN  /\ n \in Nat /\ n >= 1 /\ s \in Snapshot /\ s.key \in Keys
               /\ req.kind = "transact" /\ req.step = "rollback"
               /\ Advanced(req, req', "rollback", req.i, SubSeq(req.snaps, 1, n - 1))
               /\ items' = [items EXCEPT ![s.key] = s.content]
<1> DEFINE n == Len(req.snaps)
           s == req.snaps[n]
<1>1. req \in Request /\ req.snaps \in Seq(Snapshot) /\ req.snaps # << >> /\ req.i \in Nat
      /\ req.kind = "transact" /\ req.step = "rollback"
  BY DEF TypeInv, ReqShape, Request, TransactRollback, Idle
<1>2. n \in Nat /\ n >= 1 /\ s \in Snapshot /\ s.key \in Keys /\ s.content \in Readable
      /\ SubSeq(req.snaps, 1, n - 1) \in Seq(Snapshot)
  <2>1. n \in Nat /\ n >= 1 /\ s \in Snapshot /\ SubSeq(req.snaps, 1, n - 1) \in Seq(Snapshot)
    BY <1>1, Shorter
  <2> QED
    BY <2>1 DEF Snapshot, Readable
<1>3. PICK o \in Outcomes(items[s.key], s.content) :
          /\ ~o.ok => DoubleFaults
          /\ items' = [items EXCEPT ![s.key] = o.file]
          /\ req' = [req EXCEPT !.snaps = SubSeq(@, 1, n - 1)]
  BY DEF TransactRollback
<1>4. o.file = s.content
  BY <1>2, <1>3, OutcomeParts DEF Mild, TypeInv
<1>5. Advanced(req, req', "rollback", req.i, SubSeq(req.snaps, 1, n - 1))
  BY <1>1, <1>2, <1>3, Advance
<1> QED
  BY <1>1, <1>2, <1>3, <1>4, <1>5

\* No item has two snapshots.
LEMMA SnapsDiffer ==
    ASSUME TypeInv, Undo, req.kind = "transact",
           NEW s \in 1..Len(req.snaps), NEW t \in 1..Len(req.snaps), s < t
    PROVE  req.snaps[s].key # req.snaps[t].key
<1>1. PICK a \in 1..Len(req.acts) : req.snaps[s].key = req.acts[a].key
  BY DEF TypeInv, ReqShape
<1>2. PICK b \in 1..Len(req.acts) : req.snaps[t].key = req.acts[b].key
  BY DEF TypeInv, ReqShape
<1>3. a < b
  BY <1>1, <1>2 DEF Undo, SnapsInOrder
<1> QED
  BY <1>1, <1>2, <1>3 DEF Undo, SnapsInOrder

LEMMA UndoTransactRollback ==
    ASSUME Mild, TypeInv, TypeInv', Undo, TransactRollback
    PROVE  Undo'
<1> DEFINE n == Len(req.snaps)
           k == req.snaps[n].key
<1>1. /\ n \in Nat /\ n >= 1 /\ k \in Keys
      /\ req.kind = "transact" /\ req.step = "rollback"
      /\ Advanced(req, req', "rollback", req.i, SubSeq(req.snaps, 1, n - 1))
      /\ items' = [items EXCEPT ![k] = req.snaps[n].content]
  BY RollbackParts
<1>2. SnapsInOrder(req) /\ WrittenAreSnapped(req, items)
  BY <1>1 DEF Undo, Undecided
<1>3. /\ req'.kind = "transact" /\ req'.step = "rollback" /\ req'.i = req.i
      /\ req'.acts = req.acts /\ req'.base = req.base /\ Undecided'
  BY <1>1 DEF Advanced, Undecided
<1>4. /\ Len(req'.snaps) = n - 1
      /\ \A x \in 1..(n - 1) : req'.snaps[x] = req.snaps[x]
  <2>1. req.snaps \in Seq(Snapshot) /\ req.snaps # << >>
    BY DEF TypeInv, Request, TransactRollback
  <2> QED
    BY <1>1, <2>1, Shorter DEF Advanced
<1>5. \A x : Snapped(req', x) <=> Snapped(req, x) /\ x # k
  <2> TAKE x
  <2>1. ASSUME NEW s \in 1..Len(req'.snaps), req'.snaps[s].key = x
        PROVE  Snapped(req, x) /\ x # k
    <3>1. s \in 1..n /\ s < n /\ n \in 1..n /\ req.snaps[s].key = x
      BY <1>1, <1>4, <2>1
    <3> QED
      BY <1>1, <3>1, SnapsDiffer DEF Snapped
  <2>2. ASSUME NEW s \in 1..Len(req.snaps), req.snaps[s].key = x, x # k
        PROVE  Snapped(req', x)
    <3>1. s \in 1..(n - 1)
      BY <1>1, <2>2
    <3> QED
      BY <1>4, <2>2, <3>1 DEF Snapped
  <2> QED
    BY <2>1, <2>2 DEF Snapped
<1>6. SnapsInOrder(req')
  <2>1. \A a, b \in 1..Len(req'.acts) : a # b => req'.acts[a].key # req'.acts[b].key
    BY <1>2, <1>3 DEF SnapsInOrder
  <2>2. \A a \in 1..Len(req'.acts) :
           Snapped(req', req'.acts[a].key) => a < req'.i /\ req'.acts[a].kind # "check"
    BY <1>2, <1>3, <1>5 DEF SnapsInOrder
  <2>3. \A s \in 1..Len(req'.snaps) : s \in 1..Len(req.snaps) /\ req'.snaps[s] = req.snaps[s]
    BY <1>1, <1>4
  <2>4. \A s \in 1..Len(req'.snaps) : req'.snaps[s].content = req'.base[req'.snaps[s].key]
    BY <1>2, <1>3, <2>3 DEF SnapsInOrder
  <2>5. \A s, t \in 1..Len(req'.snaps), a, b \in 1..Len(req'.acts) :
           (s < t /\ req'.snaps[s].key = req'.acts[a].key /\ req'.snaps[t].key = req'.acts[b].key)
              => a < b
    BY <1>2, <1>3, <2>3 DEF SnapsInOrder
  <2> QED
    BY <2>1, <2>2, <2>4, <2>5 DEF SnapsInOrder
<1>7. WrittenAreSnapped(req', items')
  <2>1. ASSUME NEW x \in Keys, ~Snapped(req', x)
        PROVE  items'[x] = req'.base[x]
    <3>1. CASE x = k
      <4>1. req.snaps[n].content = req.base[k]
        BY <1>1, <1>2 DEF SnapsInOrder
      <4> QED
        BY <1>1, <1>3, <3>1, <4>1 DEF TypeInv
    <3>2. CASE x # k
      BY <1>1, <1>2, <1>3, <1>5, <2>1, <3>2 DEF WrittenAreSnapped, TypeInv
    <3> QED
      BY <3>1, <3>2
  <2>2. ASSUME NEW a \in 1..Len(req'.acts), Snapped(req', req'.acts[a].key)
        PROVE  items'[req'.acts[a].key] = Result(req'.acts[a], req'.base[req'.acts[a].key])
    <3>1. req.acts[a].key \in Keys
      <4>1. req.acts \in Seq(Action)
        BY DEF TypeInv, Request
      <4> QED
        BY <1>3, <4>1, ActionParts
    <3> QED
      BY <1>1, <1>2, <1>3, <1>5, <2>2, <3>1 DEF WrittenAreSnapped, TypeInv
  <2>3. ASSUME NEW a \in 1..Len(req'.acts), NEW b \in 1..Len(req'.acts), a < b,
               Snapped(req', req'.acts[b].key), req'.acts[a].kind # "check"
        PROVE  Snapped(req', req'.acts[a].key)
    <3>1. Snapped(req, req.acts[a].key)
      BY <1>2, <1>3, <1>5, <2>3 DEF WrittenAreSnapped
    <3>2. n \in 1..n
      BY <1>1
    <3>3. PICK c \in 1..Len(req.acts) : k = req.acts[c].key
      BY <1>1, <3>2 DEF TypeInv, ReqShape
    <3>4. PICK s \in 1..(n - 1) : req.snaps[s].key = req.acts[b].key
      BY <1>3, <1>4, <2>3 DEF Snapped
    <3>5. b < c
      <4>1. s \in 1..n /\ s < n /\ b \in 1..Len(req.acts)
        BY <1>1, <1>3, <3>4
      <4> QED
        BY <1>2, <3>2, <3>3, <3>4, <4>1 DEF SnapsInOrder
    <3>6. req.acts[a].key # k
      <4>1. a # c /\ a \in 1..Len(req.acts)
        BY <1>3, <2>3, <3>5
      <4> QED
        BY <1>2, <3>3, <4>1 DEF SnapsInOrder
    <3> QED
      BY <1>3, <1>5, <3>1, <3>6
  <2> QED
    BY <1>3, <2>1, <2>2, <2>3 DEF WrittenAreSnapped
<1> QED
  BY <1>3, <1>6, <1>7 DEF Undo

LEMMA UndoTransactEmit ==
    ASSUME TypeInv, TypeInv', Undo, TransactEmit
    PROVE  Undo'
<1>1. /\ req.kind = "transact" /\ req.step # "rollback" /\ req.i = Len(req.acts) + 1
      /\ req.snaps \in Seq(Snapshot) /\ req.snaps # << >> /\ req.acts \in Seq(Action)
      /\ Advanced(req, req', "emit", req.i, Tail(req.snaps)) /\ items' = items
  BY EmitParts DEF Request, TransactEmit
<1>2. /\ req'.kind = "transact" /\ req'.step = "emit" /\ req'.i = req.i
      /\ req'.acts = req.acts /\ req'.base = req.base
  BY <1>1 DEF Advanced
<1>3. ~Undecided /\ ~Undecided' /\ SnapsInOrder(req) /\ items = Effect(req.base, req.acts)
  BY <1>1, <1>2 DEF Undo, Undecided
<1>4. \A s \in 1..Len(req'.snaps) : s + 1 \in 1..Len(req.snaps) /\ req'.snaps[s] = req.snaps[s + 1]
  <2>1. /\ req'.snaps = Tail(req.snaps) /\ Len(Tail(req.snaps)) = Len(req.snaps) - 1
        /\ Len(req.snaps) \in Nat
        /\ \A x \in 1..(Len(req.snaps) - 1) : Tail(req.snaps)[x] = req.snaps[x + 1]
    BY <1>1, Shorter DEF Advanced
  <2> QED
    BY <2>1
<1>5. \A x : Snapped(req', x) => Snapped(req, x)
  BY <1>4 DEF Snapped
<1>6. SnapsInOrder(req')
  <2>1. \A a, b \in 1..Len(req'.acts) : a # b => req'.acts[a].key # req'.acts[b].key
    BY <1>2, <1>3 DEF SnapsInOrder
  <2>2. \A a \in 1..Len(req'.acts) :
           Snapped(req', req'.acts[a].key) => a < req'.i /\ req'.acts[a].kind # "check"
    BY <1>2, <1>3, <1>5 DEF SnapsInOrder
  <2>3. \A s \in 1..Len(req'.snaps) : req'.snaps[s].content = req'.base[req'.snaps[s].key]
    BY <1>2, <1>3, <1>4 DEF SnapsInOrder
  <2>4. ASSUME NEW s \in 1..Len(req'.snaps), NEW t \in 1..Len(req'.snaps),
               NEW a \in 1..Len(req'.acts), NEW b \in 1..Len(req'.acts),
               s < t, req'.snaps[s].key = req'.acts[a].key, req'.snaps[t].key = req'.acts[b].key
        PROVE  a < b
    <3>1. /\ s + 1 \in 1..Len(req.snaps) /\ t + 1 \in 1..Len(req.snaps) /\ s + 1 < t + 1
          /\ req.snaps[s + 1].key = req.acts[a].key /\ req.snaps[t + 1].key = req.acts[b].key
          /\ a \in 1..Len(req.acts) /\ b \in 1..Len(req.acts)
      <4>1. /\ s + 1 \in 1..Len(req.snaps) /\ req'.snaps[s] = req.snaps[s + 1]
            /\ t + 1 \in 1..Len(req.snaps) /\ req'.snaps[t] = req.snaps[t + 1]
        BY <1>4
      <4>2. s + 1 < t + 1
        <5>1. Len(req'.snaps) \in Int
          BY DEF TypeInv, Request
        <5>2. s \in Int /\ t \in Int
          BY <5>1
        <5> QED
          BY <2>4, <5>2
      <4> QED
        BY <1>2, <2>4, <4>1, <4>2
    <3> QED
      BY <1>3, <3>1 DEF SnapsInOrder
  <2> QED
    BY <2>1, <2>2, <2>3, <2>4 DEF SnapsInOrder
<1> QED
  BY <1>1, <1>2, <1>3, <1>6 DEF Undo

LEMMA UndoStep ==
    ASSUME Mild, TypeInv, TypeInv', Undo, [Next]_vars
    PROVE  Undo'
<1>0. Idle.kind = "idle"
  BY DEF Idle
<1>1. CASE OneItem \/ Refuse
  <2>1. req' = req /\ req = Idle
    BY <1>1 DEF OneItem, Refuse, PutItem, DeleteItem, UpdateItem, WriteOne, Admits
  <2> QED
    BY <1>0, <2>1 DEF Undo
<1>2. CASE Batch
  <2>1. req'.kind # "transact"
    <3>1. CASE BatchStep
      <4>1. CASE req' = Idle
        BY <1>0, <4>1
      <4>2. CASE req' = [req EXCEPT !.i = @ + 1]
        BY <3>1, <4>2 DEF BatchStep, TypeInv, Request
      <4> QED
        BY <3>1, <4>1, <4>2 DEF BatchStep, Finish
    <3> QED
      BY <1>2, <3>1 DEF Batch, BatchBegin, Idle
  <2> QED
    BY <2>1 DEF Undo
<1>3. CASE TransactFail \/ TransactCommit \/ Kill
  BY <1>0, <1>3 DEF TransactFail, TransactCommit, Kill, Finish, Undo
<1>4. CASE UNCHANGED vars
  BY <1>4 DEF vars, Undo, Undecided
<1> QED
  BY <1>1, <1>2, <1>3, <1>4, UndoTransactBegin, UndoTransactSkip, UndoTransactApply,
     UndoTransactRollback, UndoTransactEmit DEF Next, Transact

LEMMA UndoInit == Init => Undo
BY DEF Init, Undo, Idle

-----------------------------------------------------------------------------
(* The stream tells what the items are. *)

\* A write that has succeeded, with its record, where no snapshot is kept.
LEMMA SentWrite ==
    ASSUME TypeInv, Sent, req.snaps = << >>, req'.snaps = << >>,
           NEW k \in Keys, NEW old, NEW new, items' = [items EXCEPT ![k] = new],
           EmitChange(k, old, new), new = Absent => (old = items[k])
    PROVE  Sent'
<1>1. \A x : ~Snapped(req, x) /\ ~Snapped(req', x)
  BY DEF Snapped
<1>2. ASSUME NEW x \in Streamed, x \notin doubt'
      PROVE  replica'[x] = items'[x]
  <2>0. x \in Keys
    BY ItemsAssumption
  <2>1. CASE Emit(k, old, new)
    BY <1>1, <1>2, <2>0, <2>1 DEF Emit, Sent, TypeInv
  <2>2. CASE NoRecord /\ k \notin Streamed
    BY <1>1, <1>2, <2>0, <2>2 DEF NoRecord, Sent, TypeInv
  <2>3. CASE NoRecord /\ old = Absent /\ new = Absent
    BY <1>1, <1>2, <2>0, <2>3 DEF NoRecord, Sent, TypeInv
  <2> QED
    BY <2>1, <2>2, <2>3 DEF EmitChange
<1>3. Len(req'.snaps) = 0
  OBVIOUS
<1> QED
  BY <1>1, <1>2, <1>3 DEF Sent

\* The end of a request, where no snapshot is left and no record was sent.
LEMMA SentQuiet ==
    ASSUME TypeInv, Sent, req.snaps = << >>, req'.snaps = << >>, NoRecord, items' = items
    PROVE  Sent'
<1>1. \A x : ~Snapped(req, x) /\ ~Snapped(req', x)
  BY DEF Snapped
<1>2. Len(req'.snaps) = 0
  OBVIOUS
<1> QED
  BY <1>1, <1>2 DEF Sent, NoRecord

LEMMA SentWriteOne ==
    ASSUME Mild, TypeInv, Sent, req = Idle, NEW k \in Keys, NEW old, NEW new \in Readable,
           WriteOne(k, old, new), new = Absent => (old = items[k])
    PROVE  Sent'
<1>1. PICK o \in Outcomes(items[k], new) :
          /\ items' = [items EXCEPT ![k] = o.file]
          /\ IF o.ok THEN EmitChange(k, old, new) ELSE NoRecord
          /\ UNCHANGED req
  BY DEF WriteOne
<1>2. o.ok \in BOOLEAN /\ (o.ok => o.file = new) /\ (~o.ok => o.file = items[k])
  BY OutcomeParts DEF TypeInv, Mild
<1>3. req.snaps = << >> /\ req'.snaps = << >>
  BY <1>1 DEF Idle
<1>4. CASE o.ok
  BY <1>1, <1>2, <1>3, <1>4, SentWrite
<1>5. CASE ~o.ok
  <2>1. items' = items
    BY <1>1, <1>2, <1>5 DEF TypeInv
  <2> QED
    BY <1>1, <1>3, <1>5, <2>1, SentQuiet
<1> QED
  BY <1>2, <1>4, <1>5

LEMMA SentOneItem == ASSUME Mild, TypeInv, Sent, OneItem PROVE Sent'
<1>1. PICK k \in Keys, cond \in Conditions :
          \/ \E item \in Vals : PutItem(k, item, cond)
          \/ DeleteItem(k, cond)
          \/ \E upd \in Updates : UpdateItem(k, upd, cond)
  BY DEF OneItem
<1>2. ASSUME NEW item \in Vals, PutItem(k, item, cond)
      PROVE  Sent'
  <2>1. item \in Readable /\ item # Absent
    BY ActionsAssumption DEF Readable, Item
  <2> QED
    BY <1>2, <2>1, SentWriteOne DEF PutItem, Admits
<1>3. CASE DeleteItem(k, cond)
  <2>1. Absent \in Readable
    BY DEF Readable
  <2> QED
    BY <1>3, <2>1, SentWriteOne DEF DeleteItem, Admits
<1>4. ASSUME NEW upd \in Updates, UpdateItem(k, upd, cond)
      PROVE  Sent'
  <2>1. upd.val \in Readable /\ upd.val # Absent
    BY ActionsAssumption DEF Readable, Item, Updates
  <2> QED
    BY <1>4, <2>1, SentWriteOne DEF UpdateItem, Admits
<1> QED
  BY <1>1, <1>2, <1>3, <1>4

\* A step of a batch, as a write of one item.
LEMMA BatchParts ==
    ASSUME Mild, TypeInv, BatchStep
    PROVE  /\ req.snaps = << >> /\ req'.snaps = << >> /\ req'.kind # "transact"
           /\ reply' \in {"none", "ok", "failed"}
           /\ \/ NoRecord /\ items' = items
              \/ \E k \in Keys, new \in Readable :
                    /\ items' = [items EXCEPT ![k] = new]
                    /\ EmitChange(k, items[k], new)
<1> DEFINE act == req.acts[req.i]
           k == act.key
           new == Result(act, items[k])
<1>1. act \in Action /\ req.snaps = << >> /\ req \in Request
  BY DEF TypeInv, ReqShape, BatchStep, Request
<1>2. k \in Keys /\ new \in Readable
  BY <1>1, ActionParts, ResultReadable DEF TypeInv, ReqShape, BatchStep
<1>3. req'.snaps = << >> /\ req'.kind # "transact" /\ reply' \in {"none", "ok", "failed"}
  <2>1. CASE Finish("failed") \/ Finish("ok")
    BY <2>1 DEF Finish, Idle
  <2>2. CASE req' = [req EXCEPT !.i = @ + 1] /\ UNCHANGED reply
    BY <1>1, <2>2 DEF BatchStep, Request, TypeInv
  <2> QED
    BY <2>1, <2>2 DEF BatchStep
<1>4. CASE NoRecord /\ items' = items
  BY <1>1, <1>3, <1>4
<1>5. ASSUME NEW o \in Outcomes(items[k], new),
             items' = [items EXCEPT ![k] = o.file],
             IF o.ok THEN EmitChange(k, items[k], new) ELSE NoRecord
      PROVE  \/ NoRecord /\ items' = items
             \/ items' = [items EXCEPT ![k] = new] /\ EmitChange(k, items[k], new)
  <2>1. o.ok \in BOOLEAN /\ (o.ok => o.file = new) /\ (~o.ok => o.file = items[k])
    BY <1>2, OutcomeParts DEF TypeInv, Mild
  <2>2. CASE o.ok
    BY <1>5, <2>1, <2>2
  <2>3. CASE ~o.ok
    BY <1>2, <1>5, <2>1, <2>3 DEF TypeInv
  <2> QED
    BY <2>1, <2>2, <2>3
<1>6. \/ NoRecord /\ items' = items
      \/ \E o \in Outcomes(items[k], new) :
            /\ items' = [items EXCEPT ![k] = o.file]
            /\ IF o.ok THEN EmitChange(k, items[k], new) ELSE NoRecord
  BY DEF BatchStep
<1> HIDE DEF new, k
<1> QED
  BY <1>1, <1>2, <1>3, <1>4, <1>5, <1>6

LEMMA SentBatch == ASSUME Mild, TypeInv, Sent, Batch PROVE Sent'
<1>1. CASE BatchStep
  BY <1>1, BatchParts, SentWrite, SentQuiet
<1>2. ASSUME NEW acts \in Batches, BatchBegin(acts) PROVE Sent'
  BY <1>2, SentQuiet DEF BatchBegin, Idle
<1> QED
  BY <1>1, <1>2 DEF Batch

LEMMA SentTransactApply ==
    ASSUME Mild, TypeInv, Undo, Sent, TransactApply
    PROVE  Sent'
<1> DEFINE act == req.acts[req.i]
           k == act.key
           s == [key |-> k, content |-> items[k]]
<1>0. Applying /\ NoRecord
  BY DEF TransactApply
<1>1. k \in Keys /\ items[k] \in Readable /\ ~Snapped(req, k)
  BY <1>0, ApplyingParts, NotYetSnapped
<1>2. CASE Advanced(req, req', "rollback", req.i, req.snaps) /\ items' = items
  BY <1>0, <1>2 DEF Advanced, Sent, Snapped, NoRecord
<1>3. CASE /\ Advanced(req, req', "apply", req.i + 1, Append(req.snaps, s))
           /\ items' = [items EXCEPT ![k] = Result(act, items[k])]
  <2>0. s \in Snapshot /\ s.key = k /\ s.content = items[k]
    BY <1>1 DEF Snapshot, Readable
  <2> HIDE DEF s
  <2>1. /\ Len(req.snaps) \in Nat
        /\ Len(req'.snaps) = Len(req.snaps) + 1
        /\ req'.snaps[Len(req.snaps) + 1] = s
        /\ \A n \in 1..Len(req.snaps) : req'.snaps[n] = req.snaps[n]
        /\ \A x : Snapped(req', x) <=> Snapped(req, x) \/ x = k
    BY <1>3, <2>0, SnappedMore DEF Advanced
  <2> SUFFICES ASSUME NEW x \in Streamed, x \notin doubt
               PROVE  /\ ~Snapped(req', x) => replica[x] = items'[x]
                      /\ \A n \in 1..Len(req'.snaps) :
                            req'.snaps[n].key = x => replica[x] = req'.snaps[n].content
    BY <1>0 DEF Sent, NoRecord
  <2>2. ASSUME ~Snapped(req', x) PROVE replica[x] = items'[x]
    <3>1. x \in Keys /\ x # k /\ ~Snapped(req, x)
      BY <2>1, <2>2, ItemsAssumption
    <3> QED
      BY <1>3, <3>1 DEF Sent, TypeInv
  <2>3. ASSUME NEW n \in 1..Len(req'.snaps), req'.snaps[n].key = x
        PROVE  replica[x] = req'.snaps[n].content
    <3>1. CASE n \in 1..Len(req.snaps)
      BY <2>1, <2>3, <3>1 DEF Sent
    <3>2. CASE n = Len(req.snaps) + 1
      BY <1>1, <2>0, <2>1, <2>3, <3>2 DEF Sent
    <3> QED
      BY <2>1, <3>1, <3>2
  <2> QED
    BY <2>2, <2>3
<1> QED
  BY <1>2, <1>3, ApplyCases

LEMMA SentTransactRollback ==
    ASSUME Mild, TypeInv, Undo, Sent, TransactRollback
    PROVE  Sent'
<1> DEFINE n == Len(req.snaps)
           k == req.snaps[n].key
<1>1. /\ n \in Nat /\ n >= 1 /\ k \in Keys /\ req.kind = "transact"
      /\ Advanced(req, req', "rollback", req.i, SubSeq(req.snaps, 1, n - 1))
      /\ items' = [items EXCEPT ![k] = req.snaps[n].content]
  BY RollbackParts
<1>2. /\ Len(req'.snaps) = n - 1
      /\ \A x \in 1..(n - 1) : req'.snaps[x] = req.snaps[x]
  <2>1. req.snaps \in Seq(Snapshot) /\ req.snaps # << >>
    BY DEF TypeInv, Request, TransactRollback
  <2> QED
    BY <1>1, <2>1, Shorter DEF Advanced
<1>3. NoRecord
  BY DEF TransactRollback
<1> SUFFICES ASSUME NEW x \in Streamed, x \notin doubt
             PROVE  /\ ~Snapped(req', x) => replica[x] = items'[x]
                    /\ \A t \in 1..Len(req'.snaps) :
                          req'.snaps[t].key = x => replica[x] = req'.snaps[t].content
  BY <1>3 DEF Sent, NoRecord
<1>4. \A t \in 1..Len(req'.snaps) : t \in 1..n /\ req'.snaps[t] = req.snaps[t]
  BY <1>1, <1>2
<1>5. ASSUME ~Snapped(req', x) PROVE replica[x] = items'[x]
  <2>1. CASE x = k
    <3>1. n \in 1..n
      BY <1>1
    <3>2. replica[k] = req.snaps[n].content
      BY <2>1, <3>1 DEF Sent
    <3> QED
      BY <1>1, <2>1, <3>2 DEF TypeInv
  <2>2. CASE x # k
    <3>1. ~Snapped(req, x)
      <4> SUFFICES ASSUME NEW t \in 1..n, req.snaps[t].key = x PROVE FALSE
        BY DEF Snapped
      <4>1. t \in 1..(n - 1)
        BY <1>1, <2>2
      <4> QED
        BY <1>2, <1>5, <4>1 DEF Snapped
    <3>2. x \in Keys
      BY ItemsAssumption
    <3> QED
      BY <1>1, <2>2, <3>1, <3>2 DEF Sent, TypeInv
  <2> QED
    BY <2>1, <2>2
<1> QED
  BY <1>4, <1>5 DEF Sent

LEMMA SentTransactEmit ==
    ASSUME TypeInv, Undo, Sent, TransactEmit
    PROVE  Sent'
<1> DEFINE s == req.snaps[1]
           k == s.key
<1>1. /\ req.kind = "transact" /\ k \in Keys /\ req.snaps \in Seq(Snapshot) /\ req.snaps # << >>
      /\ EmitChange(k, s.content, items[k]) /\ items' = items
      /\ Advanced(req, req', "emit", req.i, Tail(req.snaps))
  BY EmitParts, EmitsStored DEF TransactEmit
<1>2. Len(req.snaps) \in Nat /\ Len(req.snaps) >= 1 /\ Len(req'.snaps) = Len(req.snaps) - 1
      /\ \A t \in 1..(Len(req.snaps) - 1) : req'.snaps[t] = req.snaps[t + 1]
  BY <1>1, Shorter DEF Advanced
<1>3. \A t \in 1..Len(req'.snaps) : t + 1 \in 1..Len(req.snaps) /\ req'.snaps[t] = req.snaps[t + 1]
                                    /\ req'.snaps[t].key # k
  <2> SUFFICES ASSUME NEW t \in 1..Len(req'.snaps)
               PROVE  t + 1 \in 1..Len(req.snaps) /\ req'.snaps[t] = req.snaps[t + 1]
                      /\ req'.snaps[t].key # k
    OBVIOUS
  <2>1. t + 1 \in 1..Len(req.snaps) /\ 1 \in 1..Len(req.snaps) /\ 1 < t + 1
        /\ req'.snaps[t] = req.snaps[t + 1]
    BY <1>2
  <2>2. req.snaps[1].key # req.snaps[t + 1].key
    BY <1>1, <2>1, SnapsDiffer
  <2> QED
    BY <2>1, <2>2
<1>4. \A x : Snapped(req, x) => Snapped(req', x) \/ x = k
  <2> SUFFICES ASSUME NEW t \in 1..Len(req.snaps), t # 1
               PROVE  Snapped(req', req.snaps[t].key)
    BY DEF Snapped
  <2>1. t - 1 \in 1..Len(req'.snaps) /\ req'.snaps[t - 1] = req.snaps[t]
    BY <1>2
  <2> QED
    BY <2>1 DEF Snapped
<1> SUFFICES ASSUME NEW x \in Streamed, x \notin doubt'
             PROVE  /\ ~Snapped(req', x) => replica'[x] = items[x]
                    /\ \A t \in 1..Len(req'.snaps) :
                          req'.snaps[t].key = x => replica'[x] = req'.snaps[t].content
  BY <1>1 DEF Sent
<1>5. x \in Keys
  BY ItemsAssumption
<1>6. CASE x # k
  <2>1. x \notin doubt /\ replica'[x] = replica[x]
    BY <1>1, <1>5, <1>6 DEF EmitChange, Emit, NoRecord, TypeInv
  <2> QED
    BY <1>3, <1>4, <1>6, <2>1 DEF Sent
<1>7. CASE x = k
  <2>1. replica'[x] = items[x]
    <3>1. CASE Emit(k, s.content, items[k])
      BY <1>1, <1>7, <3>1 DEF Emit, TypeInv
    <3>2. CASE NoRecord /\ s.content = Absent /\ items[k] = Absent
      <4>1. replica[k] = s.content
        <5>1. 1 \in 1..Len(req.snaps) /\ k \notin doubt
          BY <1>2, <1>7, <3>2 DEF NoRecord
        <5> QED
          BY <1>7, <5>1 DEF Sent
      <4> QED
        BY <1>7, <3>2, <4>1 DEF NoRecord
    <3> QED
      BY <1>1, <1>7, <3>1, <3>2 DEF EmitChange
  <2> QED
    BY <1>3, <1>7, <2>1
<1> QED
  BY <1>6, <1>7

LEMMA SentKill == ASSUME TypeInv, Sent, Kill PROVE Sent'
<1>1. req' = Idle /\ replica' = replica /\ Len(req'.snaps) = 0 /\ \A x : ~Snapped(req', x)
  BY DEF Kill, Finish, Idle, Snapped
<1> SUFFICES ASSUME NEW x \in Streamed, x \notin doubt'
             PROVE  replica[x] = items'[x]
  BY <1>1 DEF Sent
<1>2. x \in Keys /\ x \notin doubt /\ \A j \in 1..Len(req.acts) : req.acts[j].key # x
  <2>1. DOMAIN req.acts = 1..Len(req.acts)
    BY DEF TypeInv, Request
  <2> QED
    BY <2>1, ItemsAssumption DEF Kill
<1>3. ~Snapped(req, x)
  <2>1. CASE req.kind = "transact"
    BY <1>2, <2>1 DEF TypeInv, ReqShape, Snapped
  <2>2. CASE req.kind # "transact"
    <3>1. req.snaps = << >>
      BY <2>2 DEF TypeInv, ReqShape, Request, Idle
    <3> QED
      BY <3>1 DEF Snapped
  <2> QED
    BY <2>1, <2>2
<1>4. items'[x] = items[x]
  BY <1>2, BeingWrittenParts DEF Kill, TypeInv
<1> QED
  BY <1>2, <1>3, <1>4 DEF Sent

LEMMA SentStep ==
    ASSUME Mild, TypeInv, Undo, Sent, [Next]_vars
    PROVE  Sent'
<1>0. Idle.snaps = << >>
  BY DEF Idle
<1>1. CASE Refuse
  BY <1>0, <1>1, SentQuiet DEF Refuse
<1>2. ASSUME NEW acts \in Transactions, TransactBegin(acts) PROVE Sent'
  BY <1>0, <1>2, SentQuiet DEF TransactBegin, Idle
<1>3. CASE TransactSkip
  <2>1. req'.snaps = req.snaps
    BY <1>3 DEF TransactSkip, TypeInv, Request
  <2> QED
    BY <1>3, <2>1 DEF TransactSkip, Sent, NoRecord, Snapped
<1>4. CASE TransactFail \/ TransactCommit
  BY <1>0, <1>4, SentQuiet DEF TransactFail, TransactCommit, Finish
<1>5. CASE UNCHANGED vars
  BY <1>5 DEF vars, Sent
<1> QED
  BY <1>1, <1>2, <1>3, <1>4, <1>5, SentOneItem, SentBatch, SentTransactApply, SentTransactRollback,
     SentTransactEmit, SentKill DEF Next, Transact

LEMMA SentInit == Init => Sent
<1> SUFFICES ASSUME Init PROVE Sent
  OBVIOUS
<1>1. Len(req.snaps) = 0 /\ \A k \in Streamed : k \in Keys /\ replica[k] = items[k]
  BY ItemsAssumption DEF Init, Idle
<1> QED
  BY <1>1 DEF Sent

\* What holds in every state, when no call fails half way and none of a rollback fails.
ItemsInv == TypeInv /\ Undo /\ Sent

LEMMA ItemsInvariant == ASSUME Mild PROVE Spec => []ItemsInv
<1>1. Init => ItemsInv
  BY TypeInit, UndoInit, SentInit DEF ItemsInv
<1>2. ItemsInv /\ [Next]_vars => ItemsInv'
  BY TypeStep, UndoStep, SentStep DEF ItemsInv
<1> QED
  BY <1>1, <1>2, PTL DEF Spec

\* Between requests a consumer that applies every NewImage has exactly the items of the table
\* (after a kill, again from the next record about an item): every write that leaves the item
\* files changed is followed by its record, and none that is undone is.
THEOREM ReplicaFollows == ASSUME Mild PROVE Spec => []ReplicaIsExact
<1>1. ItemsInv => ReplicaIsExact
  <2>1. \A k : ~Snapped(Idle, k)
    BY DEF Idle, Snapped
  <2> QED
    BY <2>1 DEF ItemsInv, Sent, ReplicaIsExact
<1> QED
  BY <1>1, ItemsInvariant, PTL

\* The OldImage of a record is the NewImage of the record before it about the same item,
\* unless a kill came between the two; when no update is given a document path (those that
\* are find the old item already changed).
THEOREM OldImageFollows ==
    ASSUME Mild, ~NestedUpdates
    PROVE  Spec => OldImageIsPrevious
<1>1. ItemsInv /\ [Next]_vars
      => [(rec' # NoRec /\ rec'.key \notin doubt) => rec'.old = replica[rec'.key]]_vars
  <2> SUFFICES ASSUME ItemsInv, Next, rec' # NoRec, rec'.key \notin doubt
               PROVE  rec'.old = replica[rec'.key]
    OBVIOUS
  <2> USE DEF ItemsInv
  <2>1. ASSUME NEW k \in Keys, NEW new, EmitChange(k, items[k], new), req.snaps = << >>
        PROVE  rec'.old = replica[rec'.key]
    <3>1. k \in Streamed /\ rec' = [key |-> k, old |-> items[k], new |-> new]
      BY <2>1 DEF EmitChange, Emit, NoRecord
    <3>2. ~Snapped(req, k)
      BY <2>1 DEF Snapped
    <3> QED
      BY <3>1, <3>2 DEF Sent
  <2>2. ASSUME NEW k \in Keys, NEW new, WriteOne(k, items[k], new), req = Idle
        PROVE  rec'.old = replica[rec'.key]
    <3>1. EmitChange(k, items[k], new)
      BY <2>2 DEF WriteOne, NoRecord
    <3>2. req.snaps = << >>
      BY <2>2 DEF Idle
    <3> QED
      BY <2>1, <3>1, <3>2
  <2>3. CASE OneItem
    <3>1. PICK k \in Keys, cond \in Conditions :
              \/ \E item \in Vals : PutItem(k, item, cond)
              \/ DeleteItem(k, cond)
              \/ \E upd \in Updates : UpdateItem(k, upd, cond)
      BY <2>3 DEF OneItem
    <3>2. \E new : WriteOne(k, items[k], new) /\ req = Idle
      BY <3>1 DEF PutItem, DeleteItem, UpdateItem, Admits, Before
    <3> QED
      BY <2>2, <3>2
  <2>4. CASE Batch
    <3>1. BatchStep
      BY <2>4 DEF Batch, BatchBegin, NoRecord
    <3>2. req.snaps = << >> /\ \E k \in Keys, new \in Readable : EmitChange(k, items[k], new)
      BY <3>1, BatchParts DEF NoRecord
    <3> QED
      BY <2>1, <3>2
  <2>5. CASE TransactEmit
    <3>1. 1 \in 1..Len(req.snaps) /\ EmitChange(req.snaps[1].key, req.snaps[1].content, items[req.snaps[1].key])
      <4>1. Len(req.snaps) \in Nat /\ Len(req.snaps) >= 1
        BY <2>5, EmitParts, Shorter
      <4> QED
        BY <2>5, <4>1, EmitsStored
    <3>2. /\ req.snaps[1].key \in Streamed
          /\ rec'.key = req.snaps[1].key /\ rec'.old = req.snaps[1].content
      BY <3>1 DEF EmitChange, Emit, NoRecord
    <3> QED
      BY <3>1, <3>2 DEF Sent
  <2>6. CASE Refuse \/ (Transact /\ ~TransactEmit) \/ Kill
    BY <2>6 DEF Refuse, Transact, TransactBegin, TransactSkip, TransactApply, TransactRollback,
                TransactFail, TransactCommit, Kill, NoRecord
  <2> QED
    BY <2>3, <2>4, <2>5, <2>6 DEF Next
<1> QED
  BY <1>1, ItemsInvariant, PTL DEF Spec, OldImageIsPrevious

-----------------------------------------------------------------------------
(* However a transaction ends, its first writes are done and no others. *)

\* What the first n actions make of an item.
LEMMA OverlayAt ==
    ASSUME TypeInv, Undo, req.kind = "transact", NEW n \in 0..Len(req.acts), NEW x \in Keys
    PROVE  /\ \A a \in 1..Len(req.acts) :
                 req.acts[a].key = x =>
                    Overlay(n)[x] = IF a <= n THEN Result(req.acts[a], req.base[x]) ELSE req.base[x]
           /\ (\A a \in 1..Len(req.acts) : req.acts[a].key # x) => Overlay(n)[x] = req.base[x]
<1> DEFINE q == SubSeq(req.acts, 1, n)
<1>1. req.acts \in Seq(Action) /\ Len(req.acts) \in Nat /\ req.base \in [Keys -> File]
  BY DEF TypeInv, Request, ReqShape
<1>2. q \in Seq(Action) /\ Len(q) = n /\ \A a \in 1..n : a \in 1..Len(req.acts) /\ q[a] = req.acts[a]
  BY <1>1
<1>3. \A a, b \in 1..Len(req.acts) : a # b => req.acts[a].key # req.acts[b].key
  BY DEF Undo, SnapsInOrder
<1>4. \A a, b \in 1..Len(q) : a # b => q[a].key # q[b].key
  BY <1>2, <1>3
<1>5. /\ \A a \in 1..Len(q) : Effect(req.base, q)[q[a].key] = Result(q[a], req.base[q[a].key])
      /\ (\A a \in 1..Len(q) : q[a].key # x) => Effect(req.base, q)[x] = req.base[x]
  <2> HIDE DEF q
  <2> QED
    BY <1>1, <1>2, <1>4, EffectAt
<1>6. Overlay(n) = Effect(req.base, q)
  BY DEF Overlay
<1> HIDE DEF q
<1>7. ASSUME NEW a \in 1..Len(req.acts), req.acts[a].key = x
      PROVE  Overlay(n)[x] = IF a <= n THEN Result(req.acts[a], req.base[x]) ELSE req.base[x]
  <2>1. CASE a <= n
    <3>1. a \in 1..n /\ a \in 1..Len(q) /\ q[a] = req.acts[a]
      BY <1>2, <2>1
    <3> QED
      BY <1>5, <1>6, <1>7, <2>1, <3>1
  <2>2. CASE ~(a <= n)
    <3>1. \A b \in 1..Len(q) : q[b].key # x
      <4> SUFFICES ASSUME NEW b \in 1..Len(q) PROVE q[b].key # x
        OBVIOUS
      <4>1. b \in 1..Len(req.acts) /\ q[b] = req.acts[b] /\ b # a
        BY <1>2, <2>2
      <4> QED
        BY <1>3, <1>7, <4>1
    <3> QED
      BY <1>5, <1>6, <2>2, <3>1
  <2> QED
    BY <2>1, <2>2
<1>8. ASSUME \A a \in 1..Len(req.acts) : req.acts[a].key # x
      PROVE  Overlay(n)[x] = req.base[x]
  <2>1. \A b \in 1..Len(q) : q[b].key # x
    BY <1>2, <1>8
  <2> QED
    BY <1>5, <1>6, <2>1
<1> QED
  BY <1>7, <1>8

\* An undecided transaction that has a snapshot of the items of its first n actions.
LEMMA PrefixWritten ==
    ASSUME TypeInv, Undo, Undecided, NEW n \in 0..Len(req.acts), NEW x \in Keys,
           \A a \in 1..Len(req.acts) :
              (req.acts[a].key = x /\ req.acts[a].kind # "check") => (Snapped(req, x) <=> a <= n)
    PROVE  items[x] = Overlay(n)[x]
<1>1. req.kind = "transact" /\ SnapsInOrder(req) /\ WrittenAreSnapped(req, items)
      /\ req.acts \in Seq(Action)
  BY DEF Undo, Undecided, TypeInv, Request
<1>2. ASSUME NEW a \in 1..Len(req.acts), req.acts[a].key = x
      PROVE  items[x] = Overlay(n)[x]
  <2>0. Overlay(n)[x] = IF a <= n THEN Result(req.acts[a], req.base[x]) ELSE req.base[x]
    BY <1>1, <1>2, OverlayAt
  <2>1. CASE req.acts[a].kind = "check"
    <3>1. Result(req.acts[a], req.base[x]) = req.base[x]
      BY <1>1, <2>1, ResultReadable
    <3>2. ~Snapped(req, x)
      BY <1>1, <1>2, <2>1 DEF SnapsInOrder
    <3> QED
      BY <1>1, <2>0, <3>1, <3>2 DEF WrittenAreSnapped
  <2>2. CASE req.acts[a].kind # "check" /\ Snapped(req, x)
    BY <1>1, <1>2, <2>0, <2>2 DEF WrittenAreSnapped
  <2>3. CASE req.acts[a].kind # "check" /\ ~Snapped(req, x)
    BY <1>1, <1>2, <2>0, <2>3 DEF WrittenAreSnapped
  <2> QED
    BY <2>1, <2>2, <2>3
<1>3. ASSUME \A a \in 1..Len(req.acts) : req.acts[a].key # x
      PROVE  items[x] = Overlay(n)[x]
  <2>1. ~Snapped(req, x)
    BY <1>1, <1>3 DEF Snapped, TypeInv, ReqShape
  <2> QED
    BY <1>1, <1>3, <2>1, OverlayAt DEF WrittenAreSnapped
<1> QED
  BY <1>2, <1>3

\* A transaction that is decided has done all of its writes; one that has been undone, none.
LEMMA EndOfTransaction ==
    ASSUME TypeInv, Undo, req.kind = "transact"
    PROVE  /\ Len(req.acts) \in Nat
           /\ ~Undecided => items = Overlay(Len(req.acts))
           /\ (req.step = "rollback" /\ req.snaps = << >>) => items = req.base
<1>1. req.acts \in Seq(Action) /\ Len(req.acts) \in Nat /\ SubSeq(req.acts, 1, Len(req.acts)) = req.acts
  <2>1. req.acts \in Seq(Action) /\ Len(req.acts) \in Nat
    BY DEF TypeInv, Request
  <2>2. SubSeq(req.acts, 1, Len(req.acts)) = req.acts
    BY <2>1, SubSeqFull
  <2> QED
    BY <2>1, <2>2
<1>2. ASSUME ~Undecided PROVE items = Overlay(Len(req.acts))
  BY <1>1, <1>2 DEF Undo, Overlay
<1>3. ASSUME req.step = "rollback", req.snaps = << >> PROVE items = req.base
  <2>1. WrittenAreSnapped(req, items) /\ \A x : ~Snapped(req, x)
    BY <1>3 DEF Undo, Undecided, Snapped
  <2> QED
    BY <2>1 DEF WrittenAreSnapped, TypeInv, ReqShape
<1> QED
  BY <1>1, <1>2, <1>3

\* A kill leaves the files as they are, or the one that was being written torn.
LEMMA KillAt ==
    ASSUME TypeInv, Kill
    PROVE  \/ items' = items
           \/ \E k \in BeingWritten : items' = [items EXCEPT ![k] = Corrupt]
BY DEF Kill

\* The items of some first actions, of which one file more may be torn.
LEMMA PrefixOf ==
    ASSUME TypeInv, Undo, req.kind = "transact", NEW n \in 0..Len(req.acts),
           NEW torn \in SUBSET {req.acts[i].key : i \in {n + 1} \cap DOMAIN req.acts},
           \A k \in Keys : items'[k] = IF k \in torn THEN Corrupt ELSE Overlay(n)[k]
    PROVE  \E m \in 0..Len(req.acts) :
              \E t \in SUBSET {req.acts[i].key : i \in {m + 1} \cap DOMAIN req.acts} :
                 \A k \in Keys : items'[k] = IF k \in t THEN Corrupt ELSE Overlay(m)[k]
OBVIOUS

LEMMA PrefixUntorn ==
    ASSUME TypeInv, Undo, req.kind = "transact", NEW n \in 0..Len(req.acts),
           \A k \in Keys : items'[k] = Overlay(n)[k]
    PROVE  \E m \in 0..Len(req.acts) :
              \E t \in SUBSET {req.acts[i].key : i \in {m + 1} \cap DOMAIN req.acts} :
                 \A k \in Keys : items'[k] = IF k \in t THEN Corrupt ELSE Overlay(m)[k]
<1>1. {} \in SUBSET {req.acts[i].key : i \in {n + 1} \cap DOMAIN req.acts}
  OBVIOUS
<1>2. \A k \in Keys : items'[k] = IF k \in {} THEN Corrupt ELSE Overlay(n)[k]
  OBVIOUS
<1> QED
  BY <1>1, <1>2, PrefixOf

LEMMA KilledWhileApplying ==
    ASSUME TypeInv, Undo, Kill, Applying
    PROVE  \E m \in 0..Len(req.acts) :
              \E t \in SUBSET {req.acts[i].key : i \in {m + 1} \cap DOMAIN req.acts} :
                 \A k \in Keys : items'[k] = IF k \in t THEN Corrupt ELSE Overlay(m)[k]
<1> DEFINE n == req.i - 1
           K == req.acts[req.i].key
<1>1. /\ req.kind = "transact" /\ req.step = "apply" /\ req.i \in 1..Len(req.acts)
      /\ Len(req.acts) \in Nat /\ K \in Keys /\ DOMAIN req.acts = 1..Len(req.acts)
  BY ApplyingParts
<1>2. n \in 0..Len(req.acts) /\ n + 1 = req.i
  BY <1>1
<1>3. Undecided /\ SnapsInOrder(req) /\ WrittenAreSnapped(req, items)
  BY NotYetSnapped
<1>4. ASSUME NEW x \in Keys PROVE items[x] = Overlay(n)[x]
  <2>1. ASSUME NEW a \in 1..Len(req.acts), req.acts[a].key = x, req.acts[a].kind # "check"
        PROVE  Snapped(req, x) <=> a <= n
    <3>1. Snapped(req, x) <=> a < req.i
      BY <1>1, <1>3, <2>1 DEF SnapsInOrder, WrittenAreSnapped
    <3> QED
      BY <1>1, <3>1
  <2> QED
    BY <1>2, <1>3, <2>1, PrefixWritten
<1>5. CASE items' = items
  BY <1>1, <1>2, <1>4, <1>5, PrefixUntorn
<1>6. CASE items' = [items EXCEPT ![K] = Corrupt]
  <2>1. {K} \in SUBSET {req.acts[i].key : i \in {n + 1} \cap DOMAIN req.acts}
    <3>1. req.i \in {n + 1} \cap DOMAIN req.acts
      BY <1>1, <1>2
    <3> QED
      BY <3>1
  <2>2. ASSUME NEW k \in Keys PROVE items'[k] = IF k \in {K} THEN Corrupt ELSE Overlay(n)[k]
    BY <1>4, <1>6, <2>2 DEF TypeInv
  <2> HIDE DEF n, K
  <2> QED
    BY <1>1, <1>2, <2>1, <2>2, PrefixOf
<1>7. BeingWritten \subseteq {K}
  BY <1>1 DEF BeingWritten
<1> QED
  BY <1>5, <1>6, <1>7, KillAt

LEMMA KilledWhileUndoing ==
    ASSUME TypeInv, Undo, Kill, req.step = "rollback"
    PROVE  \E m \in 0..Len(req.acts) :
              \E t \in SUBSET {req.acts[i].key : i \in {m + 1} \cap DOMAIN req.acts} :
                 \A k \in Keys : items'[k] = IF k \in t THEN Corrupt ELSE Overlay(m)[k]
<1> DEFINE last == Len(req.snaps)
           K == req.snaps[last].key
<1>1. /\ req.kind = "transact" /\ req.acts \in Seq(Action) /\ Len(req.acts) \in Nat
      /\ DOMAIN req.acts = 1..Len(req.acts) /\ req.snaps \in Seq(Snapshot)
  BY DEF TypeInv, ReqShape, Request, Idle
<1>2. Undecided /\ SnapsInOrder(req) /\ WrittenAreSnapped(req, items)
  BY <1>1 DEF Undo, Undecided
<1>3. CASE req.snaps = << >>
  <2>1. items' = items
    BY <1>3, KillAt DEF BeingWritten
  <2>2. ASSUME NEW x \in Keys PROVE items[x] = Overlay(0)[x]
    <3>1. ~Snapped(req, x)
      BY <1>3 DEF Snapped
    <3>2. 0 \in 0..Len(req.acts) /\ \A a \in 1..Len(req.acts) : ~(a <= 0)
      BY <1>1
    <3> QED
      BY <1>2, <3>1, <3>2, PrefixWritten
  <2>3. 0 \in 0..Len(req.acts)
    BY <1>1
  <2> QED
    BY <1>1, <2>1, <2>2, <2>3, PrefixUntorn
<1>4. CASE req.snaps # << >>
  <2>1. last \in Nat /\ last \in 1..last
    BY <1>1, <1>4, Shorter
  <2>2. PICK c \in 1..Len(req.acts) : K = req.acts[c].key
    BY <1>1, <2>1 DEF TypeInv, ReqShape
  <2>3. Snapped(req, K) /\ req.acts[c].kind # "check" /\ K \in Keys
    BY <1>1, <1>2, <2>1, <2>2, ActionParts DEF Snapped, SnapsInOrder
  <2>4. ASSUME NEW a \in 1..Len(req.acts), req.acts[a].kind # "check"
        PROVE  Snapped(req, req.acts[a].key) <=> a <= c
    <3>1. CASE a = c
      BY <2>2, <2>3, <3>1
    <3>2. CASE a < c
      <4>1. Snapped(req, req.acts[a].key)
        BY <1>2, <2>2, <2>3, <2>4, <3>2 DEF WrittenAreSnapped
      <4> QED
        BY <3>2, <4>1
    <3>3. CASE c < a
      <4>1. ASSUME NEW s \in 1..last, req.snaps[s].key = req.acts[a].key PROVE FALSE
        <5>1. s # last
          BY <1>2, <2>2, <3>3, <4>1 DEF SnapsInOrder
        <5>2. s < last
          BY <2>1, <5>1
        <5>3. a < c
          BY <1>2, <2>1, <2>2, <4>1, <5>2 DEF SnapsInOrder
        <5> QED
          BY <3>3, <5>3
      <4> QED
        BY <3>3, <4>1 DEF Snapped
    <3> QED
      BY <3>1, <3>2, <3>3
  <2>5. c \in 0..Len(req.acts) /\ c - 1 \in 0..Len(req.acts) /\ (c - 1) + 1 = c
    BY <1>1
  <2>6. CASE items' = items
    <3>1. ASSUME NEW x \in Keys PROVE items[x] = Overlay(c)[x]
      BY <1>2, <2>4, <2>5, PrefixWritten
    <3> QED
      BY <1>1, <2>5, <2>6, <3>1, PrefixUntorn
  <2>7. CASE items' = [items EXCEPT ![K] = Corrupt]
    <3>1. ASSUME NEW x \in Keys, x # K PROVE items[x] = Overlay(c - 1)[x]
      <4>1. ASSUME NEW a \in 1..Len(req.acts), req.acts[a].key = x, req.acts[a].kind # "check"
            PROVE  Snapped(req, x) <=> a <= c - 1
        <5>1. a # c
          BY <2>2, <3>1, <4>1
        <5>2. Snapped(req, x) <=> a <= c
          BY <2>4, <4>1
        <5> QED
          BY <5>1, <5>2
      <4> QED
        BY <1>2, <2>5, <4>1, PrefixWritten
    <3>2. {K} \in SUBSET {req.acts[i].key : i \in {(c - 1) + 1} \cap DOMAIN req.acts}
      <4>1. c \in {(c - 1) + 1} \cap DOMAIN req.acts
        BY <1>1, <2>5
      <4> QED
        BY <2>2, <4>1
    <3>3. ASSUME NEW k \in Keys
          PROVE  items'[k] = IF k \in {K} THEN Corrupt ELSE Overlay(c - 1)[k]
      BY <2>7, <3>1, <3>3 DEF TypeInv
    <3> DEFINE d == c - 1
    <3>4. /\ d \in 0..Len(req.acts)
          /\ {K} \in SUBSET {req.acts[i].key : i \in {d + 1} \cap DOMAIN req.acts}
          /\ \A k \in Keys : items'[k] = IF k \in {K} THEN Corrupt ELSE Overlay(d)[k]
      BY <2>5, <3>2, <3>3
    <3> HIDE DEF d, K
    <3> QED
      BY <1>1, <3>4, PrefixOf
  <2>8. BeingWritten \subseteq {K}
    BY DEF BeingWritten
  <2> QED
    BY <2>6, <2>7, <2>8, KillAt
<1> QED
  BY <1>3, <1>4

\* A transaction ends with an error, with success or with a kill.
LEMMA TransactionEnds ==
    ASSUME Mild, ItemsInv, Next, req.kind = "transact", req' = Idle
    PROVE  TransactFail \/ TransactCommit \/ Kill
<1> USE DEF ItemsInv
<1>1. Idle.kind = "idle" /\ req # Idle
  BY DEF Idle
<1>2. ~OneItem /\ ~Refuse /\ ~Batch
  BY <1>1 DEF OneItem, Refuse, Batch, PutItem, DeleteItem, UpdateItem, Admits, BatchBegin, BatchStep
<1>3. \A acts \in Transactions : ~TransactBegin(acts)
  BY <1>1 DEF TransactBegin
<1>4. ~TransactSkip
  BY <1>1 DEF TransactSkip, TypeInv, Request
<1>5. ~TransactApply
  BY <1>1, ApplyCases DEF Advanced
<1>6. ~TransactRollback
  BY <1>1, RollbackParts DEF Advanced
<1>7. ~TransactEmit
  BY <1>1, EmitParts DEF Advanced
<1> QED
  BY <1>2, <1>3, <1>4, <1>5, <1>6, <1>7 DEF Next, Transact

\* However a transaction ends, by commit, by rollback or by a kill at any point of either,
\* the items show its first n writes for some n, except that the file that was being written
\* may be torn: the snapshots are undone from the last one to the first.
THEOREM TransactionsEndInPrefix == ASSUME Mild PROVE Spec => EndsInPrefix
<1>1. ItemsInv /\ [Next]_vars
      => [(req.kind = "transact" /\ req' = Idle) =>
             \E n \in 0..Len(req.acts) :
                \E torn \in SUBSET {req.acts[i].key : i \in {n + 1} \cap DOMAIN req.acts} :
                   \A k \in Keys : items'[k] = IF k \in torn THEN Corrupt ELSE Overlay(n)[k]]_vars
  <2> DEFINE Ends == \E n \in 0..Len(req.acts) :
                \E torn \in SUBSET {req.acts[i].key : i \in {n + 1} \cap DOMAIN req.acts} :
                   \A k \in Keys : items'[k] = IF k \in torn THEN Corrupt ELSE Overlay(n)[k]
  <2> SUFFICES ASSUME ItemsInv, Next, req.kind = "transact", req' = Idle
               PROVE  Ends
    OBVIOUS
  <2> USE DEF ItemsInv
  <2>1. Len(req.acts) \in Nat
    BY EndOfTransaction
  <2>2. TransactFail \/ TransactCommit \/ Kill
    BY TransactionEnds
  <2>3. CASE TransactFail
    <3>1. items' = req.base /\ 0 \in 0..Len(req.acts)
      BY <2>1, <2>3, EndOfTransaction DEF TransactFail
    <3>2. \A k \in Keys : Overlay(0)[k] = req.base[k]
      <4> SUFFICES ASSUME NEW k \in Keys PROVE Overlay(0)[k] = req.base[k]
        OBVIOUS
      <4>1. \A a \in 1..Len(req.acts) : ~(a <= 0)
        BY <2>1
      <4> QED
        BY <3>1, <4>1, OverlayAt
    <3> QED
      BY <3>1, <3>2, PrefixUntorn
  <2>4. CASE TransactCommit \/ (Kill /\ ~Undecided)
    <3>1. ~Undecided
      BY <2>4 DEF TransactCommit, Undecided, TypeInv, ReqShape
    <3>2. items' = items
      <4>1. CASE TransactCommit
        BY <4>1 DEF TransactCommit
      <4>2. CASE Kill
        <5>1. BeingWritten = {}
          BY <3>1 DEF BeingWritten, Undecided
        <5> QED
          BY <4>2, <5>1, KillAt
      <4> QED
        BY <2>4, <4>1, <4>2
    <3>3. items = Overlay(Len(req.acts)) /\ Len(req.acts) \in 0..Len(req.acts)
      BY <2>1, <3>1, EndOfTransaction
    <3> QED
      BY <3>2, <3>3, PrefixUntorn
  <2>5. CASE Kill /\ Undecided /\ req.step # "rollback"
    <3>1. Applying
      BY <2>5 DEF Applying, Undecided, TypeInv, ReqShape, Request
    <3> QED
      BY <2>5, <3>1, KilledWhileApplying
  <2>6. CASE Kill /\ req.step = "rollback"
    BY <2>6, KilledWhileUndoing
  <2> QED
    BY <2>2, <2>3, <2>4, <2>5, <2>6
<1> QED
  BY <1>1, ItemsInvariant, PTL DEF Spec, EndsInPrefix

\* A transaction that is answered with an error has changed nothing, one that is answered with
\* success has done all of its writes, as long as no write fails half way.
THEOREM TransactionsAreAllOrNothing == ASSUME Mild PROVE Spec => AllOrNothing
<1>1. ItemsInv /\ [Next]_vars
      => [(req.kind = "transact" /\ req' = Idle) =>
             /\ reply' = "failed" => items' = req.base
             /\ reply' = "ok" => items' = Overlay(Len(req.acts))]_vars
  <2> SUFFICES ASSUME ItemsInv, Next, req.kind = "transact", req' = Idle
               PROVE  /\ reply' = "failed" => items' = req.base
                      /\ reply' = "ok" => items' = Overlay(Len(req.acts))
    OBVIOUS
  <2> USE DEF ItemsInv
  <2>1. TransactFail \/ TransactCommit \/ Kill
    BY TransactionEnds
  <2>2. CASE TransactFail
    BY <2>2, EndOfTransaction DEF TransactFail, Finish
  <2>3. CASE TransactCommit
    <3>1. ~Undecided
      BY <2>3 DEF TransactCommit, Undecided, TypeInv, ReqShape
    <3> QED
      BY <2>3, <3>1, EndOfTransaction DEF TransactCommit, Finish
  <2>4. CASE Kill
    BY <2>4 DEF Kill, Finish
  <2> QED
    BY <2>1, <2>2, <2>3, <2>4
<1> QED
  BY <1>1, ItemsInvariant, PTL DEF Spec, AllOrNothing

-----------------------------------------------------------------------------
(* The storage implements atomic transactions. *)

\* The items that are committed are those that the transaction found, until it is decided.
View == Committed = IF Undecided THEN req.base ELSE items

LEMMA CommittedIs == TypeInv /\ Undo => View
<1> SUFFICES ASSUME TypeInv, Undo
             PROVE  Committed = IF Undecided THEN req.base ELSE items
  BY DEF View
<1> DEFINE Mine(k) == {i \in DOMAIN req.snaps : req.snaps[i].key = k}
<1>0. DOMAIN req.snaps = 1..Len(req.snaps)
  BY DEF TypeInv, Request
<1>1. CASE ~Undecided
  BY <1>1 DEF Committed, TypeInv
<1>2. CASE Undecided
  <2>1. req.kind = "transact" /\ SnapsInOrder(req) /\ WrittenAreSnapped(req, items)
    BY <1>2 DEF Undo, Undecided
  <2>2. req.base \in [Keys -> File]
    BY <2>1 DEF TypeInv, ReqShape
  <2>3. ASSUME NEW k \in Keys PROVE Committed[k] = req.base[k]
    <3>1. CASE Mine(k) = {}
      <4>1. ~Snapped(req, k)
        BY <1>0, <3>1 DEF Snapped
      <4> QED
        BY <1>2, <2>1, <3>1, <4>1 DEF Committed, WrittenAreSnapped
    <3>2. CASE Mine(k) # {}
      <4>1. (CHOOSE i \in Mine(k) : TRUE) \in Mine(k)
        BY <3>2
      <4>2. Committed[k] = req.snaps[CHOOSE i \in Mine(k) : TRUE].content
        BY <1>2, <3>2 DEF Committed
      <4> QED
        BY <1>0, <2>1, <4>1, <4>2 DEF SnapsInOrder
    <3> QED
      BY <3>1, <3>2
  <2> QED
    BY <1>2, <2>2, <2>3 DEF Committed
<1> QED
  BY <1>1, <1>2

LEMMA CommittedIsNext == TypeInv' /\ Undo' => View'
BY CommittedIs, PTL

\* What the abstract specification sees.
Acts == IF req.kind = "transact" THEN req.acts ELSE << >>

LEMMA SameActions ==
    /\ Atomic!Action = Action
    /\ Atomic!Item = Item
    /\ \A db, acts : Atomic!Effect(db, acts) = Effect(db, acts)
<1>1. Atomic!Action = Action
  BY DEF Atomic!Action, Action, Atomic!Updates, Updates
<1>2. Atomic!Item = Item
  BY DEF Atomic!Item, Item
<1>3. \A a, f : Atomic!Result(a, f) = Result(a, f)
  BY DEF Atomic!Result, Result
<1>4. \A db, acts : Atomic!Effect(db, acts) = Effect(db, acts)
  BY <1>3 DEF Atomic!Effect, Effect
<1> QED
  BY <1>1, <1>2, <1>4

\* The abstract steps, in terms of the detailed state.
LEMMA AbstractWrite ==
    ASSUME TypeInv, TypeInv', Undo, Undo', req.kind # "transact", req'.kind # "transact",
           \/ items' = items
           \/ \E k \in Keys : \E f \in File : items' = [items EXCEPT ![k] = f]
    PROVE  Atomic!Next
<1>1. ~Undecided /\ ~Undecided' /\ Phase = "none" /\ Phase' = "none" /\ Acts = << >> /\ Acts' = << >>
  BY DEF Undecided, Phase, Acts
<1>2. Committed = items /\ Committed' = items'
  BY <1>1, CommittedIs, CommittedIsNext DEF View
<1>3. PICK k \in Keys : \E f \in File : items' = [items EXCEPT ![k] = f]
  <2>1. CASE items' = items
    <3>1. PICK k \in Keys : TRUE
      BY ActionsAssumption
    <3>2. items[k] \in File /\ items' = [items EXCEPT ![k] = items[k]]
      BY <2>1 DEF TypeInv
    <3> QED
      BY <3>2
  <2> QED
    BY <2>1
<1>4. Committed' \in {[Committed EXCEPT ![k] = f] : f \in Atomic!Item \cup {Absent, Corrupt}}
  BY <1>2, <1>3, SameActions DEF File
<1>5. reply' \in {"none", "ok", "failed"}
  BY DEF TypeInv
<1>6. Atomic!WriteItem(k)
  BY <1>1, <1>4, <1>5 DEF Atomic!WriteItem, Acts
<1> QED
  BY <1>6 DEF Atomic!Next

LEMMA AbstractBegin ==
    ASSUME TypeInv, TypeInv', Undo, Undo', NEW acts \in Transactions, TransactBegin(acts)
    PROVE  Atomic!Next
<1>1. acts \in Seq(Action) /\ Len(acts) \in Nat /\ Len(acts) >= 1
  BY Requested
<1>2. /\ req.kind # "transact"
      /\ req'.kind = "transact" /\ req'.step = "apply" /\ req'.acts = acts
      /\ req'.base = items /\ req'.i = 1 /\ reply' = "none"
  BY DEF TransactBegin, Idle
<1>3. ~Undecided /\ Undecided' /\ Phase = "none" /\ Phase' = "open" /\ Acts' = acts
  BY <1>1, <1>2 DEF Undecided, Phase, Acts
<1>4. Committed' = Committed
  BY <1>2, <1>3, CommittedIs, CommittedIsNext DEF View
<1>5. Atomic!Begin
  BY <1>1, <1>2, <1>3, <1>4, SameActions DEF Atomic!Begin, Acts
<1> QED
  BY <1>5 DEF Atomic!Next

\* The next action of a transaction is done: the last one commits it.
LEMMA AbstractProgress ==
    ASSUME TypeInv, TypeInv', Undo, Undo', Applying, NEW q,
           Advanced(req, req', "apply", req.i + 1, q), reply' = reply
    PROVE  Atomic!Next \/ UNCHANGED Atomic!abstractVars
<1>1. /\ req.kind = "transact" /\ req.step = "apply" /\ req.i \in 1..Len(req.acts)
      /\ Len(req.acts) \in Nat /\ Undecided /\ Phase = "open" /\ Acts = req.acts
  BY ApplyingParts DEF Undecided, Phase, Acts
<1>2. /\ req'.kind = "transact" /\ req'.step = "apply" /\ req'.i = req.i + 1
      /\ req'.acts = req.acts /\ req'.base = req.base /\ Acts' = Acts
  BY <1>1 DEF Advanced, Acts
<1>3. Committed = req.base
  BY <1>1, CommittedIs DEF View
<1>4. CASE req.i < Len(req.acts)
  <2>1. Undecided' /\ Phase' = "open"
    BY <1>1, <1>2, <1>4 DEF Undecided, Phase
  <2>2. Committed' = Committed
    BY <1>2, <1>3, <2>1, CommittedIsNext DEF View
  <2> QED
    BY <1>1, <1>2, <2>1, <2>2 DEF Atomic!abstractVars, Acts
<1>5. CASE req.i = Len(req.acts)
  <2>1. ~Undecided' /\ Phase' = "committed"
    BY <1>1, <1>2, <1>5 DEF Undecided, Phase
  <2>2. Committed' = Effect(req.base, req.acts)
    BY <1>2, <2>1, CommittedIsNext DEF View, Undo
  <2>3. Atomic!Commit
    BY <1>1, <1>2, <1>3, <2>1, <2>2, SameActions DEF Atomic!Commit, Acts
  <2> QED
    BY <2>3 DEF Atomic!Next
<1> QED
  BY <1>1, <1>4, <1>5

LEMMA AbstractApply ==
    ASSUME Mild, TypeInv, TypeInv', Undo, Undo', TransactApply
    PROVE  Atomic!Next \/ UNCHANGED Atomic!abstractVars
<1>0. Applying /\ reply' = reply
  BY DEF TransactApply
<1>1. ASSUME NEW q, Advanced(req, req', "apply", req.i + 1, q)
      PROVE  Atomic!Next \/ UNCHANGED Atomic!abstractVars
  BY <1>0, <1>1, AbstractProgress
<1>2. CASE Advanced(req, req', "rollback", req.i, req.snaps)
  <2>1. req.kind = "transact" /\ Undecided /\ Phase = "open" /\ Acts = req.acts
    BY <1>0, ApplyingParts DEF Undecided, Phase, Acts
  <2>2. Undecided' /\ Phase' = "aborted" /\ Acts' = Acts /\ req'.base = req.base
    BY <1>2, <2>1 DEF Undecided, Phase, Acts, Advanced
  <2>3. Committed' = Committed
    BY <2>1, <2>2, CommittedIs, CommittedIsNext DEF View
  <2>4. Atomic!Abort
    BY <1>0, <2>1, <2>2, <2>3 DEF Atomic!Abort, Acts
  <2> QED
    BY <2>4 DEF Atomic!Next
<1> QED
  BY <1>1, <1>2, ApplyCases

LEMMA AbstractRollback ==
    ASSUME Mild, TypeInv, TypeInv', Undo, Undo', TransactRollback
    PROVE  UNCHANGED Atomic!abstractVars
<1>1. /\ req.kind = "transact" /\ req.step = "rollback"
      /\ req'.kind = "transact" /\ req'.step = "rollback" /\ req'.acts = req.acts
      /\ req'.base = req.base /\ reply' = reply
  BY RollbackParts DEF Advanced, TransactRollback
<1>2. Undecided /\ Undecided' /\ Phase' = Phase /\ Acts' = Acts
  BY <1>1 DEF Undecided, Phase, Acts
<1>3. Committed' = Committed
  BY <1>1, <1>2, CommittedIs, CommittedIsNext DEF View
<1> QED
  BY <1>1, <1>2, <1>3 DEF Atomic!abstractVars, Acts

LEMMA AbstractEmit ==
    ASSUME TypeInv, TypeInv', Undo, Undo', TransactEmit
    PROVE  UNCHANGED Atomic!abstractVars
<1>1. /\ req.kind = "transact" /\ req.step # "rollback" /\ req.i = Len(req.acts) + 1
      /\ req'.kind = "transact" /\ req'.step = "emit" /\ req'.acts = req.acts /\ req'.i = req.i
      /\ items' = items /\ reply' = reply /\ Len(req.acts) \in Nat
  <2>1. req.acts \in Seq(Action)
    BY DEF TypeInv, Request
  <2>2. items' = items /\ reply' = reply
    BY DEF TransactEmit
  <2> QED
    BY <2>1, <2>2, EmitParts DEF Advanced
<1>2. ~Undecided /\ ~Undecided' /\ Phase' = Phase /\ Acts' = Acts
  BY <1>1 DEF Undecided, Phase, Acts
<1>3. Committed' = Committed
  BY <1>1, <1>2, CommittedIs, CommittedIsNext DEF View
<1> QED
  BY <1>1, <1>2, <1>3 DEF Atomic!abstractVars, Acts

LEMMA AbstractAnswer ==
    ASSUME TypeInv, TypeInv', Undo, Undo', TransactFail \/ TransactCommit
    PROVE  Atomic!Next
<1>1. req' = Idle /\ items' = items /\ req'.kind # "transact"
  BY DEF TransactFail, TransactCommit, Finish, Idle
<1>2. ~Undecided' /\ Phase' = "none" /\ Acts' = << >> /\ Committed' = items
  BY <1>1, CommittedIsNext DEF Undecided, Phase, Acts, View
<1>3. CASE TransactFail
  <2>1. req.kind = "transact" /\ req.step = "rollback" /\ req.snaps = << >> /\ reply' = "failed"
    BY <1>3 DEF TransactFail, TypeInv, ReqShape, Request, Idle, Finish
  <2>2. Phase = "aborted" /\ Undecided /\ items = req.base
    BY <2>1, EndOfTransaction DEF Phase, Undecided
  <2>3. Committed' = Committed
    BY <1>2, <2>2, CommittedIs DEF View
  <2>4. Atomic!Answer
    BY <1>2, <2>1, <2>2, <2>3 DEF Atomic!Answer, Acts
  <2> QED
    BY <2>4 DEF Atomic!Next
<1>4. CASE TransactCommit
  <2>1. /\ req.kind = "transact" /\ req.step # "rollback" /\ ~(req.i <= Len(req.acts))
        /\ reply' = "ok"
    BY <1>4 DEF TransactCommit, Finish, TypeInv, ReqShape
  <2>2. Phase = "committed" /\ ~Undecided
    BY <2>1 DEF Phase, Undecided
  <2>3. Committed' = Committed
    BY <1>2, <2>2, CommittedIs DEF View
  <2>4. Atomic!Answer
    BY <1>2, <2>1, <2>2, <2>3 DEF Atomic!Answer, Acts
  <2> QED
    BY <2>4 DEF Atomic!Next
<1> QED
  BY <1>3, <1>4

LEMMA AbstractCrash ==
    ASSUME TypeInv, TypeInv', Undo, Undo', Kill, req.kind = "transact"
    PROVE  Atomic!Next
<1>1. req' = Idle /\ req'.kind # "transact" /\ reply' = "none"
  BY DEF Kill, Finish, Idle
<1>2. ~Undecided' /\ Phase' = "none" /\ Acts' = << >> /\ Committed' = items'
  BY <1>1, CommittedIsNext DEF Undecided, Phase, Acts, View
<1>3. Acts = req.acts /\ Phase # "none" /\ DOMAIN req.acts = 1..Len(req.acts)
      /\ req.acts \in Seq(Action) /\ req.base \in [Keys -> File]
  BY DEF Acts, Phase, TypeInv, Request, ReqShape
<1>4. ASSUME NEW k \in Keys
      PROVE  \/ items'[k] \in {Committed[k], Effect(Committed, req.acts)[k]}
             \/ items'[k] = Corrupt /\ \E i \in DOMAIN req.acts : req.acts[i].key = k
  <2>1. CASE items'[k] = items[k]
    <3>1. CASE ~Undecided
      BY <2>1, <3>1, CommittedIs DEF View
    <3>2. CASE Undecided
      <4>1. Committed = req.base /\ SnapsInOrder(req) /\ WrittenAreSnapped(req, items)
        BY <3>2, CommittedIs DEF View, Undo
      <4>2. CASE ~Snapped(req, k)
        BY <2>1, <4>1, <4>2 DEF WrittenAreSnapped
      <4>3. CASE Snapped(req, k)
        <5>1. PICK a \in 1..Len(req.acts) : req.acts[a].key = k
          BY <4>3 DEF Snapped, TypeInv, ReqShape
        <5>2. items[k] = Result(req.acts[a], req.base[k])
          BY <4>1, <4>3, <5>1 DEF WrittenAreSnapped
        <5>3. Effect(req.base, req.acts)[k] = Result(req.acts[a], req.base[k])
          BY <1>3, <4>1, <5>1, EffectAt DEF SnapsInOrder
        <5> QED
          BY <2>1, <4>1, <5>2, <5>3
      <4> QED
        BY <4>2, <4>3
    <3> QED
      BY <3>1, <3>2
  <2>2. ASSUME NEW w \in BeingWritten, items' = [items EXCEPT ![w] = Corrupt], w = k
        PROVE  items'[k] = Corrupt /\ \E i \in DOMAIN req.acts : req.acts[i].key = k
    BY <1>3, <2>2, BeingWrittenParts DEF TypeInv
  <2>3. ASSUME NEW w \in BeingWritten, items' = [items EXCEPT ![w] = Corrupt], w # k
        PROVE  items'[k] = items[k]
    BY <2>3 DEF TypeInv
  <2> QED
    BY <2>1, <2>2, <2>3, KillAt
<1>5. Atomic!Crash
  BY <1>1, <1>2, <1>3, <1>4, SameActions DEF Atomic!Crash, Acts
<1> QED
  BY <1>5 DEF Atomic!Next

\* A request on one item, or on a batch of them, changes one file at a time.
LEMMA OneFile ==
    ASSUME TypeInv, TypeInv', OneItem \/ Refuse \/ Batch \/ (Kill /\ req.kind # "transact")
    PROVE  /\ req.kind # "transact" /\ req'.kind # "transact"
           /\ \/ items' = items
              \/ \E k \in Keys : \E f \in File : items' = [items EXCEPT ![k] = f]
<1>0. Idle.kind = "idle"
  BY DEF Idle
<1>1. ASSUME NEW k \in Keys, NEW f, items' = [items EXCEPT ![k] = f]
      PROVE  f \in File
  <2>1. items'[k] = f /\ items'[k] \in File
    BY <1>1 DEF TypeInv
  <2> QED
    BY <2>1
<1>2. CASE OneItem
  <2>1. req = Idle /\ req' = req
    BY <1>2 DEF OneItem, PutItem, DeleteItem, UpdateItem, WriteOne, Admits
  <2>2. \E k \in Keys : \E f : items' = [items EXCEPT ![k] = f]
    BY <1>2 DEF OneItem, PutItem, DeleteItem, UpdateItem, WriteOne
  <2> QED
    BY <1>0, <1>1, <2>1, <2>2
<1>3. CASE Refuse
  BY <1>0, <1>3 DEF Refuse
<1>4. ASSUME NEW acts \in Batches, BatchBegin(acts)
      PROVE  req.kind # "transact" /\ req'.kind # "transact" /\ items' = items
  BY <1>0, <1>4 DEF BatchBegin, Idle
<1>5. CASE BatchStep
  <2>1. req.kind = "batch" /\ req.acts[req.i].key \in Keys
    <3>1. req.acts[req.i] \in Action
      BY <1>5 DEF TypeInv, ReqShape, BatchStep, Request
    <3> QED
      BY <1>5, <3>1, ActionParts DEF BatchStep
  <2>2. req'.kind # "transact"
    <3>1. CASE req' = Idle
      BY <1>0, <3>1
    <3>2. CASE req' = [req EXCEPT !.i = @ + 1]
      BY <2>1, <3>2 DEF TypeInv, Request
    <3> QED
      BY <1>5, <3>1, <3>2 DEF BatchStep, Finish
  <2>3. items' = items \/ \E f : items' = [items EXCEPT ![req.acts[req.i].key] = f]
    BY <1>5 DEF BatchStep
  <2> QED
    BY <1>1, <2>1, <2>2, <2>3
<1>6. CASE Kill /\ req.kind # "transact"
  BY <1>0, <1>6, BeingWrittenParts DEF Kill, Finish, File
<1> QED
  BY <1>2, <1>3, <1>4, <1>5, <1>6 DEF Batch

\* The item files with the snapshots that the storage keeps in memory implement AtomicItems:
\* every transaction takes effect in one step, when its last action is applied, or not at all,
\* and what the client is told agrees with it; a kill leaves of every item that the
\* transaction names the old content, the new content or a torn file.
THEOREM StorageIsAtomic == ASSUME Mild PROVE Spec => ImplementsAtomicItems
<1>1. Init => Atomic!Init
  <2> SUFFICES ASSUME Init PROVE Atomic!Init
    OBVIOUS
  <2>1. req.kind # "transact" /\ reply = "none" /\ items = [k \in Keys |-> Absent]
    BY DEF Init, Idle
  <2>2. TypeInv /\ Undo
    BY TypeInit, UndoInit
  <2>3. ~Undecided /\ Phase = "none" /\ Committed = items
    BY <2>1, <2>2, CommittedIs DEF Undecided, Phase, View
  <2> QED
    BY <2>1, <2>3 DEF Atomic!Init
<1>2. ItemsInv /\ ItemsInv' /\ [Next]_vars => [Atomic!Next]_(Atomic!abstractVars)
  <2> SUFFICES ASSUME ItemsInv, ItemsInv', [Next]_vars
               PROVE  Atomic!Next \/ UNCHANGED Atomic!abstractVars
    OBVIOUS
  <2>0. TypeInv /\ TypeInv' /\ Undo /\ Undo'
    BY DEF ItemsInv
  <2>1. CASE OneItem \/ Refuse \/ Batch \/ (Kill /\ req.kind # "transact")
    BY <2>0, <2>1, OneFile, AbstractWrite
  <2>2. CASE TransactSkip
    <3>1. Applying /\ reply' = reply
      BY <2>2 DEF TransactSkip
    <3>2. Advanced(req, req', req.step, req.i + 1, req.snaps) /\ req.step = "apply"
      <4>1. req \in Request /\ req.i + 1 \in Nat /\ req.snaps \in Seq(Snapshot) /\ req.step = "apply"
        BY <2>0, <3>1, ApplyingParts DEF TypeInv, Request
      <4> QED
        BY <2>2, <4>1, Advance DEF TransactSkip
    <3> QED
      BY <2>0, <3>1, <3>2, AbstractProgress
  <2>3. CASE UNCHANGED vars
    BY <2>3 DEF vars, Atomic!abstractVars, Committed, Phase, Undecided
  <2> QED
    BY <2>0, <2>1, <2>2, <2>3, AbstractBegin, AbstractApply, AbstractRollback, AbstractEmit,
       AbstractAnswer, AbstractCrash DEF Next, Transact
<1> QED
  BY <1>1, <1>2, ItemsInvariant, PTL DEF Spec, ImplementsAtomicItems, Atomic!Spec
=============================================================================
