------------------------ MODULE DynamoStreamConsumers ------------------------
(***************************************************************************)
(* Clients that read a change stream (handler_streams.go and the reading   *)
(* half of storage_streams.go), composed with the storage of DynamoStreams. *)
(*                                                                         *)
(* A shard iterator is a token {table, position}.  The server keeps no     *)
(* state about it, so it outlives trims, restarts and the stream it was    *)
(* made for.  Reading takes streamsMu and buf.mu but not s.mu.             *)
(***************************************************************************)
EXTENDS DynamoStreams, Sequences

CONSTANTS
    Clients,       \* stream consumers
    Limits,        \* values of the Limit parameter of GetRecords
    MaxReads       \* bound on the GetRecords calls of one iterator

ASSUME ConsumersAssumption ==
    /\ Limits \subseteq Nat \ {0}
    /\ MaxReads \in Nat

VARIABLES
    iter,      \* the client's iterator, or its GetShardIterator call in flight
    seen       \* records delivered through the iterator, in order

consumerVars == <<iter, seen>>
allVars == <<vars, consumerVars>>

NoIter == [step |-> "none", t |-> Nil, type |-> "none", seq |-> 0, pos |-> 0, reads |-> 0]

IterTypes == {"TRIM_HORIZON", "LATEST", "AT_SEQUENCE_NUMBER", "AFTER_SEQUENCE_NUMBER"}
BySeq == {"AT_SEQUENCE_NUMBER", "AFTER_SEQUENCE_NUMBER"}

-----------------------------------------------------------------------------
(* Indexes into the slice of records. *)

Rank(recs, r) == Cardinality({s \in recs : s.n < r.n})

\* Mutant of FindSeqPos: AFTER_SEQUENCE_NUMBER is treated like AT.
FindSeqPosAt(recs, seq, type) == Cardinality({r \in recs : r.seq < seq})

\* findSeqPos: the index of the first record with this number or a larger one,
\* plus one for AFTER and an equal number.
FindSeqPos(recs, seq, type) ==
    LET hits == {r \in recs : r.seq >= seq} IN
    IF hits = {} THEN Cardinality(recs)
    ELSE LET first == CHOOSE r \in hits : \A s \in hits : r.n <= s.n IN
         IF first.seq = seq /\ type = "AFTER_SEQUENCE_NUMBER"
         THEN Rank(recs, first) + 1
         ELSE Rank(recs, first)

StartPos(recs, it) ==
    CASE it.type = "TRIM_HORIZON" -> 0
      [] it.type = "LATEST"       -> Cardinality(recs)
      [] it.type \in BySeq        -> FindSeqPos(recs, it.seq, it.type)

AtOrAfter(recs, pos) == {r \in recs : Rank(recs, r) >= pos}

Records(t) == IF streams[t] = Nil THEN {} ELSE BufRecs(t)

InOrder(recs) ==
    [i \in 1..Cardinality(recs) |-> (CHOOSE r \in recs : Rank(recs, r) = i - 1).n]

-----------------------------------------------------------------------------
(* GetShardIterator: the stream is looked up under s.mu ... *)
CheckStream(c, t, type, seq) ==
    /\ up /\ writer = Idle
    /\ Readable(t) /\ meta[t].view # "nil"
    /\ iter[c].step # "checked"
    /\ iter' = [iter EXCEPT ![c] =
         [step |-> "checked", t |-> t, type |-> type, seq |-> seq, pos |-> 0, reads |-> 0]]
    /\ seen' = [seen EXCEPT ![c] = << >>]
    /\ UNCHANGED vars

\* ... and the position is computed after s.mu was released, from whatever
\* buffer the table has then (position 0 when it has none).
Position(c) ==
    /\ up
    /\ iter[c].step = "checked"
    /\ LET t == iter[c].t
           pos == IF streams[t] = Nil THEN 0 ELSE StartPos(Records(t), iter[c])
       IN iter' = [iter EXCEPT ![c] = [NoIter EXCEPT !.step = "ready", !.t = t, !.pos = pos]]
    /\ UNCHANGED <<vars, seen>>

\* Mutant of GetStreamRecords: a position beyond the end starts over.
GetStreamRecordsAgain(c, limit) ==
    /\ up
    /\ iter[c].step = "ready"
    /\ iter[c].reads < MaxReads
    /\ LET recs == Records(iter[c].t)
           len == Cardinality(recs)
           start == IF iter[c].pos > len THEN 0 ELSE iter[c].pos
           end == IF start + limit < len THEN start + limit ELSE len
           batch == AtOrAfter(recs, start) \ AtOrAfter(recs, end)
       IN /\ iter' = [iter EXCEPT ![c].pos = end, ![c].reads = @ + 1]
          /\ seen' = [seen EXCEPT ![c] = @ \o InOrder(batch)]
    /\ UNCHANGED vars

\* GetRecords: the records from the position on, at most limit of them, and the
\* position after them.  Without a buffer: nothing, and the same position.
GetStreamRecords(c, limit) ==
    /\ up
    /\ iter[c].step = "ready"
    /\ iter[c].reads < MaxReads
    /\ IF streams[iter[c].t] = Nil
       THEN /\ iter' = [iter EXCEPT ![c].reads = @ + 1]
            /\ UNCHANGED seen
       ELSE LET recs == Records(iter[c].t)
                len == Cardinality(recs)
                start == IF iter[c].pos > len THEN len ELSE iter[c].pos
                end == IF start + limit < len THEN start + limit ELSE len
                batch == AtOrAfter(recs, start) \ AtOrAfter(recs, end)
            IN /\ iter' = [iter EXCEPT ![c].pos = end, ![c].reads = @ + 1]
               /\ seen' = [seen EXCEPT ![c] = @ \o InOrder(batch)]
    /\ UNCHANGED vars

\* The process ends while the call is between its two steps.
CallLost(c) ==
    /\ ~up /\ iter[c].step = "checked"
    /\ iter' = [iter EXCEPT ![c] = NoIter]
    /\ UNCHANGED <<vars, seen>>

-----------------------------------------------------------------------------
CInit ==
    /\ Init
    /\ iter = [c \in Clients |-> NoIter]
    /\ seen = [c \in Clients |-> << >>]

ConsumerStep(c) ==
    \/ \E t \in Tables, type \in IterTypes \ BySeq : CheckStream(c, t, type, 0)
    \/ \E t \in Tables, type \in BySeq, n \in 1..MaxEvents :
          CheckStream(c, t, type, MsPerTick + n)
    \/ Position(c)
    \/ \E limit \in Limits : GetStreamRecords(c, limit)
    \/ CallLost(c)

CNext ==
    \/ Next /\ UNCHANGED consumerVars
    \/ \E c \in Clients : ConsumerStep(c)

CSpec == CInit /\ [][CNext]_allVars

-----------------------------------------------------------------------------
(* Properties. *)

\* Every iterator and history has its type.
CTypeOK ==
    /\ iter \in [Clients -> [step : {"none", "checked", "ready"},
                             t : Tables \cup {Nil}, type : IterTypes \cup {"none"},
                             seq : Nat, pos : Nat, reads : Nat]]
    /\ seen \in [Clients -> Seq(1..MaxEvents)]

\* A client that follows NextShardIterator gets records in the order of their
\* emission and none twice, whatever is trimmed, restarted, disabled,
\* re-enabled or recreated between two of its calls.
InOrderOnce ==
    \A c \in Clients : \A i, j \in DOMAIN seen[c] : i < j => seen[c][i] < seen[c][j]

\* An AFTER_SEQUENCE_NUMBER iterator stands before exactly the records with a
\* larger number, an AT_SEQUENCE_NUMBER one also before an equal one: resuming
\* by sequence number neither skips nor repeats.
ResumeIsExact ==
    [][\A c \in Clients :
          (iter[c].step = "checked" /\ iter'[c].step = "ready" /\ iter[c].type \in BySeq
             /\ streams[iter[c].t] # Nil)
          => AtOrAfter(Records(iter[c].t), iter'[c].pos) =
                {r \in Records(iter[c].t) :
                    \/ r.seq > iter[c].seq
                    \/ r.seq = iter[c].seq /\ iter[c].type = "AT_SEQUENCE_NUMBER"}]_allVars

=============================================================================
