----------------------------- MODULE AtomicItems -----------------------------
(***************************************************************************)
(* What TransactWriteItems promises: unless the process is killed, the     *)
(* transaction takes effect in one step or not at all, and the client is   *)
(* told which.  Every other request changes one item at a time, and none   *)
(* while a transaction is open.                                            *)
(***************************************************************************)
EXTENDS DynamoItemActions

CONSTANT Torn      \* a file that is not valid JSON

VARIABLES
    db,        \* the items
    phase,     \* none, open, committed, aborted
    acts,      \* the actions of the transaction
    answer     \* the last answer

abstractVars == <<db, phase, acts, answer>>

Init ==
    /\ db = [k \in Keys |-> Absent]
    /\ phase = "none"
    /\ acts = << >>
    /\ answer = "none"

Begin ==
    /\ phase = "none" /\ phase' = "open"
    /\ acts' \in Seq(Action)
    /\ answer' = "none"
    /\ UNCHANGED db

Commit ==
    /\ phase = "open" /\ phase' = "committed"
    /\ db' = Effect(db, acts)
    /\ UNCHANGED <<acts, answer>>

Abort ==
    /\ phase = "open" /\ phase' = "aborted"
    /\ UNCHANGED <<db, acts, answer>>

Answer ==
    /\ phase \in {"committed", "aborted"} /\ phase' = "none"
    /\ acts' = << >>
    /\ answer' = IF phase = "committed" THEN "ok" ELSE "failed"
    /\ UNCHANGED db

\* The process ends: every item that the transaction names may have its old or
\* its new content or be torn.
Crash ==
    /\ phase # "none" /\ phase' = "none"
    /\ acts' = << >>
    /\ answer' = "none"
    /\ \A k \in Keys :
          \/ db'[k] \in {db[k], Effect(db, acts)[k]}
          \/ db'[k] = Torn /\ \E i \in DOMAIN acts : acts[i].key = k

WriteItem(k) ==
    /\ phase = "none"
    /\ db' \in {[db EXCEPT ![k] = f] : f \in Item \cup {Absent, Torn}}
    /\ answer' \in {"none", "ok", "failed"}
    /\ UNCHANGED <<phase, acts>>

Next == Begin \/ Commit \/ Abort \/ Answer \/ Crash \/ \E k \in Keys : WriteItem(k)

Spec == Init /\ [][Next]_abstractVars

=============================================================================
