------------------------------- MODULE MongoTx -------------------------------
(***************************************************************************)
(* The part of MongoDB's multi-document transactions the services rely on. *)
(* A transaction reads from the snapshot of its first operation, locks     *)
(* what it writes until it ends, and a write to a document which another   *)
(* transaction holds, or which was committed after the snapshot, throws    *)
(* WriteConflict.  A write outside a transaction waits for the lock        *)
(* instead.                                                                *)
(*                                                                         *)
(* stale[t] is the set of documents committed since the snapshot of the    *)
(* open transaction t; it is empty while t is not open.                    *)
(***************************************************************************)

\* docs are committed while the transactions in open are running
Committed(stale, open, docs) ==
    [t \in DOMAIN stale |-> IF t \in open THEN stale[t] \cup docs ELSE stale[t]]

\* t writes docs while other transactions hold the documents in held
WriteConflict(stale, t, docs, held) == (stale[t] \cup held) \cap docs # {}

\* t commits, aborts or takes its snapshot
Forget(stale, t) == [stale EXCEPT ![t] = {}]

==============================================================================
