--------------------------- MODULE MCSessionStore ---------------------------
(* Small instances of SessionStore for TLC.                                *)
EXTENDS SessionStore, TLC

CONSTANTS t1, t2

OneTurn == {<<"start", "call">>, <<"msg", "end">>}

TwoBins == {t1, t2}

\* Failing writes with reads; the live overlay with a first write that fails
\* after it was published; deletes with failing writes, with such a first
\* write, and with restores, where the moves and tombstones fail too; purges.
SixUses == {
  [calls |-> {"append", "read"}, faults |-> {"write"}, batches |-> 3],
  [calls |-> {"append", "read", "open", "close"}, faults |-> {"publish"}, batches |-> 2],
  [calls |-> {"append", "delete"}, faults |-> {"write"}, batches |-> 2],
  [calls |-> {"append", "delete"}, faults |-> {"publish", "trash"}, batches |-> 2],
  [calls |-> {"append", "delete", "restore"}, faults |-> {"trash"}, batches |-> 2],
  [calls |-> {"delete", "restore", "purge"}, faults |-> {"trash"}, batches |-> 1]}

=============================================================================
