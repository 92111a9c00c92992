---------------------------- MODULE SessionStore ----------------------------
(***************************************************************************)
(* One conversation session of the desktop shell: its append-only JSONL    *)
(* log, the coordinator's in-memory write state and per-id operation chain *)
(* (desktop/src/sessions/coordinator.ts), the file mechanics of the store  *)
(* (jsonl-store.ts, format.ts), the manager's live overlay (manager.ts)    *)
(* and the trash (trash.ts).  Sessions share no state with one another, so *)
(* the module is about one id.                                             *)
(*                                                                         *)
(* A log is a sequence of complete lines and possibly a final line without *)
(* its newline.  Reads, appends and repairs of the session run one at a    *)
(* time on its chain; the moves of delete, restore and purge do not.  What *)
(* a method does after its chained operation runs before any later file    *)
(* operation can finish, so it is part of the operation's last step.       *)
(***************************************************************************)
EXTENDS Integers, Sequences, FiniteSets

CONSTANTS
  Batches,     \* the batches of event kinds the renderer appends
  Trash,       \* the trash directories deletes may create
  Uses,        \* the calls, faults and bound on batches considered together
  MaxChain,    \* bound: operations on the chain
  MaxCrashes   \* bound: ends of the process

Kinds == {"start", "end", "cut", "call", "result", "msg", "note"}

ASSUME SessionAssumption ==
  /\ \A b \in Batches : b \in Seq(Kinds \ {"cut"}) /\ b # <<>>
  /\ \A u \in Uses :
       /\ u.calls \subseteq {"append", "read", "open", "close", "delete", "restore", "purge"}
       /\ u.faults \subseteq {"write", "rollback", "publish", "trash"}
       /\ {"write", "publish"} \subseteq u.faults => "restore" \notin u.calls
       /\ u.batches \in Nat
  /\ {MaxChain, MaxCrashes} \subseteq Nat

VARIABLES
  atHome,    \* whether a log of the session is in its project directory
  lines,     \* the complete lines of that log's events
  torn,      \* whether bytes without a newline follow them
  states,    \* the coordinator's state of the id, or NoState
  chain,     \* the id's operations, the running one first
  live,      \* <<events>> of the live overlay, or <<>> when not live
  bins,      \* the trash directories and the deletes that fill them
  restoring, \* <<t, phase>> of a restore from t, or <<>>
  closed,    \* whether the manager is closed to new calls
  asked,     \* how many batches were asked for
  born,      \* how many of them before the process started
  crashes,   \* how many times the process ended
  use,       \* the use this behaviour is about
  acked,     \* history: the events whose append succeeded and not purged
  refused    \* history: the batches whose append was rejected

disk == <<atHome, lines, torn>>
memory == <<states, chain, live>>
moves == <<bins, restoring>>
life == <<closed, asked, born, crashes, use>>
history == <<acked, refused>>
vars == <<disk, memory, moves, life, history>>

\* The manager's methods the clients call, and the file operations that fail.
Calls == use.calls
Faults == use.faults

\* Bound: how many batches they append.
MaxBatches == use.batches

-----------------------------------------------------------------------------
(* Events and logs.                                                        *)

\* A line is an event with its sequence number and the batch it came from
\* (0 for an event of the store itself), or a line that does not parse.
Event(kind, seq, batch) == [kind |-> kind, seq |-> seq, batch |-> batch]

Junk == Event("junk", 0, 0)

\* The events of a batch, numbered from the cursor.
Numbered(kinds, cursor, batch) ==
  [i \in 1..Len(kinds) |-> Event(kinds[i], cursor + i - 1, batch)]

IsTurnEnd(e) == e.kind \in {"end", "cut"}

\* A turn is open at the end of a log when no end follows its start.
OpenTurn(events) ==
  \E i \in 1..Len(events) :
    /\ events[i].kind = "start"
    /\ \A j \in i + 1..Len(events) : ~ IsTurnEnd(events[j])

\* A tool call is pending when neither its result nor a new turn follows.
PendingCall(events) ==
  \E i \in 1..Len(events) :
    /\ events[i].kind = "call"
    /\ \A j \in i + 1..Len(events) :
          ~ IsTurnEnd(events[j]) /\ events[j].kind \notin {"start", "result"}

\* The synthetic events that close an open tail turn: a cancelled result
\* for a pending call and then an interrupted turn/end.
InterruptedTurnClosers(events) ==
  IF ~ OpenTurn(events) THEN <<>>
  ELSE Numbered(IF PendingCall(events) THEN <<"result", "cut">> ELSE <<"cut">>,
                Len(events), 0)

\* The number of lines that parse and continue the log.
Kept(ls) ==
  LET Sound(i) == ls[i].kind # "junk" /\ ls[i].seq = i - 1
  IN  CHOOSE n \in 0..Len(ls) :
        (\A i \in 1..n : Sound(i)) /\ (n < Len(ls) => ~ Sound(n + 1))

\* The events a scan of the log preserves, ...
Scanned(ls) == SubSeq(ls, 1, Kept(ls))

\* ... and whether it refuses the log instead: a turn was committed after
\* the line the scan cannot accept.
Corrupt(ls) == \E i \in Kept(ls) + 1..Len(ls) : IsTurnEnd(ls[i])

\* The lines after bytes of whole lines are appended: a torn tail swallows
\* the first of them.
Extended(ls, tail, new) ==
  IF tail /\ new # <<>> THEN ls \o <<Junk>> \o Tail(new) ELSE ls \o new

-----------------------------------------------------------------------------
(* The coordinator's state and its chain.                                  *)

NoState == [cursor |-> -1, materialized |-> FALSE]

\* The size of the log before a write that has to be undone.
NoSize == [lines |-> 0, torn |-> FALSE]

Operation(call, kinds, batch) ==
  [call |-> call, kinds |-> kinds, batch |-> batch, phase |-> "ready",
   state |-> NoState, size |-> NoSize]

Running(phase) == chain # <<>> /\ Head(chain).phase = phase

Op == Head(chain)

\* The running operation goes on in a phase, or leaves the chain.
Proceed(phase, state) ==
  chain' = <<[Op EXCEPT !.phase = phase, !.state = state]>> \o Tail(chain)

Leave == chain' = Tail(chain)

IsAppend(op) == op.call \in {"append", "create"}

\* Mutant: a failed operation is never taken off the chain.
MutThrow ==
  /\ UNCHANGED chain
  /\ refused' = IF IsAppend(Op) THEN refused \cup {Op.batch} ELSE refused
  /\ UNCHANGED <<states, live, acked>>

\* The running operation fails: an append is rejected, anything else only
\* throws.
Throw ==
  /\ Leave
  /\ refused' = IF IsAppend(Op) THEN refused \cup {Op.batch} ELSE refused
  /\ UNCHANGED <<states, live, acked>>

\* The events the running operation is about to write.
Outgoing ==
  IF Op.phase = "closers" THEN InterruptedTurnClosers(lines)
  ELSE Numbered(Op.kinds, Op.state.cursor, Op.batch)

-----------------------------------------------------------------------------
(* Trash directories.                                                      *)

\* A trash directory and the delete that fills it: the directory exists or
\* not, and holds a tombstone, one that does not parse, or none, and the log
\* that was moved there, or <<>>.  The delete is over when deleteSession
\* returned or failed before the move, and failed when it threw after it.
Bin(phase, tombstone, dir, moved) ==
  [phase |-> phase, tombstone |-> tombstone, dir |-> dir, log |-> moved]

NoBin == Bin("unused", "none", FALSE, <<>>)

-----------------------------------------------------------------------------
(* Calls of the manager.  A closed manager refuses them.                   *)

\* createSession: the coordinator records the intent only; a title or a
\* seed is appended before the id is returned.
CreateSession ==
  /\ asked = 0 /\ ~ closed
  /\ asked' = 1
  /\ states' = [cursor |-> 0, materialized |-> FALSE]
  /\ \/ chain' = <<>> /\ live' = <<<<>>>>
     \/ \E kinds \in Batches :
          chain' = <<Operation("create", kinds, 1)>> /\ UNCHANGED live
  /\ UNCHANGED <<disk, moves, closed, born, crashes, use, history>>

\* Clients know the id once createSession returned it or a listing shows it.
Known == atHome \/ live # <<>> \/ \E t \in Trash : bins[t].phase # "unused"

\* A method takes its place behind the id's operations in flight.
Enqueue(op) ==
  /\ Known /\ ~ closed /\ Len(chain) < MaxChain
  /\ chain' = Append(chain, op)
  /\ UNCHANGED <<disk, states, live, moves, closed, born, crashes, use, history>>

\* appendEvents, and renameSession and setArchived with their one event.
AppendEvents ==
  /\ "append" \in Calls /\ asked < MaxBatches
  /\ asked' = asked + 1
  /\ \E kinds \in Batches : Enqueue(Operation("append", kinds, asked + 1))

ReadSession ==
  "read" \in Calls /\ Enqueue(Operation("read", <<>>, 0)) /\ UNCHANGED asked

OpenSession ==
  /\ "open" \in Calls /\ live = <<>>
  /\ Enqueue(Operation("open", <<>>, 0)) /\ UNCHANGED asked

\* bound: as many deletes as there are trash directories.
DeleteSession ==
  /\ "delete" \in Calls
  /\ Cardinality({i \in 1..Len(chain) : chain[i].call = "delete"})
       < Cardinality({t \in Trash : bins[t].phase = "unused"})
  /\ Enqueue(Operation("delete", <<>>, 0)) /\ UNCHANGED asked

CloseSession ==
  /\ "close" \in Calls /\ ~ closed /\ live # <<>>
  /\ live' = <<>>
  /\ UNCHANGED <<disk, states, chain, moves, life, history>>

-----------------------------------------------------------------------------
(* Steps of the running operation.                                         *)

\* loadStored finds the log in its project directory and can read it.
Readable == atHome /\ ~ Corrupt(lines)

\* load, adopt: the log ends in bytes to drop or in a turn to close.
NeedsRepair ==
  \/ torn \/ Kept(lines) < Len(lines)
  \/ InterruptedTurnClosers(Scanned(lines)) # <<>>

\* load returns the stored events; the manager makes them the live overlay.
\* A state in memory is brought up to date, none is made.
Loaded ==
  /\ Leave
  /\ live' = <<Scanned(lines)>>
  /\ states' = IF states = NoState THEN NoState
               ELSE [cursor |-> Kept(lines), materialized |-> TRUE]
  /\ UNCHANGED history

\* adopt builds the state an untracked append continues with.  The state
\* is not kept in the coordinator's map.
Adopted ==
  /\ Proceed("write", [cursor |-> Kept(lines), materialized |-> TRUE])
  /\ UNCHANGED <<states, live, history>>

\* An append with a state in memory goes straight to its write.
BeginTracked ==
  /\ Running("ready") /\ IsAppend(Op) /\ states # NoState
  /\ Proceed("write", states)
  /\ UNCHANGED <<disk, states, live, moves, life, history>>

\* A read, or an append to an id without a state, loads the log first.
BeginLoad ==
  /\ Running("ready")
  /\ Op.call = "read" \/ (IsAppend(Op) /\ states = NoState)
  /\ \/ ~ Readable /\ Throw
     \/ /\ Readable /\ NeedsRepair
        /\ Proceed("repair", NoState) /\ UNCHANGED <<states, live, history>>
     \/ /\ Readable /\ ~ NeedsRepair
        /\ IF Op.call = "read" THEN Loaded ELSE Adopted
  /\ UNCHANGED <<disk, moves, life>>

\* inspect shows openSession the log with the closers it does not write.
InspectToOpen ==
  /\ Running("ready") /\ Op.call = "open"
  /\ IF Readable
     THEN /\ Leave
          /\ live' = <<Scanned(lines) \o InterruptedTurnClosers(Scanned(lines))>>
          /\ UNCHANGED <<states, history>>
     ELSE Throw
  /\ UNCHANGED <<disk, moves, life>>

\* deleteSession inspects the log on the chain and goes on off the chain,
\* with a trash directory of its own.
InspectToDelete ==
  /\ Running("ready") /\ Op.call = "delete"
  /\ IF Readable
     THEN /\ Leave
          /\ \E t \in Trash :
               /\ bins[t].phase = "unused"
               /\ bins' = [bins EXCEPT ![t] = Bin("tombstone", "none", FALSE, <<>>)]
          /\ UNCHANGED <<states, live, history>>
     ELSE Throw /\ UNCHANGED bins
  /\ UNCHANGED <<disk, restoring, life>>

\* Mutant: the last line before the torn tail is dropped with it.
MutRepairTooFar ==
  /\ Running("repair")
  /\ IF atHome
     THEN /\ lines' = IF torn THEN SubSeq(lines, 1, Kept(lines) - 1) ELSE Scanned(lines)
          /\ torn' = FALSE
          /\ Proceed(IF OpenTurn(lines') THEN "closers" ELSE "reload", NoState)
          /\ UNCHANGED <<atHome, states, live, history>>
     ELSE Throw /\ UNCHANGED disk
  /\ UNCHANGED <<moves, life>>

\* commitRepair truncates the log to the lines the scan preserved ...
RepairTail ==
  /\ Running("repair")
  /\ IF atHome
     THEN /\ lines' = Scanned(lines) /\ torn' = FALSE
          /\ Proceed(IF OpenTurn(lines') THEN "closers" ELSE "reload", NoState)
          /\ UNCHANGED <<atHome, states, live, history>>
     ELSE Throw /\ UNCHANGED disk
  /\ UNCHANGED <<moves, life>>

\* ... and, when the closers are written, the log is read again.
Reload ==
  /\ Running("reload")
  /\ IF ~ Readable THEN Throw
     ELSE IF Op.call = "read" THEN Loaded ELSE Adopted
  /\ UNCHANGED <<disk, moves, life>>

\* appendLines: whole lines are written and synced at the log's path, ...
Written ==
  lines' = Extended(lines, torn, Outgoing) /\ torn' = FALSE /\ atHome' = atHome

\* ... or only some of their bytes are.
PartlyWritten ==
  \E k \in 0..Len(Outgoing), t \in BOOLEAN :
    /\ lines' = Extended(lines, torn, SubSeq(Outgoing, 1, k))
    /\ torn' = IF k = Len(Outgoing) THEN FALSE ELSE t \/ (k = 0 /\ torn)
    /\ atHome' = atHome

\* The append is durable: the batch is answered, the state in memory and
\* the live overlay advance.
Acknowledge ==
  LET events == Outgoing
  IN  /\ Leave
      /\ acked' = acked \cup {events[i] : i \in 1..Len(events)}
      /\ states' = IF states = NoState THEN NoState
                   ELSE [cursor |-> Op.state.cursor + Len(events), materialized |-> TRUE]
      /\ live' = IF Op.call = "create" THEN <<events>>
                 ELSE IF live = <<>> THEN <<>> ELSE <<live[1] \o events>>
      /\ UNCHANGED refused

\* The running operation appends to a log that exists.
Appending == Running("closers") \/ (Running("write") /\ Op.state.materialized)

AppendLines ==
  /\ Appending
  /\ \/ /\ atHome /\ Written
        /\ IF Op.phase = "closers"
           THEN Proceed("reload", NoState) /\ UNCHANGED <<states, live, history>>
           ELSE Acknowledge
     \/ ~ atHome /\ Throw /\ UNCHANGED disk
  /\ UNCHANGED <<moves, life>>

\* A write or sync fails part way; the size before it is remembered.
AppendFails ==
  /\ "write" \in Faults /\ Appending /\ atHome
  /\ PartlyWritten
  /\ chain' = <<[Op EXCEPT !.phase = "rollback",
                           !.size = [lines |-> Len(lines), torn |-> torn]]>>
              \o Tail(chain)
  /\ UNCHANGED <<states, live, moves, life, history>>

\* Mutant: the bytes that were written stay.
MutRollbackAppend ==
  /\ Running("rollback")
  /\ Throw
  /\ UNCHANGED <<disk, moves, life>>

\* rollbackAppend restores that size at the log's path, unless it fails.
RollbackAppend ==
  /\ Running("rollback")
  /\ Throw
  /\ \/ /\ atHome
        /\ lines' = SubSeq(lines, 1, Op.size.lines) /\ torn' = Op.size.torn
        /\ UNCHANGED atHome
     \/ /\ ~ atHome \/ "rollback" \in Faults
        /\ UNCHANGED disk
  /\ UNCHANGED <<moves, life>>

\* materialize publishes the header and the first batch under a new name;
\* it refuses a log that is already there, not one in the trash.
Materialize ==
  /\ Running("write") /\ ~ Op.state.materialized
  /\ \/ /\ ~ atHome
        /\ atHome' = TRUE /\ lines' = Outgoing /\ UNCHANGED torn
        /\ Acknowledge \/ ("publish" \in Faults /\ Throw)
     \/ /\ atHome \/ "write" \in Faults
        /\ Throw /\ UNCHANGED disk
  /\ UNCHANGED <<moves, life>>

-----------------------------------------------------------------------------
(* Delete, restore and purge, off the chain.                               *)

\* The tombstone is written before the log is moved.
WriteTombstone(t) ==
  /\ bins[t].phase = "tombstone"
  /\ \/ bins' = [bins EXCEPT ![t] = Bin("move", "whole", TRUE, <<>>)]
     \/ /\ "trash" \in Faults
        /\ \E left \in {"none", "unreadable", "whole"} :
             bins' = [bins EXCEPT ![t] = Bin("over", left, TRUE, <<>>)]
  /\ UNCHANGED <<disk, memory, restoring, life, history>>

\* The session's directory moves into the trash directory, unless either
\* is gone.
MoveToTrash(t) ==
  /\ bins[t].phase = "move"
  /\ \/ /\ atHome /\ bins[t].dir
        /\ atHome' = FALSE /\ lines' = <<>> /\ torn' = FALSE
        /\ bins' = [bins EXCEPT ![t] = Bin("rewrite", bins[t].tombstone, TRUE,
                                          <<[lines |-> lines, torn |-> torn]>>)]
     \/ /\ ~ atHome \/ ~ bins[t].dir \/ "trash" \in Faults
        /\ bins' = [bins EXCEPT ![t] =
                      Bin("over", bins[t].tombstone, bins[t].dir, bins[t].log)]
        /\ UNCHANGED disk
  /\ UNCHANGED <<memory, restoring, life, history>>

\* Mutant: the live overlay is kept.
MutForget == states' = NoState /\ UNCHANGED live

\* deleteSession drops the live overlay and the coordinator's state.
Forget == states' = NoState /\ live' = <<>>

\* The tombstone is rewritten with the title, and the session is forgotten;
\* when the rewrite fails, deleteSession throws and forgets nothing.
RewriteTombstone(t) ==
  /\ bins[t].phase = "rewrite"
  /\ \/ /\ bins[t].dir
        /\ bins' = [bins EXCEPT ![t] = Bin("over", "whole", TRUE, bins[t].log)]
        /\ Forget
     \/ /\ ~ bins[t].dir \/ "trash" \in Faults
        /\ \E left \in IF bins[t].dir THEN {"unreadable", "whole"} ELSE {"none"} :
             bins' = [bins EXCEPT ![t] = Bin("failed", left, bins[t].dir, bins[t].log)]
        /\ UNCHANGED <<live, states>>
  /\ UNCHANGED <<disk, chain, restoring, life, history>>

\* The entries listTrash shows.
Listed == {t \in Trash : bins[t].tombstone = "whole" \/ bins[t].log # <<>>}

\* restoreSession finds the entry and reads the header of its log; it does
\* nothing for an entry without one.
FindToRestore(t) ==
  /\ "restore" \in Calls /\ ~ closed /\ restoring = <<>>
  /\ t \in Listed /\ bins[t].log # <<>>
  /\ restoring' = <<t, "move">>
  /\ UNCHANGED <<disk, memory, bins, life, history>>

\* The log moves back, unless it is gone or another one is in its place.
MoveBack ==
  /\ restoring # <<>> /\ restoring[2] = "move"
  /\ LET t == restoring[1]
     IN  \/ /\ bins[t].log # <<>> /\ ~ atHome
            /\ atHome' = TRUE
            /\ lines' = bins[t].log[1].lines /\ torn' = bins[t].log[1].torn
            /\ bins' = [bins EXCEPT ![t] =
                          Bin(bins[t].phase, bins[t].tombstone, bins[t].dir, <<>>)]
            /\ restoring' = <<t, "forget">>
         \/ /\ bins[t].log = <<>> \/ atHome \/ "trash" \in Faults
            /\ restoring' = <<>> /\ UNCHANGED <<disk, bins>>
  /\ UNCHANGED <<memory, life, history>>

\* The tombstone is removed and the coordinator's state dropped.
FinishRestore ==
  /\ restoring # <<>> /\ restoring[2] = "forget"
  /\ LET t == restoring[1]
     IN  \/ /\ bins' = [bins EXCEPT ![t] = Bin(bins[t].phase, "none", bins[t].dir, bins[t].log)]
            /\ states' = NoState
         \/ "trash" \in Faults /\ UNCHANGED <<bins, states>>
  /\ restoring' = <<>>
  /\ UNCHANGED <<disk, chain, live, life, history>>

\* The trash directory is removed with all it holds, or part of it is; what
\* was acknowledged goes with the log.
PurgeSession(t) ==
  /\ "purge" \in Calls /\ ~ closed
  /\ t \in Listed
  /\ \E dir, entry, moved \in BOOLEAN :
       /\ dir \/ entry \/ moved => dir /\ "trash" \in Faults
       /\ bins' = [bins EXCEPT ![t] =
            Bin(bins[t].phase, IF entry THEN bins[t].tombstone ELSE "none", dir,
                IF moved THEN bins[t].log ELSE <<>>)]
       /\ acked' = IF moved \/ bins[t].log = <<>> THEN acked
                   ELSE acked \ {bins[t].log[1].lines[i] : i \in DOMAIN bins[t].log[1].lines}
  /\ UNCHANGED <<disk, memory, restoring, life, refused>>

-----------------------------------------------------------------------------
(* The end of the process.                                                 *)

\* close: new calls are refused, the chains run out.
Close ==
  /\ asked > 0 /\ ~ closed /\ closed' = TRUE
  /\ UNCHANGED <<disk, memory, moves, asked, born, crashes, use, history>>

\* A delete that was under way stops where it is; a tombstone that was
\* being rewritten may be left unreadable.
CutShort ==
  \E spoilt \in SUBSET {t \in Trash : bins[t].phase = "rewrite" /\ bins[t].dir} :
    bins' = [t \in Trash |->
      Bin(IF bins[t].phase = "unused" THEN "unused" ELSE "over",
          IF t \in spoilt THEN "unreadable" ELSE bins[t].tombstone,
          bins[t].dir, bins[t].log)]

\* What the process held in memory is gone, and it starts again.
Restart ==
  /\ crashes < MaxCrashes
  /\ states' = NoState /\ chain' = <<>> /\ live' = <<>> /\ restoring' = <<>>
  /\ CutShort
  /\ closed' = FALSE /\ born' = asked /\ crashes' = crashes + 1
  /\ UNCHANGED <<asked, use, history>>

\* The shutdown waits for the chains, not for deletes and restores.
Exit == closed /\ chain = <<>> /\ Restart /\ UNCHANGED disk

\* A crash may leave part of what was being written.
Crash ==
  /\ Restart
  /\ \/ UNCHANGED disk
     \/ Appending /\ atHome /\ PartlyWritten
     \/ /\ Running("write") /\ ~ Op.state.materialized /\ ~ atHome
        /\ atHome' = TRUE /\ lines' = Outgoing /\ UNCHANGED torn

-----------------------------------------------------------------------------
Init ==
  /\ atHome = FALSE /\ lines = <<>> /\ torn = FALSE
  /\ states = NoState /\ chain = <<>> /\ live = <<>>
  /\ bins = [t \in Trash |-> NoBin]
  /\ restoring = <<>>
  /\ closed = FALSE /\ asked = 0 /\ born = 0 /\ crashes = 0
  /\ use \in Uses
  /\ acked = {} /\ refused = {}

\* The steps of operations in flight.
Step ==
  \/ BeginTracked \/ BeginLoad \/ InspectToOpen \/ InspectToDelete
  \/ RepairTail \/ Reload \/ AppendLines \/ Materialize \/ RollbackAppend
  \/ \E t \in Trash : WriteTombstone(t) \/ MoveToTrash(t) \/ RewriteTombstone(t)
  \/ MoveBack \/ FinishRestore

Call ==
  \/ CreateSession \/ AppendEvents \/ ReadSession \/ OpenSession \/ CloseSession
  \/ DeleteSession \/ \E t \in Trash : FindToRestore(t) \/ PurgeSession(t)

Next == Step \/ Call \/ AppendFails \/ Close \/ Exit \/ Crash

Spec == Init /\ [][Next]_vars

\* File operations that were started complete, and the shutdown goes on
\* once the chains have run out.
FairSpec == Spec /\ WF_vars(Step) /\ WF_vars(Exit)

-----------------------------------------------------------------------------
(* Properties.                                                             *)

\* No first write was published and then reported as failed: such an append
\* is rejected with its events in the log, and the cursor stays behind it
\* until a read (jsonl-store.publish).
Synced == "publish" \notin Faults

\* The session's logs, at home and in the trash.
Logs == (IF atHome THEN {[lines |-> lines, torn |-> torn]} ELSE {})
        \cup {bins[t].log[1] : t \in {x \in Trash : bins[x].log # <<>>}}

\* An event whose append was answered stays in a log, at its sequence
\* number, through crashes, repairs, failed writes of others, deletes and
\* restores, until that log is purged, and every log can be loaded: the scan
\* refuses none that an interrupted writer left (coordinator.append's
\* "durably persist", jsonl-store's rollback and repair, format.ts
\* consumeEventLine).
AckedKept ==
  /\ \A e \in acked : \E l \in Logs : e.seq < Len(l.lines) /\ l.lines[e.seq + 1] = e
  /\ \A l \in Logs : ~ Corrupt(l.lines)

\* An append that was rejected left nothing in the log, so asking again
\* does not write its events twice, unless the log was moved away before the
\* rollback (jsonl-store.appendLines).
RefusedLeavesNothing ==
  (Synced /\ ("write" \in Faults => "delete" \notin Calls)) =>
    \A l \in Logs : \A i \in 1..Len(l.lines) : l.lines[i].batch \notin refused

\* While a session is in the trash only, the manager neither shows it as live
\* nor holds a cursor of it, so that nothing is appended from memory after a
\* restore, unless a delete is still to forget it or threw after the move
\* (manager.deleteSession).
TrashedIsForgotten ==
  /\ ~ atHome /\ \E t \in Trash : bins[t].log # <<>>
  /\ \A t \in Trash : bins[t].phase \notin {"rewrite", "failed"}
  => live = <<>> /\ states = NoState

\* Every operation taken onto the chain leaves it, so that close finishes
\* (coordinator.serialize and whenIdle).
ChainRunsOut == [](closed => <>(chain = <<>>))

=============================================================================
