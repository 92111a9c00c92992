---------------------------- MODULE SessionSearch ---------------------------
(***************************************************************************)
(* The derived search index over the desktop's sessions                    *)
(* (desktop/src/sessions/search.ts): before every query the engine compares *)
(* the stored logs' revisions with the ones it indexed, loads what changed, *)
(* looks at the revisions again, and replaces rows of stored sessions and  *)
(* of the live overlay in one transaction.  Meanwhile sessions are         *)
(* appended to, opened, deleted and restored.                              *)
(*                                                                         *)
(* The content of a log is the number of appends to it, which is also its  *)
(* revision on disk: a revision is derived from the file's identity, size  *)
(* and times, and every append changes it.                                 *)
(***************************************************************************)
EXTENDS Integers, FiniteSets

CONSTANTS
  SearchUses   \* the corpora, what else happens to them, and the bounds of each

\* search.ts: the observation is repeated once.
ObservationAttempts == 2

ASSUME SearchAssumption ==
  \A u \in SearchUses :
    /\ IsFiniteSet(u.sessions) /\ "sessions" \notin u.sessions
    /\ u.other \subseteq {"closeSession", "endless", "fault", "page", "shutdown"}
    /\ {u.changes, u.restarts, u.generations} \subseteq Nat

VARIABLES
  searchUse,       \* the use this behaviour is about
  log,       \* the appends each stored log holds
  here,      \* the sessions whose log is in the project
  liveNow,      \* the live overlay's content, NotLive when not in it
  mirror,    \* what is written and not yet added to the live overlay
  rows,      \* the rows of stored sessions
  overlay,   \* the temporary rows of live sessions
  gens,      \* the index's generation counters
  engine,    \* the connection: unopened, open or closed
  closing,   \* whether the engine refuses new queries
  job,       \* the query that is running
  cursor,    \* a page cursor that was handed out
  changes,   \* how often the corpus changed
  restarts,  \* how often the process restarted
  answer,    \* history: what the last query answered
  asOf,      \* history: the corpus when that query began
  stayed,    \* history: the sessions stored ever since and not closed
  absent     \* history: the sessions neither stored nor live ever since

corpus == <<searchUse, log, here, liveNow, mirror>>
index == <<rows, overlay, gens>>
queryHistory == <<answer, asOf, stayed, absent>>
searchVars == <<corpus, index, engine, closing, job, cursor, changes, restarts, queryHistory>>

\* The sessions of the corpus.
Sessions == searchUse.sessions

\* Bounds: changes of the corpus, restarts of the process, and the engine's
\* generation up to which queries begin.
MaxChanges == searchUse.changes
MaxRestarts == searchUse.restarts
MaxGenerations == searchUse.generations

NotLive == -1

NoRow == [doc |-> -1, rev |-> -1, gen |-> -1]

NoLiveRow == [doc |-> -1, stored |-> FALSE, gen |-> -1]

NoCursor == [scope |-> "none", stamp |-> <<"none", -1>>, process |-> -1, view |-> <<>>]

NoAnswer == [scope |-> "none", paged |-> FALSE, view |-> <<>>, promised |-> <<>>]

Idle == [phase |-> "idle", scope |-> "none", paged |-> FALSE, attempt |-> 0,
         todo |-> {}, before |-> [s \in Sessions |-> 0],
         after |-> [s \in Sessions |-> 0], loaded |-> [s \in Sessions |-> 0]]

\* What a listing shows of a session: its revision, 0 when it is not there.
Snapshot(s) == IF s \in here THEN log[s] ELSE 0

\* What a client was told of it: the write under way does not count.
Acknowledged(s) ==
  IF s \notin here THEN 0 ELSE IF mirror[s] = "none" THEN log[s] ELSE log[s] - 1

-----------------------------------------------------------------------------
(* The corpus.                                                             *)

Change == changes < MaxChanges /\ changes' = changes + 1

\* Deletes and restores, which bring back what was there, may go on for ever.
Toggle == IF "endless" \in searchUse.other THEN UNCHANGED changes ELSE Change

Quiet == UNCHANGED <<searchUse, index, engine, closing, job, cursor, restarts, answer, asOf>>

\* createSession is lazy: the session is live and has no log; with a seed,
\* the log is written first.
Create(s) ==
  /\ Change /\ log[s] = 0 /\ liveNow[s] = NotLive
  /\ liveNow' = [liveNow EXCEPT ![s] = 0] /\ absent' = absent \ {s}
  /\ Quiet /\ UNCHANGED <<log, here, mirror, stayed>>

\* The write of appendEvents, or of createSession's seed.
Write(s) ==
  /\ Change /\ mirror[s] = "none"
  /\ s \in here \/ log[s] = 0
  /\ log' = [log EXCEPT ![s] = @ + 1]
  /\ here' = here \cup {s} /\ absent' = absent \ {s}
  /\ mirror' = [mirror EXCEPT ![s] = IF log[s] = 0 /\ liveNow[s] = NotLive
                                     THEN "seed" ELSE "append"]
  /\ Quiet /\ UNCHANGED <<liveNow, stayed>>

\* The write's continuation: what it wrote is added to the live session.
Mirror(s) ==
  /\ mirror[s] # "none"
  /\ mirror' = [mirror EXCEPT ![s] = "none"]
  /\ liveNow' = [liveNow EXCEPT ![s] = CASE mirror[s] = "seed" -> log[s]
                                   [] liveNow[s] # NotLive -> @ + 1
                                   [] OTHER -> NotLive]
  /\ Quiet /\ UNCHANGED <<log, here, stayed, absent, changes>>

\* readSession makes a stored session live; it waits for the write before.
Open(s) ==
  /\ Change /\ s \in here /\ liveNow[s] = NotLive /\ mirror[s] = "none"
  /\ liveNow' = [liveNow EXCEPT ![s] = log[s]]
  /\ Quiet /\ UNCHANGED <<log, here, mirror, stayed, absent>>

\* closeSession drops it from the overlay.
Drop(s) ==
  /\ "closeSession" \in searchUse.other /\ Change /\ liveNow[s] # NotLive
  /\ liveNow' = [liveNow EXCEPT ![s] = NotLive]
  /\ stayed' = stayed \ {s}
  /\ Quiet /\ UNCHANGED <<log, here, mirror, absent>>

\* deleteSession moves the log away and later drops the session from the
\* overlay.
MoveAway(s) ==
  /\ Toggle /\ s \in here /\ mirror[s] = "none"
  /\ here' = here \ {s} /\ stayed' = stayed \ {s}
  /\ Quiet /\ UNCHANGED <<log, liveNow, mirror, absent>>

DropDeleted(s) ==
  /\ s \notin here /\ log[s] # 0 /\ liveNow[s] # NotLive
  /\ liveNow' = [liveNow EXCEPT ![s] = NotLive]
  /\ Quiet /\ UNCHANGED <<log, here, mirror, stayed, absent, changes>>

\* restoreSession moves the log back.
RestoreLog(s) ==
  /\ Toggle /\ s \notin here /\ log[s] # 0
  /\ here' = here \cup {s} /\ absent' = absent \ {s}
  /\ Quiet /\ UNCHANGED <<log, liveNow, mirror, stayed>>

-----------------------------------------------------------------------------
(* The query that is running.                                              *)

\* A query for sessions, or for the events of one; a further page brings
\* the cursor.  The connection is opened by the first query, with no live
\* rows and the counters at the stored generation.
Begin(scope, paged) ==
  /\ job.phase = "idle" /\ ~ closing /\ gens.global < MaxGenerations
  /\ paged => cursor # NoCursor /\ cursor.scope = scope
  /\ job' = [Idle EXCEPT !.phase = "before", !.scope = scope, !.paged = paged,
                         !.attempt = 1, !.todo = Sessions]
  /\ engine' = "open"
  /\ gens' = IF engine = "open" THEN gens
             ELSE [gens EXCEPT !.global = gens.main, !.local = gens.main]
  /\ asOf' = [s \in Sessions |-> Acknowledged(s)]
  /\ stayed' = here
  /\ absent' = {s \in Sessions \ here : liveNow[s] = NotLive}
  /\ answer' = NoAnswer
  /\ UNCHANGED <<corpus, rows, overlay, closing, cursor, changes, restarts>>

Working == UNCHANGED <<corpus, engine, closing, changes, restarts>>

Still == UNCHANGED <<index, cursor, queryHistory>> /\ Working

\* The query is over, and so is its history.
Over ==
  /\ job' = Idle /\ answer' = NoAnswer
  /\ asOf' = [s \in Sessions |-> 0] /\ stayed' = {} /\ absent' = {}

Fail == Over /\ UNCHANGED <<index, cursor>> /\ Working

\* Mutant: only logs without a row are loaded.
MutListBefore(s) ==
  /\ job.phase = "before" /\ s \in job.todo
  /\ LET before == [job.before EXCEPT ![s] = Snapshot(s)]
         stale == {x \in Sessions : before[x] # 0 /\ rows[x] = NoRow}
     IN  job' = IF job.todo = {s}
                THEN [job EXCEPT !.before = before, !.phase = "load", !.todo = stale]
                ELSE [job EXCEPT !.before = before, !.todo = @ \ {s}]
  /\ Still

\* Log by log, the listing before: a log whose indexed row has another
\* revision is to be loaded.
ListBefore(s) ==
  /\ job.phase = "before" /\ s \in job.todo
  /\ LET before == [job.before EXCEPT ![s] = Snapshot(s)]
         stale == {x \in Sessions : before[x] # 0 /\ rows[x].rev # before[x]}
     IN  job' = IF job.todo = {s}
                THEN [job EXCEPT !.before = before, !.phase = "load", !.todo = stale]
                ELSE [job EXCEPT !.before = before, !.todo = @ \ {s}]
  /\ Still

\* A stale log is inspected, unless a live session shadows it.
Inspect(s) ==
  /\ job.phase = "load" /\ s \in job.todo
  /\ \/ /\ liveNow[s] = NotLive /\ s \notin here /\ Fail
     \/ /\ liveNow[s] = NotLive => s \in here
        /\ job' = [job EXCEPT !.todo = @ \ {s},
                              !.loaded[s] = IF liveNow[s] = NotLive THEN log[s] ELSE 0]
        /\ Still

ListAgain ==
  /\ job.phase = "load" /\ job.todo = {}
  /\ job' = [job EXCEPT !.phase = "after", !.todo = Sessions]
  /\ Still

\* The listing after, log by log.
ListAfter(s) ==
  /\ job.phase = "after" /\ s \in job.todo
  /\ job' = [job EXCEPT !.after[s] = Snapshot(s), !.todo = @ \ {s}]
  /\ Still

Stable == job.before = job.after

\* Mutant: the observation is repeated until it is stable.
MutRetry ==
  /\ job.phase = "after" /\ job.todo = {} /\ ~ Stable
  /\ job' = [job EXCEPT !.phase = "before", !.todo = Sessions,
                        !.loaded = [s \in Sessions |-> 0]]
  /\ Still

\* The corpus moved: once more, or the query fails.
Retry ==
  /\ job.phase = "after" /\ job.todo = {} /\ ~ Stable
  /\ \/ job.attempt = ObservationAttempts /\ Fail
     \/ /\ job.attempt < ObservationAttempts
        /\ job' = [job EXCEPT !.phase = "before", !.todo = Sessions,
                              !.attempt = @ + 1,
                              !.loaded = [s \in Sessions |-> 0]]
        /\ Still

-----------------------------------------------------------------------------
(* The transaction and the answer.                                         *)

\* The rows a stable observation calls for: a loaded log replaces its row,
\* a log that is gone loses it.
RowChanges == {s \in Sessions : job.before[s] # 0 /\ job.loaded[s] # 0}

RowDeletes == {s \in Sessions : rows[s] # NoRow /\ job.before[s] = 0}

\* A live session is rewritten when its content or its being stored changed.
LiveChanges == {s \in Sessions : /\ liveNow[s] # NotLive
                                 /\ \/ overlay[s].doc # liveNow[s]
                                    \/ overlay[s].stored # (job.before[s] # 0)}

LiveDeletes == {s \in Sessions : overlay[s] # NoLiveRow /\ liveNow[s] = NotLive}

HasWrites == RowChanges \cup RowDeletes \cup LiveChanges \cup LiveDeletes # {}

MainGeneration == IF RowChanges \cup RowDeletes # {} THEN gens.main + 1 ELSE gens.main

LocalBase == IF gens.local > MainGeneration THEN gens.local ELSE MainGeneration

\* The generations given to rewritten live sessions, in some order.
LiveGenerations ==
  {f \in [LiveChanges -> (LocalBase + 1) .. (LocalBase + Cardinality(LiveChanges))] :
     \A s, x \in LiveChanges : f[s] = f[x] => s = x}

\* The row a loaded log gets: the revision is the first listing's.
ReplacePersisted(s) ==
  [doc |-> job.loaded[s], rev |-> job.before[s], gen |-> MainGeneration]

ReplaceLive(s, gen) == [doc |-> liveNow[s], stored |-> job.before[s] # 0, gen |-> gen]

Reconciled(liveGen) ==
  /\ rows' = [s \in Sessions |-> CASE s \in RowChanges -> ReplacePersisted(s)
                                   [] s \in RowDeletes -> NoRow
                                   [] OTHER -> rows[s]]
  /\ overlay' = [s \in Sessions |-> CASE s \in LiveChanges -> ReplaceLive(s, liveGen[s])
                                      [] s \in LiveDeletes -> NoLiveRow
                                      [] OTHER -> overlay[s]]
  /\ gens' = [main |-> MainGeneration,
              global |-> IF HasWrites THEN gens.global + 1 ELSE gens.global,
              local |-> IF LiveChanges = {} THEN gens.local
                        ELSE LocalBase + Cardinality(LiveChanges)]

\* What a query sees of a session: a live row shadows the stored one.
Selected(s) ==
  IF overlay'[s] # NoLiveRow
  THEN [doc |-> overlay'[s].doc, live |-> TRUE, stored |-> overlay'[s].stored]
  ELSE [doc |-> rows'[s].doc, live |-> FALSE, stored |-> rows'[s] # NoRow]

Seen(scope) == [s \in IF scope = "sessions" THEN Sessions ELSE {scope} |-> Selected(s)]

\* The generation a cursor carries: the engine's for sessions, the row's
\* for the events of one session.
Stamp(scope) ==
  CASE scope = "sessions" -> <<"global", gens'.global>>
    [] scope # "sessions" /\ overlay'[scope] # NoLiveRow -> <<"live", overlay'[scope].gen>>
    [] OTHER -> <<"persisted", rows'[scope].gen>>

Missing(scope) == scope # "sessions" /\ Selected(scope).doc = NotLive

\* Mutant: the cursor's process is not compared.
MutCursorHolds(scope) == cursor.stamp = Stamp(scope)

\* decodeCursor: another process's cursor is invalid, another generation's
\* is stale.
CursorHolds(scope) == cursor.process = restarts /\ cursor.stamp = Stamp(scope)

Refuse ==
  /\ Missing(job.scope) \/ (job.paged /\ ~ CursorHolds(job.scope))
  /\ Over /\ UNCHANGED cursor

Reply ==
  /\ ~ Missing(job.scope) /\ (job.paged => CursorHolds(job.scope))
  /\ answer' = [scope |-> job.scope, paged |-> job.paged, view |-> Seen(job.scope),
                promised |-> cursor.view]
  /\ \/ UNCHANGED cursor
     \/ /\ "page" \in searchUse.other
        /\ cursor' = [scope |-> job.scope, stamp |-> Stamp(job.scope),
                      process |-> restarts, view |-> Seen(job.scope)]
  /\ job' = [Idle EXCEPT !.phase = "answered"]
  /\ UNCHANGED <<asOf, stayed, absent>>

\* A stable observation: reconcile and answer, without letting go of the
\* thread; a transaction that fails is rolled back and fails the query.
Settle ==
  /\ job.phase = "after" /\ job.todo = {} /\ Stable
  /\ \/ "fault" \in searchUse.other /\ HasWrites /\ Fail
     \/ /\ \E liveGen \in LiveGenerations : Reconciled(liveGen)
        /\ Refuse \/ Reply
        /\ Working

\* The client has its page, the gate opens for the next query.
Deliver ==
  /\ job.phase = "answered"
  /\ Over /\ UNCHANGED <<index, cursor>> /\ Working

-----------------------------------------------------------------------------
(* The engine's end, and the process's.                                    *)

CloseSearch ==
  /\ "shutdown" \in searchUse.other /\ ~ closing /\ closing' = TRUE
  /\ UNCHANGED <<corpus, index, engine, job, cursor, changes, restarts, queryHistory>>

\* close waits for the query that runs.
Closed ==
  /\ closing /\ job.phase = "idle" /\ engine # "closed"
  /\ engine' = "closed" /\ overlay' = [s \in Sessions |-> NoLiveRow]
  /\ UNCHANGED <<corpus, rows, gens, closing, job, cursor, changes, restarts, queryHistory>>

\* The temporary rows, the live sessions and the counters in memory are lost.
RestartSearch ==
  /\ restarts < MaxRestarts /\ restarts' = restarts + 1
  /\ liveNow' = [s \in Sessions |-> NotLive] /\ mirror' = [s \in Sessions |-> "none"]
  /\ overlay' = [s \in Sessions |-> NoLiveRow]
  /\ gens' = [gens EXCEPT !.global = 0, !.local = 0]
  /\ engine' = "unopened" /\ closing' = FALSE
  /\ Over /\ UNCHANGED <<searchUse, log, here, rows, cursor, changes>>

SearchInit ==
  /\ searchUse \in SearchUses
  /\ log = [s \in Sessions |-> 0] /\ here = {} /\ liveNow = [s \in Sessions |-> NotLive]
  /\ mirror = [s \in Sessions |-> "none"]
  /\ rows = [s \in Sessions |-> NoRow] /\ overlay = [s \in Sessions |-> NoLiveRow]
  /\ gens = [main |-> 0, global |-> 0, local |-> 0]
  /\ engine = "unopened" /\ closing = FALSE /\ job = Idle /\ cursor = NoCursor
  /\ changes = 0 /\ restarts = 0
  /\ answer = NoAnswer /\ asOf = [s \in Sessions |-> 0] /\ stayed = {} /\ absent = {}

Observe == \/ \E s \in Sessions : ListBefore(s) \/ Inspect(s) \/ ListAfter(s)
           \/ ListAgain \/ Retry \/ Settle \/ Deliver

SearchNext ==
  \/ \E s \in Sessions : \/ Create(s) \/ Write(s) \/ Mirror(s) \/ Open(s) \/ Drop(s)
                          \/ MoveAway(s) \/ DropDeleted(s) \/ RestoreLog(s)
  \/ \E scope \in Sessions \cup {"sessions"}, paged \in BOOLEAN : Begin(scope, paged)
  \/ Observe \/ CloseSearch \/ Closed \/ RestartSearch

SearchSpec == SearchInit /\ [][SearchNext]_searchVars

\* The event loop keeps running the query and the close that waits for it.
FairSearchSpec == SearchSpec /\ WF_searchVars(Observe) /\ WF_searchVars(Closed)

-----------------------------------------------------------------------------
(* Properties.                                                             *)

\* A further page is answered only out of the corpus its first page was
\* answered from; otherwise the cursor is refused as stale or invalid
\* (decodeCursor and the generations of _reconcile).
PagesAgree == answer.paged => answer.view = answer.promised

\* An answer misses nothing that was acknowledged when the query began and
\* stayed stored, unless the session was closed meanwhile (a log skipped as
\* live may then be missed): what it sees of such a session is at least as
\* long as what clients had been told of then.  And it shows no session that
\* was neither stored nor live during the whole query (_reconcile).
AnswersAreFresh ==
  /\ \A s \in DOMAIN answer.view \cap stayed : answer.view[s].doc >= asOf[s]
  /\ \A s \in DOMAIN answer.view \cap absent : answer.view[s].doc = NotLive

\* A query ends, with an answer or an error, even when sessions are deleted
\* and restored for ever and no two listings agree: the observation is
\* repeated once only (_observeStable).
QueryEnds == job.phase # "idle" ~> job.phase = "idle"
=============================================================================
