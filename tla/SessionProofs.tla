---------------------------- MODULE SessionProofs ---------------------------
(***************************************************************************)
(* Proofs about the desktop's sessions.                                    *)
(*                                                                         *)
(* Of the derived search index (SessionSearch): an answer is fresh and a   *)
(* further page comes out of the rows of the first, for any sessions, any  *)
(* number of changes to them and any number of restarts.  Neither is       *)
(* inductive: SearchInv adds what the running query knows of every session *)
(* it has looked at (ObservedAt), that a row holds at least the log of its *)
(* revision and no row has a generation its counter has not given out      *)
(* (IndexAt), and that a cursor whose generation is the index's own shows  *)
(* the index's own rows (CursorInv).                                       *)
(*                                                                         *)
(* Of the store (SessionStore): what is in the trash is forgotten.         *)
(***************************************************************************)
EXTENDS SessionStore, SessionSearch, FiniteSetTheorems, TLAPS

Rows == [doc : Int, rev : Int, gen : Int]

LiveRows == [doc : Int, stored : BOOLEAN, gen : Int]

Scopes == Sessions \cup {"sessions"}

Jobs ==
  [phase : {"idle", "before", "load", "after", "answered"}, scope : Scopes \cup {"none"},
   paged : BOOLEAN, attempt : Nat, todo : SUBSET Sessions,
   before : [Sessions -> Nat], after : [Sessions -> Nat], loaded : [Sessions -> Nat]]

SearchTypeOK ==
  /\ searchUse \in SearchUses
  /\ log \in [Sessions -> Nat] /\ here \subseteq Sessions
  /\ liveNow \in [Sessions -> Nat \cup {NotLive}]
  /\ mirror \in [Sessions -> {"none", "seed", "append"}]
  /\ rows \in [Sessions -> Rows] /\ overlay \in [Sessions -> LiveRows]
  /\ gens \in [main : Nat, global : Nat, local : Nat]
  /\ engine \in {"unopened", "open", "closed"} /\ closing \in BOOLEAN
  /\ job \in Jobs /\ restarts \in Nat
  /\ asOf \in [Sessions -> Int] /\ stayed \subseteq Sessions /\ absent \subseteq Sessions

\* What a live session holds of its log.
Told(s) == IF mirror[s] = "none" THEN log[s] ELSE log[s] - 1

\* A live session is its log, up to the write under way; only a log that is
\* in the project is written to.
CorpusAt(s) ==
  /\ s \in here => log[s] > 0
  /\ mirror[s] # "none" => s \in here
  /\ mirror[s] = "seed" => liveNow[s] = NotLive
  /\ liveNow[s] # NotLive => liveNow[s] = Told(s)

\* The histories say what they are meant to say.
HistoryAt(s) ==
  /\ s \in stayed => s \in here /\ asOf[s] <= Told(s)
  /\ s \in absent => s \notin here /\ liveNow[s] = NotLive

Observing == job.phase \in {"before", "load", "after"}

Unlisted(s) == job.phase = "before" /\ s \in job.todo

Uninspected(s) == job.phase = "before" \/ (job.phase = "load" /\ s \in job.todo)

\* What the running query knows of a session: its first listing is no older
\* than the query, what it loaded is no older than the listing, and a log it
\* did not load is indexed at the listed revision or shadowed.
ObservedAt(s) ==
  /\ job.before[s] <= log[s]
  /\ job.phase = "before" => job.loaded[s] = 0
  /\ job.loaded[s] # 0 => job.before[s] <= job.loaded[s]
  /\ ~ Unlisted(s) /\ s \in stayed => job.before[s] > 0 /\ asOf[s] <= job.before[s]
  /\ ~ Unlisted(s) /\ s \in absent => job.before[s] = 0
  /\ ~ Uninspected(s) /\ s \in stayed =>
       job.loaded[s] # 0 \/ rows[s].rev = job.before[s] \/ liveNow[s] # NotLive

\* A row holds at least the log of its revision; generations are handed out
\* by the counters; the temporary rows go with the connection.
IndexAt(s) ==
  /\ rows[s] # NoRow => /\ 0 < rows[s].rev /\ rows[s].rev <= rows[s].doc
                        /\ 0 <= rows[s].gen /\ rows[s].gen <= gens.main
  /\ overlay[s] # NoLiveRow => /\ 0 <= overlay[s].doc
                               /\ 0 <= overlay[s].gen /\ overlay[s].gen <= gens.local
  /\ engine # "open" => overlay[s] = NoLiveRow

EngineInv ==
  /\ engine = "closed" => closing
  /\ job.phase # "idle" => engine = "open"
  /\ Observing => job.scope \in Scopes

\* What a query would see of a session in the index as it is.
LiveView(s) == [doc |-> overlay[s].doc, live |-> TRUE, stored |-> overlay[s].stored]

RowView(s) == [doc |-> rows[s].doc, live |-> FALSE, stored |-> rows[s] # NoRow]

ViewNow == [s \in Sessions |-> IF overlay[s] # NoLiveRow THEN LiveView(s) ELSE RowView(s)]

\* The cursor was handed out by the connection that is open.
Current(c) == c.process = restarts /\ engine = "open"

GlobalCursor(c, g) ==
  /\ c.scope = "sessions" /\ c.stamp = <<"global", g>>
  /\ Current(c) => g <= gens.global /\ (g = gens.global => c.view = ViewNow)

LiveCursor(c, g) ==
  /\ c.scope \in Sessions /\ c.stamp = <<"live", g>>
  /\ Current(c) => /\ g <= gens.local
                   /\ overlay[c.scope].gen = g => c.view = [s \in {c.scope} |-> LiveView(s)]

PersistedCursor(c, g) ==
  /\ c.scope \in Sessions /\ c.stamp = <<"persisted", g>>
  /\ Current(c) => /\ g <= gens.main
                   /\ rows[c.scope].gen = g => c.view = [s \in {c.scope} |-> RowView(s)]

Holds(c, g) == GlobalCursor(c, g) \/ LiveCursor(c, g) \/ PersistedCursor(c, g)

\* A cursor whose generation is the index's was cut from the index as it is.
CursorInv ==
  /\ cursor # NoCursor =>
       /\ cursor.process \in Nat /\ cursor.process <= restarts
       /\ cursor.process = restarts => engine # "unopened"
       /\ \E g \in Nat : Holds(cursor, g)
  /\ Observing /\ job.paged => cursor # NoCursor /\ cursor.scope = job.scope

SearchInv ==
  /\ SearchTypeOK /\ EngineInv /\ CursorInv
  /\ \A s \in Sessions : CorpusAt(s) /\ HistoryAt(s) /\ IndexAt(s)
  /\ Observing => \A s \in Sessions : ObservedAt(s)
  /\ AnswersAreFresh /\ PagesAgree

-----------------------------------------------------------------------------
(* Types.                                                                  *)

\* What happens to a session while the engine looks elsewhere.
CorpusStep(s) == \/ Create(s) \/ Write(s) \/ Mirror(s) \/ Open(s) \/ Drop(s)
                 \/ MoveAway(s) \/ DropDeleted(s) \/ RestoreLog(s)

LEMMA IdleType == Idle \in Jobs
BY Zenon DEF Idle, Jobs

\* A step of the corpus leaves the index, the engine, the query and the answer.
LEMMA CorpusFrame ==
  ASSUME NEW s \in Sessions, CorpusStep(s)
  PROVE  /\ UNCHANGED <<searchUse, rows, overlay, gens, engine, closing, job, cursor, restarts>>
         /\ UNCHANGED <<answer, asOf>>
BY Zenon DEF CorpusStep, Create, Write, Mirror, Open, Drop, MoveAway, DropDeleted, RestoreLog,
       Quiet, index

LEMMA CorpusType ==
  ASSUME SearchTypeOK, NEW s \in Sessions, CorpusStep(s)
  PROVE  SearchTypeOK'
<1>1. CASE Create(s)
  BY Zenon, <1>1, CorpusFrame DEF SearchTypeOK, Jobs, Scopes, Create, Sessions, NotLive
<1>2. CASE Write(s)
  BY <1>2, CorpusFrame DEF SearchTypeOK, Jobs, Scopes, Write, Sessions
<1>3. CASE Mirror(s)
  BY <1>3, CorpusFrame DEF SearchTypeOK, Jobs, Scopes, Mirror, Sessions, NotLive
<1>4. CASE Open(s)
  BY Zenon, <1>4, CorpusFrame DEF SearchTypeOK, Jobs, Scopes, Open, Sessions
<1>5. CASE Drop(s) \/ DropDeleted(s)
  BY <1>5, CorpusFrame DEF SearchTypeOK, Jobs, Scopes, Drop, DropDeleted, Sessions
<1>6. CASE MoveAway(s) \/ RestoreLog(s)
  BY <1>6, CorpusFrame DEF SearchTypeOK, Jobs, Scopes, MoveAway, RestoreLog, Sessions
<1> QED BY Zenon, <1>1, <1>2, <1>3, <1>4, <1>5, <1>6 DEF CorpusStep

\* The steps of a query that move only its job.
Looking ==
  /\ (\E s \in Sessions : ListBefore(s) \/ Inspect(s) \/ ListAfter(s)) \/ ListAgain \/ Retry
  /\ ~ Fail

LEMMA LookingFrame ==
  ASSUME Looking
  PROVE  /\ UNCHANGED <<searchUse, log, here, liveNow, mirror, rows, overlay, gens, engine>>
         /\ UNCHANGED <<closing, cursor, restarts, answer, asOf, stayed, absent>>
<1>1. Still
  BY Zenon DEF Looking, ListBefore, Inspect, ListAfter, ListAgain, Retry
<1> QED BY Zenon, <1>1 DEF Still, Working, corpus, index, queryHistory

\* The first listing of a log, the last one of which names what is to be loaded.
LEMMA ListBeforeJob ==
  ASSUME SearchTypeOK, NEW s \in Sessions, ListBefore(s)
  PROVE  \E before \in [Sessions -> Nat], todo \in SUBSET Sessions,
            phase \in {"before", "load"} :
           /\ before = [job.before EXCEPT ![s] = Snapshot(s)]
           /\ job' = [job EXCEPT !.before = before, !.phase = phase, !.todo = todo]
           /\ phase = "before" => todo = job.todo \ {s}
           /\ phase = "load" => /\ job.todo = {s}
                                /\ todo = {x \in Sessions : /\ before[x] # 0
                                                           /\ rows[x].rev # before[x]}
<1> DEFINE before == [job.before EXCEPT ![s] = Snapshot(s)]
           stale == {x \in Sessions : before[x] # 0 /\ rows[x].rev # before[x]}
<1>1. before \in [Sessions -> Nat] /\ stale \in SUBSET Sessions /\ job \in Jobs
  BY Zenon DEF Jobs, SearchTypeOK, Snapshot
<1>2. job.phase = "before" /\ job.todo \ {s} \in SUBSET Sessions
  BY Zenon, <1>1 DEF ListBefore, Jobs
<1>3. \/ job.todo = {s} /\ job' = [job EXCEPT !.before = before, !.phase = "load", !.todo = stale]
      \/ job' = [job EXCEPT !.before = before, !.todo = @ \ {s}]
  BY Zenon DEF ListBefore
<1>4. [job EXCEPT !.before = before, !.todo = @ \ {s}]
        = [job EXCEPT !.before = before, !.phase = "before", !.todo = job.todo \ {s}]
  <2> HIDE DEF before
  <2> QED BY Zenon, <1>1, <1>2 DEF Jobs
<1>5. stale = {x \in Sessions : before[x] # 0 /\ rows[x].rev # before[x]}
  BY Zenon
<1> HIDE DEF stale
<1>6. CASE job.todo = {s} /\ job' = [job EXCEPT !.before = before, !.phase = "load", !.todo = stale]
  BY Zenon, <1>1, <1>5, <1>6
<1>7. CASE job' = [job EXCEPT !.before = before, !.phase = "before", !.todo = job.todo \ {s}]
  BY Zenon, <1>1, <1>2, <1>7
<1> QED BY Zenon, <1>3, <1>4, <1>6, <1>7

LEMMA InspectJob ==
  ASSUME SearchTypeOK, NEW s \in Sessions, Inspect(s), ~ Fail
  PROVE  \E n \in Nat : /\ n = IF liveNow[s] = NotLive THEN log[s] ELSE 0
                        /\ liveNow[s] = NotLive => s \in here
                        /\ job' = [job EXCEPT !.todo = job.todo \ {s},
                                              !.loaded = [job.loaded EXCEPT ![s] = n]]
<1>1. (IF liveNow[s] = NotLive THEN log[s] ELSE 0) \in Nat
  BY Zenon DEF SearchTypeOK
<1> QED BY Zenon, <1>1 DEF Inspect

LEMMA LookingType ==
  ASSUME SearchTypeOK, Looking
  PROVE  SearchTypeOK'
<1>1. job \in Jobs /\ \A s \in Sessions : Snapshot(s) \in Nat
  BY Zenon DEF SearchTypeOK, Snapshot
<1>2. job' \in Jobs
  <2>1. ASSUME NEW s \in Sessions, ListBefore(s) PROVE job' \in Jobs
    <3>1. PICK before \in [Sessions -> Nat], todo \in SUBSET Sessions,
               phase \in {"before", "load"} :
             job' = [job EXCEPT !.before = before, !.phase = phase, !.todo = todo]
      BY Zenon, <2>1, ListBeforeJob
    <3> QED BY Zenon, <1>1, <3>1 DEF Jobs
  <2>2. ASSUME NEW s \in Sessions, Inspect(s) PROVE job' \in Jobs
    <3>1. PICK n \in Nat : job' = [job EXCEPT !.todo = job.todo \ {s},
                                            !.loaded = [job.loaded EXCEPT ![s] = n]]
      BY Zenon, <2>2, InspectJob DEF Looking
    <3>2. [job.loaded EXCEPT ![s] = n] \in [Sessions -> Nat]
      BY Zenon, <1>1 DEF Jobs
    <3> QED BY Zenon, <1>1, <3>1, <3>2 DEF Jobs
  <2>3. ASSUME NEW s \in Sessions, ListAfter(s) PROVE job' \in Jobs
    BY Zenon, <1>1, <2>3 DEF ListAfter, Jobs
  <2>4. CASE ListAgain
    BY Zenon, <1>1, <2>4 DEF ListAgain, Jobs
  <2>5. CASE Retry
    <3>1. PICK none \in [Sessions -> Nat] :
             job' = [job EXCEPT !.phase = "before", !.todo = Sessions,
                                !.attempt = job.attempt + 1, !.loaded = none]
      BY Zenon, <2>5 DEF Looking, Retry
    <3>2. job.attempt + 1 \in Nat /\ Sessions \in SUBSET Sessions
      BY <1>1 DEF Jobs
    <3> QED BY Zenon, <1>1, <3>1, <3>2 DEF Jobs
  <2> QED BY Zenon, <2>1, <2>2, <2>3, <2>4, <2>5 DEF Looking
<1>3. Sessions' = Sessions /\ Jobs' = Jobs
  BY Zenon, LookingFrame DEF Sessions, Jobs, Scopes
<1> QED BY Zenon, LookingFrame, <1>2, <1>3 DEF SearchTypeOK

\* A query that is over, with the corpus, the rows and the engine as they were.
LEMMA OverType ==
  ASSUME SearchTypeOK, Over, UNCHANGED searchUse
  PROVE  /\ job' \in Jobs' /\ asOf' \in [Sessions' -> Int] /\ stayed' \subseteq Sessions'
         /\ absent' \subseteq Sessions' /\ job' = Idle
<1>1. Sessions' = Sessions /\ Jobs' = Jobs
  BY Zenon DEF Sessions, Jobs, Scopes
<1> QED BY <1>1, IdleType DEF Over

LEMMA BeginType ==
  ASSUME SearchTypeOK, NEW scope \in Scopes, NEW paged \in BOOLEAN, Begin(scope, paged)
  PROVE  SearchTypeOK'
<1>1. UNCHANGED <<searchUse, log, here, liveNow, mirror, rows, overlay, closing, restarts>>
  BY Zenon DEF Begin, corpus
<1>2. Sessions' = Sessions /\ Jobs' = Jobs
  BY Zenon, <1>1 DEF Sessions, Jobs, Scopes
<1>3. job' \in Jobs
  BY Zenon, IdleType DEF Begin, Jobs
<1>4. asOf' \in [Sessions -> Int]
  BY DEF Begin, Acknowledged, SearchTypeOK
<1>5. stayed' \subseteq Sessions /\ absent' \subseteq Sessions
  BY Zenon DEF Begin, SearchTypeOK
<1>6. gens' \in [main : Nat, global : Nat, local : Nat] /\ engine' = "open"
  BY Zenon DEF Begin, SearchTypeOK
<1> QED BY Zenon, <1>1, <1>2, <1>3, <1>4, <1>5, <1>6 DEF SearchTypeOK

\* The generations of a transaction: each counter grows or stays, and a live
\* session that is rewritten gets one above all before.
LEMMA ReconciledType ==
  ASSUME SearchTypeOK, NEW liveGen \in LiveGenerations, Reconciled(liveGen)
  PROVE  /\ rows' \in [Sessions -> Rows] /\ overlay' \in [Sessions -> LiveRows]
         /\ gens' \in [main : Nat, global : Nat, local : Nat]
         /\ gens'.main = MainGeneration /\ gens.main <= MainGeneration
         /\ RowChanges # {} => gens.main < MainGeneration
         /\ gens'.global = IF HasWrites THEN gens.global + 1 ELSE gens.global
         /\ gens.local <= gens'.local
         /\ \A s \in LiveChanges : /\ liveGen[s] \in Nat /\ gens.local < liveGen[s]
                                   /\ liveGen[s] <= gens'.local
<1>1. MainGeneration \in Nat /\ gens.main <= MainGeneration
      /\ (RowChanges # {} => gens.main < MainGeneration)
  BY DEF SearchTypeOK, MainGeneration
<1>2. LocalBase \in Nat /\ gens.local <= LocalBase
  BY <1>1 DEF SearchTypeOK, LocalBase
<1>3. LiveChanges \subseteq Sessions /\ IsFiniteSet(Sessions)
  BY Zenon, SearchAssumption DEF LiveChanges, SearchTypeOK, Sessions
<1>4. Cardinality(LiveChanges) \in Nat
  BY Zenon, <1>3, FS_Subset, FS_CardinalityType
<1>5. \A s \in LiveChanges :
         liveGen[s] \in (LocalBase + 1) .. (LocalBase + Cardinality(LiveChanges))
  BY Zenon DEF LiveGenerations
<1>6. \A s \in LiveChanges : /\ liveGen[s] \in Nat /\ gens.local < liveGen[s]
                             /\ liveGen[s] <= LocalBase + Cardinality(LiveChanges)
  BY <1>2, <1>4, <1>5 DEF SearchTypeOK
<1>7. gens' = [main |-> MainGeneration,
               global |-> IF HasWrites THEN gens.global + 1 ELSE gens.global,
               local |-> IF LiveChanges = {} THEN gens.local
                         ELSE LocalBase + Cardinality(LiveChanges)]
  BY Zenon DEF Reconciled
<1>8. gens.local \in Nat /\ gens.global \in Nat
  BY Zenon DEF SearchTypeOK
<1>9. gens' \in [main : Nat, global : Nat, local : Nat] /\ gens.local <= gens'.local
  BY <1>1, <1>2, <1>4, <1>7, <1>8
<1>10. \A s \in RowChanges : ReplacePersisted(s) \in Rows
  BY <1>1 DEF RowChanges, ReplacePersisted, Rows, SearchTypeOK, Jobs
<1>11. \A s \in LiveChanges : ReplaceLive(s, liveGen[s]) \in LiveRows
  <2> SUFFICES ASSUME NEW s \in LiveChanges
               PROVE  ReplaceLive(s, liveGen[s]) \in LiveRows
    BY Zenon
  <2>1. liveNow[s] \in Int /\ liveGen[s] \in Int
    BY <1>3, <1>6 DEF SearchTypeOK, NotLive
  <2>2. (job.before[s] # 0) \in BOOLEAN
    BY Zenon
  <2> QED BY Zenon, <2>1, <2>2 DEF ReplaceLive, LiveRows
<1>12. NoRow \in Rows /\ NoLiveRow \in LiveRows
  BY DEF NoRow, NoLiveRow, Rows, LiveRows
<1>13. rows' \in [Sessions -> Rows]
  BY Zenon, <1>10, <1>12 DEF Reconciled, SearchTypeOK
<1>14. overlay' \in [Sessions -> LiveRows]
  BY Zenon, <1>11, <1>12 DEF Reconciled, SearchTypeOK
<1> QED BY Zenon, <1>1, <1>6, <1>7, <1>9, <1>13, <1>14

\* A settled query either failed, or reconciled and then refused or replied.
LEMMA SettleSplit ==
  ASSUME Settle, ~ Fail
  PROVE  /\ \E liveGen \in LiveGenerations : Reconciled(liveGen)
         /\ Refuse \/ Reply
         /\ UNCHANGED <<searchUse, log, here, liveNow, mirror, engine, closing, restarts>>
         /\ job.phase = "after" /\ job.todo = {} /\ Stable
BY Zenon DEF Settle, Working, corpus

LEMMA SettleType ==
  ASSUME SearchTypeOK, Settle, ~ Fail
  PROVE  SearchTypeOK'
<1>1. PICK liveGen \in LiveGenerations : Reconciled(liveGen)
  BY Zenon, SettleSplit
<1>2. /\ rows' \in [Sessions -> Rows] /\ overlay' \in [Sessions -> LiveRows]
      /\ gens' \in [main : Nat, global : Nat, local : Nat]
  BY Zenon, <1>1, ReconciledType
<1>3. UNCHANGED <<searchUse, log, here, liveNow, mirror, engine, closing, restarts>>
  BY Zenon, SettleSplit
<1>4. Sessions' = Sessions /\ Jobs' = Jobs
  BY Zenon, <1>3 DEF Sessions, Jobs, Scopes
<1>5. CASE Refuse
  <2>1. Over
    BY Zenon, <1>5 DEF Refuse
  <2> QED BY Zenon, <1>2, <1>3, <1>4, <2>1, OverType DEF SearchTypeOK
<1>6. CASE Reply
  <2>1. job' \in Jobs
    BY Zenon, <1>6, IdleType DEF Reply, Jobs
  <2>2. UNCHANGED <<asOf, stayed, absent>>
    BY Zenon, <1>6 DEF Reply
  <2> QED BY Zenon, <1>2, <1>3, <1>4, <2>1, <2>2 DEF SearchTypeOK
<1> QED BY Zenon, <1>5, <1>6, SettleSplit

-----------------------------------------------------------------------------
(* The corpus moves.                                                       *)

\* A step of the corpus loses nothing of a log, opens no session that was
\* absent, and closes none that stayed.
LEMMA CorpusMoves ==
  ASSUME SearchTypeOK, \A x \in Sessions : CorpusAt(x) /\ HistoryAt(x),
         NEW s \in Sessions, CorpusStep(s), NEW x \in Sessions
  PROVE  /\ CorpusAt(x)' /\ HistoryAt(x)' /\ log[x] <= log'[x]
         /\ stayed' \subseteq stayed /\ absent' \subseteq absent
         /\ x \in stayed' /\ liveNow[x] # NotLive => liveNow'[x] # NotLive
<1> USE CorpusFrame DEF CorpusAt, HistoryAt, Told, SearchTypeOK, NotLive
<1>1. CASE Create(s)
  BY <1>1 DEF Create
<1>2. CASE Write(s)
  BY <1>2 DEF Write
<1>3. CASE Mirror(s)
  BY <1>3 DEF Mirror
<1>4. CASE Open(s)
  BY <1>4 DEF Open
<1>5. CASE Drop(s)
  BY <1>5 DEF Drop
<1>6. CASE MoveAway(s)
  BY <1>6 DEF MoveAway
<1>7. CASE DropDeleted(s)
  BY <1>7 DEF DropDeleted
<1>8. CASE RestoreLog(s)
  BY <1>8 DEF RestoreLog
<1> QED BY Zenon, <1>1, <1>2, <1>3, <1>4, <1>5, <1>6, <1>7, <1>8 DEF CorpusStep

LEMMA CursorStays ==
  ASSUME UNCHANGED <<searchUse, rows, overlay, gens, engine, cursor, restarts>>, NEW g
  PROVE  Holds(cursor, g)' = Holds(cursor, g)
<1>1. Current(cursor)' = Current(cursor) /\ Sessions' = Sessions
  BY Zenon DEF Current, Sessions
<1>2. ViewNow' = ViewNow
  BY Zenon, <1>1 DEF ViewNow, LiveView, RowView
<1>3. GlobalCursor(cursor, g)' = GlobalCursor(cursor, g)
  BY Zenon, <1>1, <1>2 DEF GlobalCursor
<1>4. LiveCursor(cursor, g)' = LiveCursor(cursor, g)
  BY Zenon, <1>1 DEF LiveCursor, LiveView
<1>5. PersistedCursor(cursor, g)' = PersistedCursor(cursor, g)
  BY Zenon, <1>1 DEF PersistedCursor, RowView
<1> QED BY Zenon, <1>3, <1>4, <1>5 DEF Holds

\* The parts of the invariant about the engine, the index and the cursor speak
\* only of what the corpus leaves alone.
LEMMA IndexStays ==
  ASSUME UNCHANGED <<searchUse, rows, overlay, gens, engine, closing, cursor, restarts>>,
         UNCHANGED job, EngineInv, CursorInv, \A x \in Sessions : IndexAt(x)
  PROVE  EngineInv' /\ CursorInv' /\ \A x \in Sessions : IndexAt(x)'
<1>1. EngineInv' /\ \A x \in Sessions : IndexAt(x)'
  BY Zenon DEF EngineInv, IndexAt, Observing, Scopes, Sessions
<1>2. \A g \in Nat : Holds(cursor, g)' = Holds(cursor, g)
  BY Zenon, CursorStays
<1>3. NoCursor' = NoCursor /\ Observing' = Observing
  BY Zenon DEF NoCursor, Observing
<1>4. CursorInv'
  BY Zenon, <1>2, <1>3 DEF CursorInv
<1> QED BY Zenon, <1>1, <1>4

LEMMA CorpusKeeps ==
  ASSUME SearchInv, NEW s \in Sessions, CorpusStep(s)
  PROVE  SearchInv'
<1>1. /\ UNCHANGED <<searchUse, rows, overlay, gens, engine, closing, job, cursor, restarts>>
      /\ UNCHANGED <<answer, asOf>> /\ Sessions' = Sessions
  BY Zenon, CorpusFrame DEF Sessions
<1>2. SearchTypeOK'
  BY Zenon, CorpusType DEF SearchInv
<1>3. EngineInv' /\ CursorInv' /\ \A x \in Sessions : IndexAt(x)'
  BY Zenon, <1>1, IndexStays DEF SearchInv
<1>4. \A x \in Sessions :
         /\ CorpusAt(x)' /\ HistoryAt(x)' /\ log[x] <= log'[x]
         /\ stayed' \subseteq stayed /\ absent' \subseteq absent
         /\ x \in stayed' /\ liveNow[x] # NotLive => liveNow'[x] # NotLive
  BY Zenon, CorpusMoves DEF SearchInv
<1>5. ASSUME Observing', NEW x \in Sessions PROVE ObservedAt(x)'
  <2>1. ObservedAt(x)
    BY Zenon, <1>1, <1>5 DEF SearchInv, Observing
  <2>2. log[x] \in Nat /\ log'[x] \in Nat /\ job.before[x] \in Nat
    BY Zenon, <1>1, <1>2 DEF SearchInv, SearchTypeOK, Jobs
  <2> QED BY <1>1, <1>4, <2>1, <2>2 DEF ObservedAt, Unlisted, Uninspected
<1>6. AnswersAreFresh' /\ PagesAgree'
  <2>1. stayed' \subseteq stayed /\ absent' \subseteq absent
    BY Zenon, <1>4
  <2> QED BY Zenon, <1>1, <2>1 DEF SearchInv, AnswersAreFresh, PagesAgree
<1> QED BY Zenon, <1>1, <1>2, <1>3, <1>4, <1>5, <1>6 DEF SearchInv

-----------------------------------------------------------------------------
(* The query looks at the corpus.                                          *)

LEMMA BeginKeeps ==
  ASSUME SearchInv, NEW scope \in Scopes, NEW paged \in BOOLEAN, Begin(scope, paged)
  PROVE  SearchInv'
<1>1. /\ UNCHANGED <<searchUse, log, here, liveNow, mirror, rows, overlay, closing, restarts>>
      /\ UNCHANGED cursor /\ Sessions' = Sessions /\ Scopes' = Scopes
  BY Zenon DEF Begin, corpus, Sessions, Scopes
<1>2. SearchTypeOK'
  BY Zenon, BeginType DEF SearchInv
<1>3. /\ job'.phase = "before" /\ job'.scope = scope /\ job'.paged = paged /\ job'.todo = Sessions
      /\ job'.before = [s \in Sessions |-> 0] /\ job'.loaded = [s \in Sessions |-> 0]
      /\ engine' = "open" /\ job.phase = "idle"
  BY Zenon DEF Begin, Idle
<1>4. ASSUME NEW s \in Sessions PROVE CorpusAt(s)' /\ HistoryAt(s)'
  <2>1. CorpusAt(s)'
    BY Zenon, <1>1 DEF SearchInv, CorpusAt, Told
  <2>2. asOf'[s] = Acknowledged(s) /\ stayed' = here
        /\ absent' = {x \in Sessions \ here : liveNow[x] = NotLive}
    BY Zenon DEF Begin
  <2>3. Told(s)' = Told(s) /\ (s \in here => Acknowledged(s) = Told(s)) /\ Told(s) \in Int
    BY <1>1 DEF Told, Acknowledged, SearchInv, SearchTypeOK
  <2> QED BY <1>1, <2>1, <2>2, <2>3 DEF HistoryAt
<1>5. ASSUME NEW s \in Sessions PROVE ObservedAt(s)'
  <2>1. log'[s] \in Nat
    BY Zenon, <1>1, <1>2 DEF SearchTypeOK
  <2> QED BY <1>3, <2>1 DEF ObservedAt, Unlisted, Uninspected
<1>6. engine = "open" \/ engine = "unopened"
  BY Zenon DEF Begin, SearchInv, EngineInv, SearchTypeOK
<1>7. ASSUME NEW s \in Sessions PROVE IndexAt(s)'
  <2>1. gens'.main = gens.main /\ (engine = "open" => gens' = gens)
    BY Zenon DEF Begin, SearchInv, SearchTypeOK
  <2> QED BY Zenon, <1>1, <1>3, <2>1 DEF IndexAt, SearchInv
<1>8. EngineInv'
  BY Zenon, <1>1, <1>3 DEF EngineInv, Observing
<1>9. CursorInv'
  <2>1. paged => cursor # NoCursor /\ cursor.scope = scope
    BY Zenon DEF Begin
  <2>2. engine = "open" => gens' = gens
    BY Zenon DEF Begin
  <2>3. ASSUME cursor # NoCursor
        PROVE  /\ cursor.process \in Nat /\ cursor.process <= restarts
               /\ \E g \in Nat : Holds(cursor, g)'
    <3>1. PICK g \in Nat : Holds(cursor, g)
      BY Zenon, <2>3 DEF SearchInv, CursorInv
    <3>2. /\ cursor.process \in Nat /\ cursor.process <= restarts
          /\ cursor.process = restarts => engine # "unopened"
      BY Zenon, <2>3 DEF SearchInv, CursorInv
    <3>3. CASE engine = "open"
      BY Zenon, <1>1, <1>3, <2>2, <3>1, <3>2, <3>3, CursorStays
    <3>4. CASE engine = "unopened"
      BY Zenon, <1>1, <3>1, <3>2, <3>4 DEF Holds, GlobalCursor, LiveCursor, PersistedCursor, Current
    <3> QED BY Zenon, <1>6, <3>2, <3>3, <3>4
  <2> QED BY Zenon, <1>1, <1>3, <2>1, <2>3 DEF CursorInv
<1>10. AnswersAreFresh' /\ PagesAgree'
  BY DEF Begin, NoAnswer, AnswersAreFresh, PagesAgree
<1> QED BY Zenon, <1>1, <1>2, <1>4, <1>5, <1>7, <1>8, <1>9, <1>10 DEF SearchInv

\* What the query knows of a session, after each of its looks.
LEMMA LookingSees ==
  ASSUME SearchInv, Looking, Observing', NEW x \in Sessions
  PROVE  ObservedAt(x)'
<1>1. /\ UNCHANGED <<searchUse, log, here, liveNow, mirror, rows, overlay, asOf, stayed, absent>>
      /\ SearchTypeOK /\ CorpusAt(x) /\ HistoryAt(x)
  BY Zenon, LookingFrame DEF SearchInv
<1>2. /\ log[x] \in Nat /\ job.before[x] \in Nat /\ job.loaded[x] \in Nat /\ asOf[x] \in Int
      /\ job \in Jobs /\ Told(x) \in Int /\ Told(x) <= log[x]
  BY <1>1 DEF SearchTypeOK, Jobs, Told
<1>3. Observing => ObservedAt(x)
  BY Zenon DEF SearchInv
<1>4. ASSUME NEW s \in Sessions, ListBefore(s) PROVE ObservedAt(x)'
  <2>1. PICK before \in [Sessions -> Nat], todo \in SUBSET Sessions,
             phase \in {"before", "load"} :
           /\ before = [job.before EXCEPT ![s] = Snapshot(s)]
           /\ job' = [job EXCEPT !.before = before, !.phase = phase, !.todo = todo]
           /\ phase = "before" => todo = job.todo \ {s}
           /\ phase = "load" => /\ job.todo = {s}
                                /\ todo = {y \in Sessions : /\ before[y] # 0
                                                           /\ rows[y].rev # before[y]}
    BY Zenon, <1>1, <1>4, ListBeforeJob
  <2>2. /\ job'.before = before /\ job'.phase = phase /\ job'.todo = todo
        /\ job'.loaded = job.loaded
    BY Zenon, <1>2, <2>1 DEF Jobs
  <2>3. job.phase = "before" /\ ObservedAt(x)
    BY Zenon, <1>3, <1>4 DEF ListBefore, Observing
  <2>4. x = s => /\ before[x] = Snapshot(x)
                 /\ x \in stayed => before[x] > 0 /\ asOf[x] <= before[x]
                 /\ x \in absent => before[x] = 0
                 /\ before[x] <= log[x]
    BY <1>1, <1>2, <2>1 DEF Snapshot, CorpusAt, HistoryAt, Jobs
  <2>5. x # s => before[x] = job.before[x]
    BY Zenon, <1>2, <2>1 DEF Jobs
  <2>6. Unlisted(x)' <=> (phase = "before" /\ x \in todo)
    BY Zenon, <2>2 DEF Unlisted
  <2>7. Unlisted(x) => x \in job.todo
    BY Zenon DEF Unlisted
  <2>8. x # s /\ ~ Unlisted(x)' => ~ Unlisted(x)
    BY Zenon, <2>1, <2>6, <2>7
  <2>9. Uninspected(x)' <=> (phase = "before" \/ x \in todo)
    BY Zenon, <2>2 DEF Uninspected
  <2>10. before[x] # 0 /\ rows[x].rev # before[x] => Uninspected(x)'
    BY Zenon, <2>1, <2>9
  <2>11. /\ before[x] <= log[x] /\ job.loaded[x] = 0
         /\ ~ Unlisted(x)' /\ x \in stayed => before[x] > 0 /\ asOf[x] <= before[x]
         /\ ~ Unlisted(x)' /\ x \in absent => before[x] = 0
    BY Zenon, <2>3, <2>4, <2>5, <2>8 DEF ObservedAt
  <2>12. ~ Uninspected(x)' => ~ Unlisted(x)'
    BY Zenon, <2>6, <2>9
  <2> QED BY <1>1, <2>2, <2>10, <2>11, <2>12 DEF ObservedAt
<1>5. ASSUME NEW s \in Sessions, Inspect(s) PROVE ObservedAt(x)'
  <2>1. PICK n \in Nat : /\ n = IF liveNow[s] = NotLive THEN log[s] ELSE 0
                         /\ liveNow[s] = NotLive => s \in here
                         /\ job' = [job EXCEPT !.todo = job.todo \ {s},
                                               !.loaded = [job.loaded EXCEPT ![s] = n]]
    BY Zenon, <1>1, <1>5, InspectJob DEF Looking
  <2>0. job.phase = "load"
    BY Zenon, <1>5 DEF Inspect
  <2> DEFINE loaded == [job.loaded EXCEPT ![s] = n]
  <2>2. /\ job'.before = job.before /\ job'.phase = "load" /\ job'.todo = job.todo \ {s}
        /\ job'.loaded = loaded /\ job.phase = "load"
    <3>1. job' = [job EXCEPT !.todo = job.todo \ {s}, !.loaded = loaded]
      BY Zenon, <2>1
    <3> HIDE DEF loaded
    <3> QED BY Zenon, <1>2, <2>0, <3>1 DEF Jobs
  <2>3. ObservedAt(x)
    BY Zenon, <1>3, <2>2 DEF Observing
  <2>4. x = s => job'.loaded[x] = n
    BY Zenon, <1>2, <2>2 DEF Jobs
  <2>5. x # s => job'.loaded[x] = job.loaded[x]
    BY Zenon, <1>2, <2>2 DEF Jobs
  <2>6. CASE x = s
    <3>1. n = 0 \/ (n = log[x] /\ liveNow[x] = NotLive /\ x \in here)
      BY Zenon, <2>1, <2>6
    <3>2. n = 0 => liveNow[x] # NotLive
      BY <1>1, <2>1, <2>6 DEF CorpusAt
    <3> QED BY Zenon, <1>1, <1>2, <2>2, <2>3, <2>4, <2>6, <3>1, <3>2 DEF ObservedAt, Unlisted, Uninspected
  <2>7. CASE x # s
    BY Zenon, <1>1, <2>2, <2>3, <2>5, <2>7 DEF ObservedAt, Unlisted, Uninspected
  <2> QED BY Zenon, <2>6, <2>7
<1>6. ASSUME NEW s \in Sessions, ListAfter(s) PROVE ObservedAt(x)'
  <2>1. /\ job'.before = job.before /\ job'.phase = "after" /\ job.phase = "after"
        /\ job'.loaded = job.loaded
    BY Zenon, <1>2, <1>6 DEF Jobs, ListAfter
  <2> QED BY Zenon, <1>1, <1>3, <2>1 DEF ObservedAt, Unlisted, Uninspected, Observing
<1>7. CASE ListAgain
  <2>1. /\ job'.before = job.before /\ job'.phase = "after" /\ job.phase = "load"
        /\ job'.loaded = job.loaded /\ job.todo = {}
    BY Zenon, <1>2, <1>7 DEF Jobs, ListAgain
  <2> QED BY Zenon, <1>1, <1>3, <2>1 DEF ObservedAt, Unlisted, Uninspected, Observing
<1>8. CASE Retry
  <2>1. /\ job'.before = job.before /\ job'.phase = "before" /\ job'.todo = Sessions
        /\ job'.loaded = [y \in Sessions |-> 0] /\ job.phase = "after"
    BY Zenon, <1>2, <1>8 DEF Jobs, Retry, Looking
  <2> QED BY Zenon, <1>1, <1>3, <2>1 DEF ObservedAt, Unlisted, Uninspected, Observing
<1> QED BY Zenon, <1>4, <1>5, <1>6, <1>7, <1>8 DEF Looking

\* A look keeps the query's scope, and nothing else changes.
LEMMA LookingScope ==
  ASSUME SearchTypeOK, Looking
  PROVE  Observing /\ job'.scope = job.scope /\ job'.paged = job.paged /\ Observing'
<1>1. job \in Jobs
  BY Zenon DEF SearchTypeOK
<1>2. ASSUME NEW s \in Sessions, ListBefore(s)
      PROVE  Observing /\ job'.scope = job.scope /\ job'.paged = job.paged /\ Observing'
  <2>1. PICK before \in [Sessions -> Nat], todo \in SUBSET Sessions,
             phase \in {"before", "load"} :
           job' = [job EXCEPT !.before = before, !.phase = phase, !.todo = todo]
    BY <1>2, ListBeforeJob
  <2> QED BY Zenon, <1>1, <1>2, <2>1 DEF ListBefore, Observing, Jobs
<1>3. ASSUME NEW s \in Sessions, Inspect(s)
      PROVE  Observing /\ job'.scope = job.scope /\ job'.paged = job.paged /\ Observing'
  BY Zenon, <1>1, <1>3 DEF Inspect, Observing, Jobs, Looking
<1>4. ASSUME NEW s \in Sessions, ListAfter(s)
      PROVE  Observing /\ job'.scope = job.scope /\ job'.paged = job.paged /\ Observing'
  BY Zenon, <1>1, <1>4 DEF ListAfter, Observing, Jobs
<1>5. CASE ListAgain \/ Retry
  BY Zenon, <1>1, <1>5 DEF ListAgain, Retry, Observing, Jobs, Looking
<1> QED BY Zenon, <1>2, <1>3, <1>4, <1>5 DEF Looking

LEMMA LookingKeeps ==
  ASSUME SearchInv, Looking
  PROVE  SearchInv'
<1>1. /\ UNCHANGED <<searchUse, log, here, liveNow, mirror, rows, overlay, gens, engine>>
      /\ UNCHANGED <<closing, cursor, restarts, answer, asOf, stayed, absent>>
      /\ Sessions' = Sessions /\ Scopes' = Scopes
  BY Zenon, LookingFrame DEF Sessions, Scopes
<1>2. SearchTypeOK'
  BY Zenon, LookingType DEF SearchInv
<1>3. Observing /\ job'.scope = job.scope /\ job'.paged = job.paged /\ Observing'
  BY Zenon, LookingScope DEF SearchInv
<1>4. \A x \in Sessions : CorpusAt(x)' /\ HistoryAt(x)' /\ IndexAt(x)'
  BY Zenon, <1>1 DEF SearchInv, CorpusAt, HistoryAt, IndexAt, Told
<1>5. EngineInv'
  BY Zenon, <1>1, <1>3 DEF SearchInv, EngineInv, Observing
<1>6. CursorInv'
  <2>1. \A g \in Nat : Holds(cursor, g)' = Holds(cursor, g)
    BY Zenon, <1>1, CursorStays
  <2>2. CursorInv
    BY Zenon DEF SearchInv
  <2> QED BY Zenon, <1>1, <1>3, <2>1, <2>2 DEF CursorInv
<1>7. \A x \in Sessions : ObservedAt(x)'
  BY Zenon, <1>3, LookingSees
<1>8. AnswersAreFresh' /\ PagesAgree'
  BY Zenon, <1>1 DEF SearchInv, AnswersAreFresh, PagesAgree
<1> QED BY Zenon, <1>1, <1>2, <1>4, <1>5, <1>6, <1>7, <1>8 DEF SearchInv

-----------------------------------------------------------------------------
(* The transaction and the answer.                                         *)

\* A transaction, session by session.
LEMMA ReconciledAt ==
  ASSUME NEW liveGen \in LiveGenerations, Reconciled(liveGen), NEW s \in Sessions
  PROVE  /\ s \in RowChanges => rows'[s] = ReplacePersisted(s)
         /\ s \in RowDeletes => rows'[s] = NoRow
         /\ s \notin RowChanges \cup RowDeletes => rows'[s] = rows[s]
         /\ s \in LiveChanges => overlay'[s] = ReplaceLive(s, liveGen[s])
         /\ s \in LiveDeletes => overlay'[s] = NoLiveRow
         /\ s \notin LiveChanges \cup LiveDeletes => overlay'[s] = overlay[s]
<1>1. s \in RowChanges => s \notin RowDeletes
  BY Zenon DEF RowChanges, RowDeletes
<1>2. s \in LiveChanges => s \notin LiveDeletes
  BY Zenon DEF LiveChanges, LiveDeletes
<1>3. rows'[s] = CASE s \in RowChanges -> ReplacePersisted(s)
                   [] s \in RowDeletes -> NoRow
                   [] OTHER -> rows[s]
  BY Zenon DEF Reconciled
<1>4. overlay'[s] = CASE s \in LiveChanges -> ReplaceLive(s, liveGen[s])
                      [] s \in LiveDeletes -> NoLiveRow
                      [] OTHER -> overlay[s]
  BY Zenon DEF Reconciled
<1>5. /\ s \in RowChanges => rows'[s] = ReplacePersisted(s)
      /\ s \in RowDeletes => rows'[s] = NoRow
      /\ s \notin RowChanges \cup RowDeletes => rows'[s] = rows[s]
  BY Zenon, <1>1, <1>3
<1>6. /\ s \in LiveChanges => overlay'[s] = ReplaceLive(s, liveGen[s])
      /\ s \in LiveDeletes => overlay'[s] = NoLiveRow
      /\ s \notin LiveChanges \cup LiveDeletes => overlay'[s] = overlay[s]
  BY Zenon, <1>2, <1>4
<1> QED BY Zenon, <1>5, <1>6

\* Afterwards the overlay is the live sessions, and a session that is not
\* live has no temporary row.
LEMMA OverlayIsLive ==
  ASSUME SearchInv, NEW liveGen \in LiveGenerations, Reconciled(liveGen), NEW s \in Sessions
  PROVE  /\ liveNow[s] = NotLive => overlay'[s] = NoLiveRow
         /\ liveNow[s] # NotLive => overlay'[s] # NoLiveRow /\ overlay'[s].doc = liveNow[s]
<1>1. liveNow[s] # NotLive => liveNow[s] \in Nat
  BY Zenon DEF SearchInv, SearchTypeOK
<1>2. CASE liveNow[s] = NotLive
  BY Zenon, <1>2, ReconciledAt DEF LiveChanges, LiveDeletes
<1>3. CASE liveNow[s] # NotLive
  <2>1. s \notin LiveDeletes
    BY Zenon, <1>3 DEF LiveDeletes
  <2>2. CASE s \in LiveChanges
    <3>1. overlay'[s] = ReplaceLive(s, liveGen[s])
      BY Zenon, <2>2, ReconciledAt
    <3>2. overlay'[s].doc = liveNow[s] /\ NoLiveRow.doc = -1
      BY <3>1 DEF ReplaceLive, NoLiveRow
    <3> QED BY <1>1, <1>3, <3>2
  <2>3. CASE s \notin LiveChanges
    <3>1. overlay'[s] = overlay[s] /\ overlay[s].doc = liveNow[s]
      BY Zenon, <1>3, <2>1, <2>3, ReconciledAt DEF LiveChanges
    <3> QED BY <1>1, <1>3, <3>1 DEF NoLiveRow
  <2> QED BY Zenon, <2>2, <2>3
<1> QED BY Zenon, <1>2, <1>3

LEMMA SettleIndex ==
  ASSUME SearchInv, Settle, ~ Fail, NEW s \in Sessions
  PROVE  IndexAt(s)'
<1>1. PICK liveGen \in LiveGenerations : Reconciled(liveGen)
  BY Zenon, SettleSplit
<1>2. /\ gens'.main = MainGeneration /\ gens.main <= MainGeneration
      /\ gens.local <= gens'.local /\ MainGeneration \in Nat /\ gens'.local \in Nat
      /\ \A x \in LiveChanges : /\ liveGen[x] \in Nat /\ liveGen[x] <= gens'.local
  BY Zenon, <1>1, ReconciledType DEF SearchInv
<1>3. gens.main \in Nat /\ gens.local \in Nat /\ rows[s] \in Rows /\ overlay[s] \in LiveRows
  BY Zenon DEF SearchInv, SearchTypeOK
<1>4. ObservedAt(s) /\ IndexAt(s) /\ engine' = "open"
  BY Zenon, SettleSplit DEF SearchInv, Observing, EngineInv
<1>5. rows'[s] # NoRow => /\ 0 < rows'[s].rev /\ rows'[s].rev <= rows'[s].doc
                          /\ 0 <= rows'[s].gen /\ rows'[s].gen <= gens'.main
  <2>1. CASE s \in RowChanges
    <3>1. rows'[s] = ReplacePersisted(s)
      BY Zenon, <1>1, <2>1, ReconciledAt
    <3>2. job.before[s] \in Nat /\ job.loaded[s] \in Nat
      BY Zenon DEF SearchInv, SearchTypeOK, Jobs
    <3>3. job.before[s] # 0 /\ job.loaded[s] # 0
      BY Zenon, <2>1 DEF RowChanges
    <3> QED BY <1>2, <1>4, <3>1, <3>2, <3>3 DEF ReplacePersisted, ObservedAt
  <2>2. CASE s \in RowDeletes
    BY Zenon, <1>1, <2>2, ReconciledAt
  <2>3. CASE s \notin RowChanges \cup RowDeletes
    <3>1. rows'[s] = rows[s]
      BY Zenon, <1>1, <2>3, ReconciledAt
    <3> QED BY <1>2, <1>3, <1>4, <3>1 DEF IndexAt, Rows
  <2> QED BY Zenon, <2>1, <2>2, <2>3
<1>6. overlay'[s] # NoLiveRow => /\ 0 <= overlay'[s].doc
                                 /\ 0 <= overlay'[s].gen /\ overlay'[s].gen <= gens'.local
  <2>1. CASE s \in LiveChanges
    <3>1. overlay'[s] = ReplaceLive(s, liveGen[s])
      BY Zenon, <1>1, <2>1, ReconciledAt
    <3>2. liveNow[s] \in Nat
      BY Zenon, <2>1 DEF LiveChanges, SearchInv, SearchTypeOK
    <3> QED BY <1>2, <2>1, <3>1, <3>2 DEF ReplaceLive
  <2>2. CASE s \in LiveDeletes
    BY Zenon, <1>1, <2>2, ReconciledAt
  <2>3. CASE s \notin LiveChanges \cup LiveDeletes
    <3>1. overlay'[s] = overlay[s]
      BY Zenon, <1>1, <2>3, ReconciledAt
    <3> QED BY <1>2, <1>3, <1>4, <3>1 DEF IndexAt, LiveRows
  <2> QED BY Zenon, <2>1, <2>2, <2>3
<1> QED BY Zenon, <1>4, <1>5, <1>6 DEF IndexAt

\* What the query sees of a session is fresh.
LEMMA SelectedIsFresh ==
  ASSUME SearchInv, Settle, ~ Fail, NEW s \in Sessions
  PROVE  /\ s \in stayed => Selected(s).doc >= asOf[s]
         /\ s \in absent => Selected(s).doc = NotLive
<1>1. PICK liveGen \in LiveGenerations : Reconciled(liveGen)
  BY SettleSplit
<1>2. /\ ObservedAt(s) /\ CorpusAt(s) /\ HistoryAt(s) /\ IndexAt(s)
      /\ ~ Unlisted(s) /\ ~ Uninspected(s)
  BY Zenon, SettleSplit DEF SearchInv, Observing, Unlisted, Uninspected
<1>3. /\ asOf[s] \in Int /\ job.before[s] \in Nat /\ job.loaded[s] \in Nat /\ log[s] \in Nat
      /\ liveNow[s] # NotLive => liveNow[s] \in Nat
      /\ rows[s] \in Rows /\ Told(s) \in Int
  BY DEF SearchInv, SearchTypeOK, Jobs, Told
<1>4. /\ liveNow[s] = NotLive => overlay'[s] = NoLiveRow
      /\ liveNow[s] # NotLive => overlay'[s] # NoLiveRow /\ overlay'[s].doc = liveNow[s]
  BY Zenon, <1>1, OverlayIsLive
<1>5. liveNow[s] # NotLive => Selected(s).doc = liveNow[s]
  BY Zenon, <1>4 DEF Selected
<1>6. liveNow[s] = NotLive => Selected(s).doc = rows'[s].doc
  BY Zenon, <1>4 DEF Selected
<1>7. ASSUME s \in stayed PROVE Selected(s).doc >= asOf[s]
  <2>1. job.before[s] > 0 /\ asOf[s] <= job.before[s] /\ asOf[s] <= Told(s)
    BY Zenon, <1>2, <1>7 DEF ObservedAt, HistoryAt
  <2>2. CASE liveNow[s] # NotLive
    BY Zenon, <1>2, <1>3, <1>5, <2>1, <2>2 DEF CorpusAt
  <2>3. CASE liveNow[s] = NotLive
    <3>1. s \notin RowDeletes
      BY <1>3, <2>1 DEF RowDeletes
    <3>2. CASE job.loaded[s] # 0
      <4>0. s \in RowChanges
        BY <1>3, <2>1, <3>2 DEF RowChanges
      <4>3. rows'[s] = ReplacePersisted(s)
        BY Zenon, <1>1, <4>0, ReconciledAt
      <4>1. rows'[s].doc = job.loaded[s]
        BY <4>3 DEF ReplacePersisted
      <4>2. job.before[s] <= job.loaded[s]
        BY Zenon, <1>2, <3>2 DEF ObservedAt
      <4> QED BY <1>3, <1>6, <2>1, <2>3, <4>1, <4>2
    <3>3. CASE job.loaded[s] = 0
      <4>1. rows'[s] = rows[s]
        BY Zenon, <1>1, <3>1, <3>3, ReconciledAt DEF RowChanges
      <4>2. rows[s].rev = job.before[s]
        BY Zenon, <1>2, <1>7, <2>3, <3>3 DEF ObservedAt
      <4>3. rows[s] # NoRow
        BY <1>3, <2>1, <4>2 DEF NoRow
      <4>4. rows[s].rev <= rows[s].doc /\ rows[s].doc \in Int
        BY Zenon, <1>2, <1>3, <4>3 DEF IndexAt, Rows
      <4> QED BY <1>3, <1>6, <2>1, <2>3, <4>1, <4>2, <4>4
    <3> QED BY Zenon, <3>2, <3>3
  <2> QED BY Zenon, <2>2, <2>3
<1>8. ASSUME s \in absent PROVE Selected(s).doc = NotLive
  <2>1. job.before[s] = 0 /\ liveNow[s] = NotLive
    BY Zenon, <1>2, <1>8 DEF ObservedAt, HistoryAt
  <2>2. rows'[s] = NoRow
    BY Zenon, <1>1, <2>1, ReconciledAt DEF RowChanges, RowDeletes
  <2> QED BY <1>6, <2>1, <2>2 DEF NoRow, NotLive
<1> QED BY Zenon, <1>7, <1>8

\* A page cursor that the transaction leaves valid was cut from the same rows.
LEMMA CursorSurvives ==
  ASSUME SearchInv, Settle, ~ Fail, NEW c, c = cursor, c # NoCursor
  PROVE  \E g \in Nat : Holds(c, g)'
<1>1. PICK liveGen \in LiveGenerations : Reconciled(liveGen)
  BY Zenon, SettleSplit
<1>2. /\ gens'.main = MainGeneration /\ gens.main <= MainGeneration
      /\ RowChanges # {} => gens.main < MainGeneration
      /\ gens'.global = IF HasWrites THEN gens.global + 1 ELSE gens.global
      /\ gens.local <= gens'.local /\ MainGeneration \in Nat /\ gens'.local \in Nat
      /\ \A x \in LiveChanges : /\ liveGen[x] \in Nat /\ gens.local < liveGen[x]
  BY Zenon, <1>1, ReconciledType DEF SearchInv
<1>3. gens.main \in Nat /\ gens.local \in Nat /\ gens.global \in Nat
  BY Zenon DEF SearchInv, SearchTypeOK
<1>4. PICK g \in Nat : Holds(c, g)
  BY Zenon DEF SearchInv, CursorInv
<1>5. UNCHANGED <<searchUse, restarts, engine>> /\ Sessions' = Sessions
      /\ Current(c)' = Current(c)
  BY Zenon, SettleSplit DEF Sessions, Current
<1>6. CASE GlobalCursor(c, g)
  <2>1. ASSUME Current(c), g = gens'.global PROVE c.view = ViewNow'
    <3>1. ~ HasWrites /\ g = gens.global
      BY <1>2, <1>3, <1>6, <2>1 DEF GlobalCursor
    <3>2. \A s \in Sessions : rows'[s] = rows[s] /\ overlay'[s] = overlay[s]
      BY Zenon, <1>1, <3>1, ReconciledAt DEF HasWrites
    <3>3. c.view = ViewNow
      BY Zenon, <1>6, <2>1, <3>1 DEF GlobalCursor
    <3>4. \A s \in Sessions : LiveView(s)' = LiveView(s) /\ RowView(s)' = RowView(s)
      BY Zenon, <3>2 DEF LiveView, RowView
    <3>5. ViewNow' = ViewNow
      BY Zenon, <1>5, <3>2, <3>4 DEF ViewNow
    <3> QED BY Zenon, <3>3, <3>5
  <2>2. Current(c) => g <= gens'.global
    BY <1>2, <1>3, <1>6 DEF GlobalCursor
  <2>3. GlobalCursor(c, g)'
    BY Zenon, <1>5, <1>6, <2>1, <2>2 DEF GlobalCursor
  <2> QED BY Zenon, <2>3 DEF Holds
<1>7. CASE LiveCursor(c, g)
  <2>1. c.scope \in Sessions
    BY Zenon, <1>7 DEF LiveCursor
  <2>2. ASSUME Current(c), overlay'[c.scope].gen = g
        PROVE  c.view = [s \in {c.scope} |-> LiveView(s)']
    <3>1. g <= gens.local
      BY Zenon, <1>7, <2>2 DEF LiveCursor
    <3>2. c.scope \notin LiveChanges
      <4> SUFFICES ASSUME c.scope \in LiveChanges PROVE FALSE
        BY Zenon
      <4>1. overlay'[c.scope] = ReplaceLive(c.scope, liveGen[c.scope])
        BY Zenon, <1>1, <2>1, ReconciledAt
      <4>2. g = liveGen[c.scope]
        BY <2>2, <4>1 DEF ReplaceLive
      <4> QED BY <1>2, <1>3, <3>1, <4>2
    <3>3. c.scope \notin LiveDeletes
      BY <1>1, <2>1, <2>2, ReconciledAt DEF NoLiveRow
    <3>4. overlay'[c.scope] = overlay[c.scope]
      BY Zenon, <1>1, <2>1, <3>2, <3>3, ReconciledAt
    <3>5. c.view = [s \in {c.scope} |-> LiveView(s)]
      BY Zenon, <1>7, <2>2, <3>4 DEF LiveCursor
    <3>6. LiveView(c.scope)' = LiveView(c.scope)
      BY Zenon, <3>4 DEF LiveView
    <3>7. \A s \in {c.scope} : LiveView(s)' = LiveView(s)
      BY Zenon, <3>6
    <3> QED BY Zenon, <3>5, <3>7
  <2>3. Current(c) => g <= gens'.local
    BY <1>2, <1>3, <1>7 DEF LiveCursor
  <2>4. LiveCursor(c, g)'
    BY Zenon, <1>5, <1>7, <2>2, <2>3 DEF LiveCursor
  <2> QED BY Zenon, <2>4 DEF Holds
<1>8. CASE PersistedCursor(c, g)
  <2>1. c.scope \in Sessions
    BY Zenon, <1>8 DEF PersistedCursor
  <2>2. ASSUME Current(c), rows'[c.scope].gen = g
        PROVE  c.view = [s \in {c.scope} |-> RowView(s)']
    <3>1. g <= gens.main
      BY Zenon, <1>8, <2>2 DEF PersistedCursor
    <3>2. c.scope \notin RowChanges
      <4> SUFFICES ASSUME c.scope \in RowChanges PROVE FALSE
        OBVIOUS
      <4>1. rows'[c.scope] = ReplacePersisted(c.scope)
        BY Zenon, <1>1, <2>1, ReconciledAt
      <4>2. g = MainGeneration
        BY <2>2, <4>1 DEF ReplacePersisted
      <4> QED BY <1>2, <1>3, <3>1, <4>2
    <3>3. c.scope \notin RowDeletes
      BY <1>1, <2>1, <2>2, ReconciledAt DEF NoRow
    <3>4. rows'[c.scope] = rows[c.scope]
      BY Zenon, <1>1, <2>1, <3>2, <3>3, ReconciledAt
    <3>5. c.view = [s \in {c.scope} |-> RowView(s)]
      BY Zenon, <1>8, <2>2, <3>4 DEF PersistedCursor
    <3>6. RowView(c.scope)' = RowView(c.scope)
      BY Zenon, <3>4 DEF RowView
    <3> QED BY Zenon, <3>5, <3>6
  <2>3. Current(c) => g <= gens'.main
    BY <1>2, <1>3, <1>8 DEF PersistedCursor
  <2>4. PersistedCursor(c, g)'
    BY Zenon, <1>5, <1>8, <2>2, <2>3 DEF PersistedCursor
  <2> QED BY Zenon, <2>4 DEF Holds
<1> QED BY Zenon, <1>4, <1>6, <1>7, <1>8 DEF Holds

\* What a query sees is the index after its transaction.
LEMMA SeenIsView ==
  ASSUME SearchTypeOK, UNCHANGED searchUse, NEW scope \in Scopes
  PROVE  /\ scope = "sessions" => Seen(scope) = ViewNow'
         /\ scope \in Sessions /\ overlay'[scope] # NoLiveRow
              => Seen(scope) = [s \in {scope} |-> LiveView(s)']
         /\ scope \in Sessions /\ overlay'[scope] = NoLiveRow
              => Seen(scope) = [s \in {scope} |-> RowView(s)']
<1>1. "sessions" \notin Sessions /\ Sessions' = Sessions
  BY Zenon, SearchAssumption DEF SearchTypeOK, Sessions
<1>2. scope = "sessions" => Seen(scope) = ViewNow'
  BY Zenon, <1>1 DEF Seen, Selected, ViewNow, LiveView, RowView
<1>3. scope \in Sessions => Seen(scope) = [s \in {scope} |-> Selected(s)]
  BY Zenon, <1>1 DEF Seen
<1>4. scope \in Sessions /\ overlay'[scope] # NoLiveRow => Selected(scope) = LiveView(scope)'
  BY Zenon DEF Selected, LiveView
<1>5. scope \in Sessions /\ overlay'[scope] = NoLiveRow => Selected(scope) = RowView(scope)'
  BY Zenon DEF Selected, RowView
<1> QED BY Zenon, <1>2, <1>3, <1>4, <1>5

\* A further page is answered from what the first was answered from.
LEMMA PageAgrees ==
  ASSUME SearchInv, Settle, ~ Fail, job.paged, CursorHolds(job.scope)
  PROVE  Seen(job.scope) = cursor.view
<1>1. cursor # NoCursor /\ cursor.scope = job.scope /\ job.scope \in Scopes /\ engine = "open"
  BY Zenon, SettleSplit DEF SearchInv, CursorInv, EngineInv, Observing
<1>2. PICK c : c = cursor
  BY Zenon
<1>3. PICK g \in Nat : Holds(c, g)'
  BY Zenon, <1>1, <1>2, CursorSurvives
<1>4. Current(c)' /\ UNCHANGED searchUse /\ Sessions' = Sessions
  BY Zenon, <1>1, <1>2, SettleSplit DEF Current, CursorHolds, Sessions
<1>5. c.stamp = Stamp(c.scope) /\ c.scope \in Scopes
  BY Zenon, <1>1, <1>2 DEF CursorHolds
<1>6. "sessions" \notin Sessions
  BY Zenon, SearchAssumption DEF SearchInv, SearchTypeOK, Sessions
<1>7. CASE c.scope = "sessions"
  <2>1. c.stamp = <<"global", gens'.global>>
    BY Zenon, <1>5, <1>7 DEF Stamp
  <2>2. GlobalCursor(c, g)'
    BY Zenon, <1>3, <1>4, <1>6, <1>7 DEF Holds, LiveCursor, PersistedCursor
  <2>3. g = gens'.global
    BY <2>1, <2>2 DEF GlobalCursor
  <2>4. c.view = ViewNow'
    BY Zenon, <1>4, <2>2, <2>3 DEF GlobalCursor
  <2> QED BY Zenon, <1>1, <1>2, <1>4, <1>7, <2>4, SeenIsView DEF SearchInv
<1>8. CASE c.scope \in Sessions /\ overlay'[c.scope] # NoLiveRow
  <2>1. c.stamp = <<"live", overlay'[c.scope].gen>>
    BY Zenon, <1>5, <1>6, <1>8 DEF Stamp
  <2>2. LiveCursor(c, g)' /\ g = overlay'[c.scope].gen
    BY <1>3, <1>6, <1>8, <2>1 DEF Holds, LiveCursor, PersistedCursor, GlobalCursor
  <2>3. c.view = [s \in {c.scope} |-> LiveView(s)']
    BY Zenon, <1>4, <2>2 DEF LiveCursor
  <2> QED BY Zenon, <1>1, <1>2, <1>4, <1>8, <2>3, SeenIsView DEF SearchInv
<1>9. CASE c.scope \in Sessions /\ overlay'[c.scope] = NoLiveRow
  <2>1. c.stamp = <<"persisted", rows'[c.scope].gen>>
    BY Zenon, <1>5, <1>6, <1>9 DEF Stamp
  <2>2. PersistedCursor(c, g)' /\ g = rows'[c.scope].gen
    BY <1>3, <1>6, <1>9, <2>1 DEF Holds, LiveCursor, PersistedCursor, GlobalCursor
  <2>3. c.view = [s \in {c.scope} |-> RowView(s)']
    BY Zenon, <1>4, <2>2 DEF PersistedCursor
  <2> QED BY Zenon, <1>1, <1>2, <1>4, <1>9, <2>3, SeenIsView DEF SearchInv
<1> QED BY Zenon, <1>5, <1>7, <1>8, <1>9 DEF Scopes

\* A cursor that is cut is valid for the index it is cut from.
LEMMA CutHolds ==
  ASSUME SearchInv, Settle, ~ Fail, ~ Missing(job.scope), NEW c,
         c = [scope |-> job.scope, stamp |-> Stamp(job.scope),
              process |-> restarts, view |-> Seen(job.scope)]
  PROVE  \E g \in Nat : Holds(c, g)'
<1>1. job.scope \in Scopes /\ "sessions" \notin Sessions /\ UNCHANGED searchUse
      /\ Sessions' = Sessions
  BY Zenon, SettleSplit, SearchAssumption
     DEF SearchInv, EngineInv, Observing, SearchTypeOK, Sessions
<1>2. SearchTypeOK' /\ SearchTypeOK
  BY Zenon, SettleType DEF SearchInv
<1>3. c.scope = job.scope /\ c.stamp = Stamp(job.scope) /\ c.view = Seen(job.scope)
  BY Zenon
<1>4. CASE job.scope = "sessions"
  <2>1. c.stamp = <<"global", gens'.global>> /\ gens'.global \in Nat
    BY Zenon, <1>2, <1>3, <1>4 DEF Stamp, SearchTypeOK
  <2>2. c.view = ViewNow'
    BY Zenon, <1>1, <1>2, <1>3, <1>4, SeenIsView
  <2>3. PICK g \in Nat : g = gens'.global
    BY Zenon, <2>1
  <2>4. GlobalCursor(c, g)'
    BY <1>3, <1>4, <2>1, <2>2, <2>3 DEF GlobalCursor
  <2> QED BY Zenon, <2>4 DEF Holds
<1>5. CASE job.scope \in Sessions /\ overlay'[job.scope] # NoLiveRow
  <2>1. c.stamp = <<"live", overlay'[job.scope].gen>>
    BY Zenon, <1>1, <1>3, <1>5 DEF Stamp
  <2>2. c.view = [s \in {job.scope} |-> LiveView(s)']
    BY Zenon, <1>1, <1>2, <1>3, <1>5, SeenIsView
  <2>3. overlay'[job.scope] \in LiveRows
    BY Zenon, <1>1, <1>2, <1>5 DEF SearchTypeOK
  <2>4. overlay'[job.scope].gen \in Nat /\ overlay'[job.scope].gen <= gens'.local
    <3>1. 0 <= overlay'[job.scope].gen /\ overlay'[job.scope].gen <= gens'.local
      <4>1. PICK x \in Sessions : x = job.scope
        BY Zenon, <1>5
      <4>2. IndexAt(x)'
        BY Zenon, SettleIndex
      <4> QED BY Zenon, <1>5, <4>1, <4>2 DEF IndexAt
    <3> QED BY <2>3, <3>1 DEF LiveRows
  <2>5. PICK g \in Nat : g = overlay'[job.scope].gen
    BY Zenon, <2>4
  <2>6. LiveCursor(c, g)'
    BY Zenon, <1>1, <1>3, <1>5, <2>1, <2>2, <2>4, <2>5 DEF LiveCursor
  <2> QED BY Zenon, <2>6 DEF Holds
<1>6. CASE job.scope \in Sessions /\ overlay'[job.scope] = NoLiveRow
  <2>1. c.stamp = <<"persisted", rows'[job.scope].gen>>
    BY Zenon, <1>1, <1>3, <1>6 DEF Stamp
  <2>2. c.view = [s \in {job.scope} |-> RowView(s)']
    BY Zenon, <1>1, <1>2, <1>3, <1>6, SeenIsView
  <2>3. rows'[job.scope] # NoRow
    BY <1>1, <1>6 DEF Missing, Selected, NoRow, NotLive
  <2>4. rows'[job.scope].gen \in Nat /\ rows'[job.scope].gen <= gens'.main
    <3>1. PICK x \in Sessions : x = job.scope
      BY Zenon, <1>6
    <3>2. IndexAt(x)' /\ rows'[x] \in Rows
      BY Zenon, <1>1, <1>2, SettleIndex DEF SearchTypeOK
    <3> QED BY <2>3, <3>1, <3>2 DEF IndexAt, Rows
  <2>5. PICK g \in Nat : g = rows'[job.scope].gen
    BY Zenon, <2>4
  <2>6. PersistedCursor(c, g)'
    BY Zenon, <1>1, <1>3, <1>6, <2>1, <2>2, <2>4, <2>5 DEF PersistedCursor
  <2> QED BY Zenon, <2>6 DEF Holds
<1> QED BY Zenon, <1>1, <1>4, <1>5, <1>6 DEF Scopes

LEMMA SettleKeeps ==
  ASSUME SearchInv, Settle, ~ Fail
  PROVE  SearchInv'
<1>1. /\ UNCHANGED <<searchUse, log, here, liveNow, mirror, engine, closing, restarts>>
      /\ Sessions' = Sessions /\ engine = "open" /\ job.scope \in Scopes
  BY Zenon, SettleSplit DEF Sessions, SearchInv, EngineInv, Observing
<1>2. SearchTypeOK'
  BY Zenon, SettleType DEF SearchInv
<1>3. \A s \in Sessions : IndexAt(s)' /\ CorpusAt(s)'
  BY Zenon, <1>1, SettleIndex DEF SearchInv, CorpusAt, Told
<1>4. \A c : c = cursor /\ c # NoCursor => \E g \in Nat : Holds(c, g)'
  BY Zenon, CursorSurvives
<1>5. cursor # NoCursor =>
        /\ cursor.process \in Nat /\ cursor.process <= restarts /\ \E g \in Nat : Holds(cursor, g)
  BY Zenon DEF SearchInv, CursorInv
<1>6. CASE Refuse
  <2>1. Over /\ UNCHANGED cursor
    BY Zenon, <1>6 DEF Refuse
  <2>2. ~ Observing' /\ EngineInv'
    BY Zenon, <1>1, <2>1 DEF Over, Idle, Observing, EngineInv, SearchInv
  <2>3. CursorInv'
    <3>1. cursor' # NoCursor => \E g \in Nat : Holds(cursor, g)'
      BY Zenon, <1>4, <2>1
    <3> QED BY Zenon, <1>1, <1>5, <2>1, <2>2, <3>1 DEF CursorInv, NoCursor
  <2>4. \A s \in Sessions : HistoryAt(s)'
    BY Zenon, <2>1 DEF Over, HistoryAt
  <2>5. AnswersAreFresh' /\ PagesAgree'
    BY Zenon, <2>1 DEF Over, NoAnswer, AnswersAreFresh, PagesAgree
  <2> QED BY Zenon, <1>1, <1>2, <1>3, <2>2, <2>3, <2>4, <2>5 DEF SearchInv
<1>7. CASE Reply
  <2>1. /\ answer'.paged = job.paged /\ answer'.view = Seen(job.scope)
        /\ answer'.promised = cursor.view /\ UNCHANGED <<asOf, stayed, absent>>
        /\ job'.phase = "answered"
    BY Zenon, <1>7 DEF Reply, Idle
  <2>2. ~ Observing' /\ EngineInv'
    BY Zenon, <1>1, <2>1 DEF Observing, EngineInv, SearchInv
  <2>3. CursorInv'
    <3>1. CASE UNCHANGED cursor
      <4>1. cursor' # NoCursor => \E g \in Nat : Holds(cursor, g)'
        BY Zenon, <1>4, <3>1
      <4> QED BY Zenon, <1>1, <1>5, <2>2, <3>1, <4>1 DEF CursorInv, NoCursor
    <3>2. CASE cursor' = [scope |-> job.scope, stamp |-> Stamp(job.scope),
                          process |-> restarts, view |-> Seen(job.scope)]
      <4>1. PICK c : c = [scope |-> job.scope, stamp |-> Stamp(job.scope),
                          process |-> restarts, view |-> Seen(job.scope)]
        BY Zenon
      <4>2. \E g \in Nat : Holds(c, g)'
        BY Zenon, <1>7, <4>1, CutHolds DEF Reply
      <4>3. cursor' = c
        BY Zenon, <3>2, <4>1
      <4>4. \E g \in Nat : Holds(cursor, g)'
        BY Zenon, <4>2, <4>3
      <4>5. cursor'.process = restarts /\ restarts \in Nat
        BY Zenon, <3>2 DEF SearchInv, SearchTypeOK
      <4> QED BY <1>1, <2>2, <4>4, <4>5 DEF CursorInv
    <3> QED BY Zenon, <1>7, <3>1, <3>2 DEF Reply
  <2>4. \A s \in Sessions : HistoryAt(s)'
    BY Zenon, <1>1, <2>1 DEF SearchInv, HistoryAt, Told
  <2>5. PagesAgree'
    BY Zenon, <1>7, <2>1, PageAgrees DEF Reply, PagesAgree
  <2>6. AnswersAreFresh'
    <3>1. /\ DOMAIN answer'.view \subseteq Sessions
          /\ \A s \in DOMAIN answer'.view : answer'.view[s] = Selected(s)
      BY Zenon, <1>1, <2>1 DEF Seen, Scopes
    <3> QED BY Zenon, <2>1, <3>1, SelectedIsFresh DEF AnswersAreFresh
  <2> QED BY Zenon, <1>1, <1>2, <1>3, <2>2, <2>3, <2>4, <2>5, <2>6 DEF SearchInv
<1> QED BY Zenon, <1>6, <1>7, SettleSplit

-----------------------------------------------------------------------------
(* The end of a query, of the engine and of the process.                   *)

LEMMA FailKeeps ==
  ASSUME SearchInv, Fail
  PROVE  SearchInv'
<1>1. /\ UNCHANGED <<searchUse, log, here, liveNow, mirror, rows, overlay, gens, engine>>
      /\ UNCHANGED <<closing, cursor, restarts>> /\ Over
      /\ Sessions' = Sessions
  BY Zenon DEF Fail, Working, corpus, index, Sessions
<1>2. job'.phase = "idle" /\ ~ Observing'
  BY Zenon, <1>1 DEF Over, Idle, Observing
<1>3. SearchTypeOK'
  BY Zenon, <1>1, OverType DEF SearchInv, SearchTypeOK
<1>4. \A s \in Sessions : CorpusAt(s)' /\ IndexAt(s)'
  BY Zenon, <1>1 DEF SearchInv, CorpusAt, IndexAt, Told
<1>5. \A s \in Sessions : HistoryAt(s)'
  BY Zenon, <1>1 DEF Over, HistoryAt
<1>6. EngineInv'
  BY Zenon, <1>1, <1>2 DEF SearchInv, EngineInv, Observing
<1>7. CursorInv'
  <2>1. \A g \in Nat : Holds(cursor, g)' = Holds(cursor, g)
    BY Zenon, <1>1, CursorStays
  <2>2. CursorInv
    BY Zenon DEF SearchInv
  <2> QED BY Zenon, <1>1, <1>2, <2>1, <2>2 DEF CursorInv
<1>8. AnswersAreFresh' /\ PagesAgree'
  BY Zenon, <1>1 DEF Over, NoAnswer, AnswersAreFresh, PagesAgree
<1> QED BY Zenon, <1>1, <1>2, <1>3, <1>4, <1>5, <1>6, <1>7, <1>8 DEF SearchInv

LEMMA CloseKeeps ==
  ASSUME SearchInv, CloseSearch
  PROVE  SearchInv'
<1>1. /\ UNCHANGED <<searchUse, log, here, liveNow, mirror, rows, overlay, gens, engine>>
      /\ UNCHANGED <<job, cursor, restarts, answer, asOf, stayed, absent>>
      /\ closing' = TRUE /\ Sessions' = Sessions /\ Scopes' = Scopes /\ Jobs' = Jobs
  BY Zenon DEF CloseSearch, corpus, index, queryHistory, Sessions, Scopes, Jobs
<1>2. SearchTypeOK'
  BY Zenon, <1>1 DEF SearchInv, SearchTypeOK
<1>3. \A s \in Sessions : CorpusAt(s)' /\ IndexAt(s)' /\ HistoryAt(s)'
  BY <1>1 DEF SearchInv, CorpusAt, IndexAt, Told, HistoryAt
<1>4. EngineInv' /\ Observing' = Observing
  BY Zenon, <1>1 DEF SearchInv, EngineInv, Observing
<1>5. CursorInv'
  <2>1. \A g \in Nat : Holds(cursor, g)' = Holds(cursor, g)
    BY Zenon, <1>1, CursorStays
  <2>2. CursorInv
    BY DEF SearchInv
  <2> QED BY Zenon, <1>1, <1>4, <2>1, <2>2 DEF CursorInv
<1>6. Observing => \A s \in Sessions : ObservedAt(s)'
  BY Zenon, <1>1 DEF SearchInv, ObservedAt, Unlisted, Uninspected
<1>7. AnswersAreFresh' /\ PagesAgree'
  BY Zenon, <1>1 DEF SearchInv, AnswersAreFresh, PagesAgree
<1> QED BY Zenon, <1>1, <1>2, <1>3, <1>4, <1>5, <1>6, <1>7 DEF SearchInv

\* Once the connection is gone no cursor of it is honoured any more.
LEMMA CursorOutlived ==
  ASSUME NEW g, Holds(cursor, g), UNCHANGED <<searchUse, cursor>>, ~ Current(cursor)'
  PROVE  Holds(cursor, g)'
BY Zenon DEF Holds, GlobalCursor, LiveCursor, PersistedCursor, Sessions

LEMMA ClosedKeeps ==
  ASSUME SearchInv, Closed
  PROVE  SearchInv'
<1>1. /\ UNCHANGED <<searchUse, log, here, liveNow, mirror, rows, gens, closing>>
      /\ UNCHANGED <<job, cursor, restarts, answer, asOf, stayed, absent>>
      /\ closing /\ engine' = "closed" /\ overlay' = [s \in Sessions |-> NoLiveRow]
      /\ Sessions' = Sessions /\ Scopes' = Scopes /\ Jobs' = Jobs /\ job.phase = "idle"
  BY Zenon DEF Closed, corpus, queryHistory, Sessions, Scopes, Jobs
<1>2. NoLiveRow \in LiveRows
  BY DEF NoLiveRow, LiveRows
<1>3. SearchTypeOK'
  BY Zenon, <1>1, <1>2 DEF SearchInv, SearchTypeOK
<1>4. \A s \in Sessions : CorpusAt(s)' /\ IndexAt(s)' /\ HistoryAt(s)'
  BY <1>1 DEF SearchInv, CorpusAt, IndexAt, Told, HistoryAt
<1>5. EngineInv' /\ ~ Observing'
  BY Zenon, <1>1 DEF SearchInv, EngineInv, Observing
<1>6. CursorInv'
  <2>1. ~ Current(cursor)'
    BY Zenon, <1>1 DEF Current
  <2>2. \A g \in Nat : Holds(cursor, g) => Holds(cursor, g)'
    BY Zenon, <1>1, <2>1, CursorOutlived
  <2>3. CursorInv
    BY DEF SearchInv
  <2> QED BY Zenon, <1>1, <1>5, <2>2, <2>3 DEF CursorInv
<1>7. AnswersAreFresh' /\ PagesAgree'
  BY Zenon, <1>1 DEF SearchInv, AnswersAreFresh, PagesAgree
<1> QED BY Zenon, <1>1, <1>3, <1>4, <1>5, <1>6, <1>7 DEF SearchInv

LEMMA RestartKeeps ==
  ASSUME SearchInv, RestartSearch
  PROVE  SearchInv'
<1>1. /\ UNCHANGED <<searchUse, log, here, rows, cursor>>
      /\ restarts' = restarts + 1 /\ engine' = "unopened" /\ closing' = FALSE
      /\ liveNow' = [s \in Sessions |-> NotLive] /\ mirror' = [s \in Sessions |-> "none"]
      /\ overlay' = [s \in Sessions |-> NoLiveRow]
      /\ gens' = [gens EXCEPT !.global = 0, !.local = 0] /\ Over
      /\ Sessions' = Sessions
  BY Zenon DEF RestartSearch, Sessions
<1>2. NoLiveRow \in LiveRows /\ NotLive \in Nat \cup {NotLive}
  BY DEF NoLiveRow, LiveRows
<1>3. gens' \in [main : Nat, global : Nat, local : Nat] /\ gens'.main = gens.main
  BY Zenon, <1>1 DEF SearchInv, SearchTypeOK
<1>4. SearchTypeOK'
  <2>1. /\ liveNow' \in [Sessions -> Nat \cup {NotLive}] /\ overlay' \in [Sessions -> LiveRows]
        /\ mirror' \in [Sessions -> {"none", "seed", "append"}]
    BY Zenon, <1>1, <1>2
  <2>2. /\ job' \in Jobs' /\ asOf' \in [Sessions -> Int] /\ stayed' \subseteq Sessions
        /\ absent' \subseteq Sessions
    BY Zenon, <1>1, OverType DEF SearchInv
  <2>3. /\ searchUse' \in SearchUses /\ log' \in [Sessions -> Nat] /\ here' \subseteq Sessions
        /\ rows' \in [Sessions -> Rows]
    BY Zenon, <1>1 DEF SearchInv, SearchTypeOK
  <2>4. engine' \in {"unopened", "open", "closed"} /\ closing' \in BOOLEAN
    BY Zenon, <1>1
  <2>5. restarts \in Nat
    BY Zenon DEF SearchInv, SearchTypeOK
  <2>6. restarts' \in Nat
    BY <1>1, <2>5
  <2> QED BY Zenon, <1>1, <1>3, <2>1, <2>2, <2>3, <2>4, <2>6 DEF SearchTypeOK
<1>5. \A s \in Sessions : CorpusAt(s)' /\ IndexAt(s)'
  BY Zenon, <1>1, <1>3 DEF SearchInv, CorpusAt, IndexAt
<1>6. \A s \in Sessions : HistoryAt(s)'
  BY Zenon, <1>1 DEF Over, HistoryAt
<1>7. ~ Observing' /\ EngineInv'
  BY Zenon, <1>1 DEF Over, Idle, EngineInv, Observing
<1>8. CursorInv'
  <2>1. ~ Current(cursor)'
    BY Zenon, <1>1 DEF Current
  <2>2. \A g \in Nat : Holds(cursor, g) => Holds(cursor, g)'
    BY Zenon, <1>1, <2>1, CursorOutlived
  <2>3. CursorInv /\ restarts \in Nat
    BY Zenon DEF SearchInv, SearchTypeOK
  <2>4. cursor # NoCursor => /\ cursor.process \in Nat /\ cursor.process <= restarts'
                             /\ cursor.process # restarts'
    BY <1>1, <2>3 DEF CursorInv
  <2> QED BY Zenon, <1>1, <1>7, <2>2, <2>3, <2>4 DEF CursorInv
<1>9. AnswersAreFresh' /\ PagesAgree'
  BY Zenon, <1>1 DEF Over, NoAnswer, AnswersAreFresh, PagesAgree
<1> QED BY Zenon, <1>1, <1>4, <1>5, <1>6, <1>7, <1>8, <1>9 DEF SearchInv

-----------------------------------------------------------------------------
(* The theorems.                                                           *)

LEMMA SearchBegins == SearchInit => SearchInv
<1> SUFFICES ASSUME SearchInit PROVE SearchInv
  BY Zenon
<1>1. NoRow \in Rows /\ NoLiveRow \in LiveRows /\ NotLive \in Nat \cup {NotLive}
  BY DEF NoRow, Rows, NoLiveRow, LiveRows
<1>2. SearchTypeOK
  <2>1. /\ liveNow \in [Sessions -> Nat \cup {NotLive}] /\ overlay \in [Sessions -> LiveRows]
        /\ mirror \in [Sessions -> {"none", "seed", "append"}] /\ rows \in [Sessions -> Rows]
    BY Zenon, <1>1 DEF SearchInit
  <2>2. /\ searchUse \in SearchUses /\ log \in [Sessions -> Nat] /\ here \subseteq Sessions
        /\ asOf \in [Sessions -> Int] /\ stayed \subseteq Sessions /\ absent \subseteq Sessions
    BY DEF SearchInit
  <2>3. /\ gens \in [main : Nat, global : Nat, local : Nat] /\ job \in Jobs /\ restarts \in Nat
        /\ engine \in {"unopened", "open", "closed"} /\ closing \in BOOLEAN
    BY Zenon, IdleType DEF SearchInit
  <2> QED BY Zenon, <2>1, <2>2, <2>3 DEF SearchTypeOK
<1>3. ~ Observing /\ EngineInv /\ CursorInv
  BY Zenon DEF SearchInit, Idle, Observing, EngineInv, CursorInv
<1>4. \A s \in Sessions : CorpusAt(s) /\ HistoryAt(s) /\ IndexAt(s)
  BY Zenon DEF SearchInit, CorpusAt, HistoryAt, IndexAt
<1>5. AnswersAreFresh /\ PagesAgree
  BY Zenon DEF SearchInit, NoAnswer, AnswersAreFresh, PagesAgree
<1> QED BY Zenon, <1>2, <1>3, <1>4, <1>5 DEF SearchInv

LEMMA SearchStays == SearchInv /\ [SearchNext]_searchVars => SearchInv'
<1> SUFFICES ASSUME SearchInv, [SearchNext]_searchVars PROVE SearchInv'
  BY Zenon
<1>1. ASSUME NEW s \in Sessions, CorpusStep(s) PROVE SearchInv'
  BY Zenon, <1>1, CorpusKeeps
<1>2. ASSUME NEW scope \in Scopes, NEW paged \in BOOLEAN, Begin(scope, paged) PROVE SearchInv'
  BY Zenon, <1>2, BeginKeeps
<1>3. CASE Observe
  <2>1. CASE Fail
    BY Zenon, <2>1, FailKeeps
  <2>2. CASE Deliver
    BY Zenon, <2>2, FailKeeps DEF Deliver, Fail
  <2>3. CASE Settle /\ ~ Fail
    BY Zenon, <2>3, SettleKeeps
  <2>4. CASE Looking
    BY Zenon, <2>4, LookingKeeps
  <2> QED BY Zenon, <1>3, <2>1, <2>2, <2>3, <2>4 DEF Observe, Looking
<1>4. CASE CloseSearch
  BY <1>4, CloseKeeps
<1>5. CASE Closed
  BY <1>5, ClosedKeeps
<1>6. CASE RestartSearch
  BY <1>6, RestartKeeps
<1>7. CASE UNCHANGED searchVars
  <2>1. /\ UNCHANGED <<searchUse, log, here, liveNow, mirror, rows, overlay, gens, engine>>
        /\ UNCHANGED <<closing, job, cursor, restarts, answer, asOf, stayed, absent>>
        /\ Sessions' = Sessions /\ Scopes' = Scopes /\ Jobs' = Jobs
    BY Zenon, <1>7 DEF searchVars, corpus, index, queryHistory, Sessions, Scopes, Jobs
  <2>2. SearchTypeOK'
    BY Zenon, <2>1 DEF SearchInv, SearchTypeOK
  <2>3. EngineInv' /\ CursorInv' /\ \A x \in Sessions : IndexAt(x)'
    BY Zenon, <2>1, IndexStays DEF SearchInv
  <2>4. \A s \in Sessions : CorpusAt(s)' /\ HistoryAt(s)'
    BY Zenon, <2>1 DEF SearchInv, CorpusAt, Told, HistoryAt
  <2>5. Observing' => \A s \in Sessions : ObservedAt(s)'
    BY Zenon, <2>1 DEF SearchInv, ObservedAt, Unlisted, Uninspected, Observing
  <2>6. AnswersAreFresh' /\ PagesAgree'
    BY Zenon, <2>1 DEF SearchInv, AnswersAreFresh, PagesAgree
  <2> QED BY Zenon, <2>1, <2>2, <2>3, <2>4, <2>5, <2>6 DEF SearchInv
<1> QED BY Zenon, <1>1, <1>2, <1>3, <1>4, <1>5, <1>6, <1>7 DEF SearchNext, CorpusStep, Scopes

LEMMA SearchInvariant == SearchSpec => []SearchInv
BY SearchBegins, SearchStays, PTL DEF SearchSpec

\* An answer misses nothing that was acknowledged when its query began and
\* stayed, and shows nothing that was neither stored nor live all along,
\* whatever is written, opened, deleted or restored during the two listings
\* (_observeStable, _reconcile).
THEOREM AnswersStayFresh == SearchSpec => []AnswersAreFresh
<1>1. SearchInv => AnswersAreFresh
  BY Zenon DEF SearchInv
<1> QED BY <1>1, SearchInvariant, PTL

\* A further page is answered only from the rows its first page was answered
\* from, over any number of transactions, shutdowns and restarts between
\* them (decodeCursor and the generations of _reconcile).
THEOREM PagesStayInAgreement == SearchSpec => []PagesAgree
<1>1. SearchInv => PagesAgree
  BY Zenon DEF SearchInv
<1> QED BY <1>1, SearchInvariant, PTL

\* A live session holds exactly what its log holds, up to the write under
\* way: the overlay never runs ahead of the disk (appendEvents and the live
\* sessions it mirrors to).
LiveIsLogged ==
  \A s \in Sessions : liveNow[s] # NotLive => liveNow[s] = Told(s)

\* The overlay of live sessions follows the logs (see LiveIsLogged).
THEOREM LiveStaysLogged == SearchSpec => []LiveIsLogged
<1>1. SearchInv => LiveIsLogged
  BY Zenon DEF SearchInv, CorpusAt, LiveIsLogged
<1> QED BY <1>1, SearchInvariant, PTL

-----------------------------------------------------------------------------
(* The trash of the session store.                                         *)

LEMMA BinFields ==
  \A b, phase, tombstone, dir, moved :
    b = Bin(phase, tombstone, dir, moved) => b.phase = phase /\ b.log = moved
<1> SUFFICES ASSUME NEW b, NEW phase, NEW tombstone, NEW dir, NEW moved,
                    b = Bin(phase, tombstone, dir, moved)
             PROVE  b.phase = phase /\ b.log = moved
  BY Zenon
<1> QED BY Zenon DEF Bin

\* A delete that moved the log has not forgotten the session.
Unforgotten(bin) == bin.phase \in {"rewrite", "failed"}

\* A session that is in the trash only is forgotten, unless a delete that
\* moved it there has not done so; nothing is known of a session before it is
\* created.
TrashInv ==
  /\ atHome \in BOOLEAN
  /\ bins = [t \in Trash |-> bins[t]]
  /\ asked \in Nat
  /\ asked = 0 => /\ ~ atHome /\ chain = <<>> /\ live = <<>>
                  /\ \A t \in Trash : bins[t].phase = "unused" /\ bins[t].log = <<>>
  /\ restoring # <<>> => restoring[1] \in Trash
  /\ (~ atHome /\ \E t \in Trash : bins[t].log # <<>>)
     => (\E t \in Trash : Unforgotten(bins[t])) \/ (live = <<>> /\ states = NoState)

\* Steps that leave the trash alone, and make a session live or tracked only
\* when its log is at home.
LEMMA QuietTrash ==
  ASSUME TrashInv, UNCHANGED <<bins, restoring>>, asked' \in Nat,
         atHome' \in BOOLEAN, atHome => atHome',
         asked' = 0 => asked = 0 /\ UNCHANGED <<atHome, live>> /\ chain' = <<>>,
         atHome' \/ ((live = <<>> => live' = <<>>) /\ (states = NoState => states' = NoState))
  PROVE  TrashInv'
BY Zenon DEF TrashInv

\* Steps that change one trash directory, and leave there the log that was
\* there or none, and a delete that has not forgotten the session so.
LEMMA BinStep ==
  ASSUME TrashInv, NEW t \in Trash, NEW phase, NEW tombstone, NEW dir, NEW moved,
         bins' = [bins EXCEPT ![t] = Bin(phase, tombstone, dir, moved)],
         UNCHANGED <<atHome, live, asked>>, asked = 0 => chain' = <<>>,
         restoring' # <<>> => restoring'[1] \in Trash,
         states = NoState => states' = NoState,
         moved # <<>> => moved = bins[t].log,
         bins[t].phase \in {"rewrite", "failed"} => phase \in {"rewrite", "failed"},
         asked = 0 => phase = "unused"
  PROVE  TrashInv'
<1>1. /\ bins' = [x \in Trash |-> bins'[x]] /\ bins'[t] = Bin(phase, tombstone, dir, moved)
      /\ \A x \in Trash : x # t => bins'[x] = bins[x]
  BY Zenon DEF TrashInv
<1>2. bins'[t].phase = phase /\ bins'[t].log = moved
  BY Zenon, <1>1 DEF Bin
<1>3. \A x \in Trash : /\ bins'[x].log # <<>> => bins[x].log # <<>>
                       /\ Unforgotten(bins[x]) => Unforgotten(bins'[x])
                       /\ asked = 0 => bins'[x].phase = "unused"
  BY Zenon, <1>1, <1>2 DEF Unforgotten, TrashInv
<1> QED BY Zenon, <1>1, <1>2, <1>3 DEF TrashInv

LEMMA TrashStays == TrashInv /\ [Next]_vars => TrashInv'
<1> SUFFICES ASSUME TrashInv, [Next]_vars PROVE TrashInv'
  OBVIOUS
<1> USE SessionAssumption
<1>0. /\ asked \in Nat /\ atHome \in BOOLEAN
      /\ chain # <<>> => asked # 0
      /\ atHome => asked # 0
      /\ (\E t \in Trash : bins[t].phase # "unused") => asked # 0
  BY Zenon DEF TrashInv
<1>1. CASE BeginTracked
  BY Zenon, <1>0, <1>1, QuietTrash DEF BeginTracked, Running, moves, life, disk
<1>2. CASE BeginLoad
  BY Zenon, <1>0, <1>2, QuietTrash
     DEF BeginLoad, Running, moves, life, disk, Readable, Throw, Leave, Loaded, Adopted
<1>3. CASE InspectToOpen
  BY Zenon, <1>0, <1>3, QuietTrash DEF InspectToOpen, Running, moves, life, disk, Readable, Throw
<1>4. CASE InspectToDelete
  <2>0. /\ chain # <<>> /\ asked # 0 /\ UNCHANGED <<atHome, asked, restoring, states, live>>
    BY Zenon, <1>0, <1>4 DEF InspectToDelete, Running, life, disk, Throw
  <2>1. CASE UNCHANGED bins
    BY Zenon, <1>0, <2>0, <2>1, QuietTrash
  <2>2. CASE \E t \in Trash : bins[t].phase = "unused"
                              /\ bins' = [bins EXCEPT ![t] = Bin("tombstone", "none", FALSE, <<>>)]
    <3>1. PICK t \in Trash : bins[t].phase = "unused"
                             /\ bins' = [bins EXCEPT ![t] = Bin("tombstone", "none", FALSE, <<>>)]
      BY Zenon, <2>2
    <3>2. bins[t].phase \notin {"rewrite", "failed"}
      BY <3>1
    <3>3. restoring' # <<>> => restoring'[1] \in Trash
      BY Zenon, <2>0 DEF TrashInv
    <3> QED BY Zenon, <2>0, <3>1, <3>2, <3>3, BinStep
  <2> QED BY Zenon, <1>4, <2>1, <2>2 DEF InspectToDelete
<1>5. CASE RepairTail
  BY Zenon, <1>0, <1>5, QuietTrash DEF RepairTail, Running, moves, life, disk, Throw
<1>6. CASE Reload
  BY Zenon, <1>0, <1>6, QuietTrash
     DEF Reload, Running, moves, life, disk, Readable, Throw, Loaded, Adopted
<1>7. CASE AppendLines
  <2>1. chain # <<>> /\ UNCHANGED <<bins, restoring, asked>>
    BY Zenon, <1>7 DEF AppendLines, Appending, Running, moves, life
  <2>2. UNCHANGED atHome /\ (atHome \/ UNCHANGED <<live, states>>)
    BY Zenon, <1>7 DEF AppendLines, Written, disk, Throw
  <2> QED BY Zenon, <1>0, <2>1, <2>2, QuietTrash
<1>8. CASE Materialize
  <2>1. chain # <<>> /\ UNCHANGED <<bins, restoring, asked>>
    BY Zenon, <1>8 DEF Materialize, Running, moves, life
  <2>2. atHome' = TRUE \/ (UNCHANGED atHome /\ UNCHANGED <<live, states>>)
    BY Zenon, <1>8 DEF Materialize, disk, Throw
  <2>3. atHome' \in BOOLEAN
    BY Zenon, <1>0, <2>2
  <2> QED BY Zenon, <1>0, <2>1, <2>2, <2>3, QuietTrash
<1>9. CASE RollbackAppend
  <2>1. chain # <<>> /\ UNCHANGED <<bins, restoring, asked, atHome, live, states>>
    BY Zenon, <1>9 DEF RollbackAppend, Running, moves, life, disk, Throw
  <2> QED BY Zenon, <1>0, <2>1, QuietTrash
<1>10. ASSUME NEW t \in Trash, WriteTombstone(t) PROVE TrashInv'
  <2>1. PICK phase, left : bins' = [bins EXCEPT ![t] = Bin(phase, left, TRUE, <<>>)]
    BY Zenon, <1>10 DEF WriteTombstone
  <2>2. bins[t].phase = "tombstone" /\ UNCHANGED <<atHome, chain, live, asked, restoring, states>>
    BY Zenon, <1>10 DEF WriteTombstone, disk, memory, life
  <2>3. bins[t].phase \notin {"rewrite", "failed"} /\ bins[t].phase # "unused"
    BY <2>2
  <2>4. asked # 0 /\ (restoring' # <<>> => restoring'[1] \in Trash)
    BY Zenon, <1>0, <2>2, <2>3 DEF TrashInv
  <2> QED BY Zenon, <2>1, <2>2, <2>3, <2>4, BinStep
<1>11. ASSUME NEW t \in Trash, MoveToTrash(t) PROVE TrashInv'
  <2>0. bins[t].phase = "move" /\ UNCHANGED <<chain, live, asked, restoring, states>>
    BY Zenon, <1>11 DEF MoveToTrash, memory, life
  <2>1. bins[t].phase \notin {"rewrite", "failed"} /\ bins[t].phase # "unused"
    BY <2>0
  <2>2. asked # 0 /\ (restoring' # <<>> => restoring'[1] \in Trash)
    BY Zenon, <1>0, <2>0, <2>1 DEF TrashInv
  <2> DEFINE moved == <<[lines |-> lines, torn |-> torn]>>
  <2>3. CASE atHome' = FALSE /\ bins' = [bins EXCEPT ![t] = Bin("rewrite", bins[t].tombstone, TRUE, moved)]
    <3>1. /\ bins' = [x \in Trash |-> bins'[x]]
          /\ bins'[t] = Bin("rewrite", bins[t].tombstone, TRUE, moved)
      BY Zenon, <2>3 DEF TrashInv
    <3>2. bins'[t].phase = "rewrite"
      <4> HIDE DEF moved
      <4> QED BY Zenon, <3>1, BinFields
    <3>4. Unforgotten(bins'[t])
      BY Zenon, <3>2 DEF Unforgotten
    <3>3. atHome' \in BOOLEAN
      BY <2>3
    <3> QED BY Zenon, <2>0, <2>2, <3>1, <3>4, <3>3 DEF TrashInv
  <2>4. CASE UNCHANGED disk
             /\ bins' = [bins EXCEPT ![t] = Bin("over", bins[t].tombstone, bins[t].dir, bins[t].log)]
    BY Zenon, <2>0, <2>1, <2>2, <2>4, BinStep DEF disk
  <2> QED BY Zenon, <1>11, <2>3, <2>4 DEF MoveToTrash
<1>12. ASSUME NEW t \in Trash, RewriteTombstone(t) PROVE TrashInv'
  <2>0. bins[t].phase = "rewrite" /\ UNCHANGED <<atHome, chain, asked, restoring>>
    BY Zenon, <1>12 DEF RewriteTombstone, disk, life
  <2>1. bins[t].phase # "unused"
    BY <2>0
  <2>2. asked # 0 /\ (restoring' # <<>> => restoring'[1] \in Trash)
    BY Zenon, <1>0, <2>0, <2>1 DEF TrashInv
  <2>3. CASE /\ bins' = [bins EXCEPT ![t] = Bin("over", "whole", TRUE, bins[t].log)]
             /\ Forget
    <3>1. bins' = [x \in Trash |-> bins'[x]]
      BY Zenon, <2>3 DEF TrashInv
    <3>2. live' = <<>> /\ states' = NoState
      BY Zenon, <2>3 DEF Forget
    <3> QED BY Zenon, <2>0, <2>2, <3>1, <3>2 DEF TrashInv
  <2>4. CASE /\ \E left : bins' = [bins EXCEPT ![t] = Bin("failed", left, bins[t].dir, bins[t].log)]
             /\ UNCHANGED <<live, states>>
    <3>1. PICK left : bins' = [bins EXCEPT ![t] = Bin("failed", left, bins[t].dir, bins[t].log)]
      BY Zenon, <2>4
    <3> QED BY Zenon, <2>0, <2>2, <2>4, <3>1, BinStep
  <2> QED BY Zenon, <1>12, <2>3, <2>4 DEF RewriteTombstone
<1>13. CASE MoveBack
  <2>0. /\ restoring[1] \in Trash /\ UNCHANGED <<chain, live, asked, states>>
        /\ restoring' # <<>> => restoring'[1] \in Trash
    BY <1>13 DEF MoveBack, memory, life, TrashInv
  <2>1. CASE UNCHANGED <<disk, bins>>
    BY Zenon, <2>0, <2>1 DEF TrashInv, disk
  <2> DEFINE t == restoring[1]
  <2>2. CASE /\ bins[t].log # <<>> /\ atHome' = TRUE
             /\ bins' = [bins EXCEPT ![t] = Bin(bins[t].phase, bins[t].tombstone, bins[t].dir, <<>>)]
    <3>1. asked # 0
      BY Zenon, <2>0, <2>2 DEF TrashInv
    <3>2. bins' = [x \in Trash |-> bins'[x]] /\ atHome' \in BOOLEAN
      BY Zenon, <2>2 DEF TrashInv
    <3> QED BY Zenon, <2>0, <2>2, <3>1, <3>2 DEF TrashInv
  <2> QED BY Zenon, <1>13, <2>1, <2>2 DEF MoveBack
<1>14. CASE FinishRestore
  <2>0. restoring[1] \in Trash /\ UNCHANGED <<atHome, chain, live, asked>> /\ restoring' = <<>>
    BY Zenon, <1>14 DEF FinishRestore, disk, life, TrashInv
  <2>1. CASE UNCHANGED <<bins, states>>
    BY Zenon, <2>0, <2>1 DEF TrashInv
  <2> DEFINE t == restoring[1]
  <2>2. CASE /\ bins' = [bins EXCEPT ![t] = Bin(bins[t].phase, "none", bins[t].dir, bins[t].log)]
             /\ states' = NoState
    <3>1. asked = 0 => chain' = <<>> /\ bins[t].phase = "unused"
      BY Zenon, <2>0 DEF TrashInv
    <3> HIDE DEF t
    <3> QED BY Zenon, <2>0, <2>2, <3>1, BinStep DEF t
  <2> QED BY Zenon, <1>14, <2>1, <2>2 DEF FinishRestore
<1>15. CASE CreateSession
  BY <1>15 DEF CreateSession, disk, moves, TrashInv
<1>16. CASE AppendEvents \/ ReadSession \/ OpenSession \/ DeleteSession
  <2>1. asked' \in Nat /\ asked' >= asked
    BY <1>0, <1>16 DEF AppendEvents, ReadSession, OpenSession, DeleteSession
  <2>2. Known /\ UNCHANGED <<atHome, states, live, bins, restoring>>
    BY Zenon, <1>16 DEF AppendEvents, ReadSession, OpenSession, DeleteSession, Enqueue, disk, moves
  <2>3. asked # 0
    BY Zenon, <2>2 DEF Known, TrashInv
  <2> QED BY <1>0, <2>1, <2>2, <2>3, QuietTrash
<1>17. CASE CloseSession
  BY Zenon, <1>0, <1>17, QuietTrash DEF CloseSession, disk, moves, life, TrashInv
<1>18. ASSUME NEW t \in Trash, FindToRestore(t) PROVE TrashInv'
  BY Zenon, <1>18 DEF FindToRestore, disk, memory, life, TrashInv
<1>19. ASSUME NEW t \in Trash, PurgeSession(t) PROVE TrashInv'
  <2>1. PICK entry, dir, moved :
          /\ bins' = [bins EXCEPT ![t] = Bin(bins[t].phase, entry, dir, moved)]
          /\ moved # <<>> => moved = bins[t].log
    <3>1. PICK dir, entry, moved \in BOOLEAN :
            bins' = [bins EXCEPT ![t] =
              Bin(bins[t].phase, IF entry THEN bins[t].tombstone ELSE "none", dir,
                  IF moved THEN bins[t].log ELSE <<>>)]
      BY Zenon, <1>19 DEF PurgeSession
    <3> QED BY Zenon, <3>1
  <2>2. UNCHANGED <<atHome, states, chain, live, restoring, asked>>
    BY Zenon, <1>19 DEF PurgeSession, disk, memory, life
  <2>3. /\ restoring' # <<>> => restoring'[1] \in Trash
        /\ asked = 0 => chain' = <<>> /\ bins[t].phase = "unused"
    BY Zenon, <2>2 DEF TrashInv
  <2> QED BY Zenon, <2>1, <2>2, <2>3, BinStep
<1>20. CASE AppendFails
  BY Zenon, <1>0, <1>20, QuietTrash
     DEF AppendFails, Appending, Running, PartlyWritten, moves, life
<1>21. CASE Close
  BY Zenon, <1>21 DEF Close, disk, memory, moves, TrashInv
<1>22. CASE Exit \/ Crash
  <2>1. live' = <<>> /\ states' = NoState /\ restoring' = <<>> /\ asked' = asked /\ CutShort
        /\ chain' = <<>>
    BY Zenon, <1>22 DEF Exit, Crash, Restart
  <2>2. atHome' = atHome \/ (atHome' = TRUE /\ asked # 0)
    BY Zenon, <1>0, <1>22 DEF Exit, Crash, disk, PartlyWritten, Running
  <2>3. /\ bins' = [t \in Trash |-> bins'[t]]
        /\ \A t \in Trash : \E tombstone :
             bins'[t] = Bin(IF bins[t].phase = "unused" THEN "unused" ELSE "over",
                            tombstone, bins[t].dir, bins[t].log)
    BY Zenon, <2>1 DEF CutShort
  <2>4. \A t \in Trash : /\ bins'[t].log = bins[t].log
                         /\ bins[t].phase = "unused" => bins'[t].phase = "unused"
    <3> SUFFICES ASSUME NEW t \in Trash
                 PROVE  /\ bins'[t].log = bins[t].log
                        /\ bins[t].phase = "unused" => bins'[t].phase = "unused"
      OBVIOUS
    <3> DEFINE phase == IF bins[t].phase = "unused" THEN "unused" ELSE "over"
               moved == bins[t].log
    <3>1. PICK tombstone, dir : bins'[t] = Bin(phase, tombstone, dir, moved)
      BY Zenon, <2>3
    <3>2. (bins[t].phase = "unused" => phase = "unused") /\ moved = bins[t].log
      BY Zenon
    <3> HIDE DEF phase, moved
    <3>3. bins'[t].phase = phase /\ bins'[t].log = moved
      BY SMT, <3>1, BinFields
    <3> QED BY Zenon, <3>2, <3>3
  <2>5. atHome' \in BOOLEAN
    BY Zenon, <1>0, <2>2
  <2>6. asked = 0 => /\ ~ atHome'
                     /\ \A t \in Trash : bins'[t].phase = "unused" /\ bins'[t].log = <<>>
    BY Zenon, <2>2, <2>4 DEF TrashInv
  <2>7. bins' = [t \in Trash |-> bins'[t]]
    BY Zenon, <2>3
  <2> QED BY Zenon, <1>0, <2>1, <2>5, <2>6, <2>7 DEF TrashInv
<1>23. CASE UNCHANGED vars
  BY Zenon, <1>23 DEF vars, disk, memory, moves, life, TrashInv
<1> QED BY <1>1, <1>2, <1>3, <1>4, <1>5, <1>6, <1>7, <1>8, <1>9, <1>10, <1>11, <1>12, <1>13,
           <1>14, <1>15, <1>16, <1>17, <1>18, <1>19, <1>20, <1>21, <1>22, <1>23
        DEF Next, Step, Call

\* While a session is in the trash only, no delete is still to forget it and
\* none threw after moving it, the manager neither shows it as live nor keeps
\* a cursor of it, for any number of deletes, restores, purges, appends,
\* failures of the trash's files and restarts (manager.deleteSession).
THEOREM TrashedStaysForgotten == Spec => []TrashedIsForgotten
<1>1. Init => TrashInv
  <2>1. NoBin.phase = "unused" /\ NoBin.log = <<>>
    BY Zenon DEF NoBin, Bin
  <2>2. Init => asked \in Nat /\ atHome \in BOOLEAN
    <3>1. 0 \in Nat /\ FALSE \in BOOLEAN
      OBVIOUS
    <3> QED BY Zenon, <3>1 DEF Init
  <2> QED BY Zenon, <2>1, <2>2 DEF Init, TrashInv
<1>2. TrashInv => TrashedIsForgotten
  BY Zenon DEF TrashInv, TrashedIsForgotten, Unforgotten
<1> QED BY <1>1, <1>2, TrashStays, PTL DEF Spec
=============================================================================
