----------------------------- MODULE StoreQuery -----------------------------
(***************************************************************************)
(* A reader beside the writers of Store: the raw path of Engine.Query      *)
(* (rollup/engine.go: FindChunks on a snapshot of the index, ReadChunk per *)
(* file, GetBufferedPoints, the exact filter) and the point count of       *)
(* GetAllSeriesMeta.  Every call is a step of its own, and the writers     *)
(* move between them.  Readers change nothing of the store, so one reader  *)
(* stands for any number of them.                                          *)
(***************************************************************************)
EXTENDS Store, Selection

VARIABLE query   \* the reader: what it asked for and what it has so far

Idle == [step |-> "idle"]

qvars == <<vars, query>>

QueryInit == Init /\ query = Idle

InRange(p, from, to) == from <= p.ts /\ p.ts <= to

Filtered(pts, from, to) == Select(pts, {p \in Range(pts) : InRange(p, from, to)})
-----------------------------------------------------------------------------
(* Engine.Query, the raw path *)

\* Mutant: chunks that end where the range starts are left out.
Overlaps_Strict(e, from, to) == e.end > from /\ e.start <= to

Overlaps(e, from, to) == e.end >= from /\ e.start <= to

\* due and seen are history: what was acknowledged, and which entries the query
\* had the chance to read.
FindChunks(s, from, to) ==
  /\ Running /\ query.step = "idle"
  /\ LET hits == {e \in Range(index[s]) : Overlaps(e, from, to)}
     IN query' = [step |-> "chunks", series |-> s, from |-> from, to |-> to,
                  files |-> Select(index[s], hits), got |-> <<>>,
                  due |-> {p \in acked[s] : InRange(p, from, to)},
                  seen |-> Range(index[s])]
  /\ UNCHANGED vars

ReadChunk ==
  /\ query.step = "chunks" /\ query.files # <<>>
  /\ query' = [query EXCEPT !.files = Tail(@),
                 !.got = @ \o chunks[query.series][Head(query.files).id]]
  /\ UNCHANGED vars

\* A chunk that cannot be read is skipped with a warning, which names it.
SkipChunk ==
  /\ query.step = "chunks" /\ query.files # <<>>
  /\ query' = [query EXCEPT !.files = Tail(@), !.seen = @ \ {Head(query.files)}]
  /\ UNCHANGED vars

\* Mutant: the buffer is copied without st.mu.
GetBufferedPoints_Unlocked ==
  /\ query.step = "chunks" /\ query.files = <<>>
  /\ query' = [query EXCEPT !.step = "done",
                 !.got = Filtered(@ \o buffer[query.series], query.from, query.to)]
  /\ UNCHANGED vars

\* Under st.mu: it waits for a write or a rotation of the series to end.
GetBufferedPoints ==
  /\ query.step = "chunks" /\ query.files = <<>>
  /\ phase[query.series] = "free"
  /\ query' = [query EXCEPT !.step = "done",
                 !.got = Filtered(@ \o buffer[query.series], query.from, query.to)]
  /\ UNCHANGED vars
-----------------------------------------------------------------------------
(* GetAllSeriesMeta *)

Counted(entries) == Total([i \in DOMAIN entries |-> entries[i].count])

\* The index snapshot, taken before any buffer is looked at.
LoadMeta(s) ==
  /\ Running /\ query.step = "idle"
  /\ query' = [step |-> "meta", series |-> s, count |-> Counted(index[s])]
  /\ UNCHANGED vars

\* Mutant: the length of the buffer is read without st.mu.
CountBuffered_Unlocked ==
  /\ query.step = "meta"
  /\ query' = [query EXCEPT !.step = "metaDone", !.count = @ + Len(buffer[query.series])]
  /\ UNCHANGED vars

CountBuffered ==
  /\ query.step = "meta"
  /\ phase[query.series] = "free"
  /\ query' = [query EXCEPT !.step = "metaDone", !.count = @ + Len(buffer[query.series])]
  /\ UNCHANGED vars

\* The caller has its answer and may ask again.
Answered ==
  /\ query.step \in {"done", "metaDone"}
  /\ query' = Idle
  /\ UNCHANGED vars

Reader ==
  \/ \E s \in Series, from, to \in Timestamps : from < to /\ FindChunks(s, from, to)
  \/ ReadChunk \/ GetBufferedPoints
  \/ "chunkRead" \in Faults /\ SkipChunk
  \/ \E s \in Series : LoadMeta(s)
  \/ CountBuffered \/ Answered

\* A crash takes the reader with it.
QueryNext ==
  \/ Reader
  \/ Next /\ query' = IF opened' = {} THEN Idle ELSE query

QuerySpec == QueryInit /\ [][QueryNext]_qvars
-----------------------------------------------------------------------------
(* Properties *)

Times(pts, p) == Cardinality({i \in DOMAIN pts : pts[i] = p})

\* A query that runs beside a rotation never returns a point both from its chunk
\* and from the buffer: a point written since the process started comes once.
QueryReturnsOnce ==
  query.step = "done" =>
    \A p \in Range(query.got) : p.val > bootSerial => Times(query.got, p) = 1

\* What a query misses of the points acknowledged before it began is in a chunk
\* that a rotation published after its snapshot of the index, or that it warned
\* it could not read; it misses nothing else, at the boundaries of its range either.
MissesAccounted ==
  query.step = "done" =>
    query.due \subseteq Range(query.got) \cup
                        PointsOf(query.series, Range(index[query.series]) \ query.seen)

\* The point count that is reported never exceeds the points the store holds.
MetaNeverOvercounts ==
  query.step = "metaDone" =>
    query.count <= Counted(index[query.series]) + Len(buffer[query.series])
=============================================================================
