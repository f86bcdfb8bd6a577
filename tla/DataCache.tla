----------------------------- MODULE DataCache -----------------------------
(***************************************************************************)
(* The market data cache (data-cache-manager.ts) for ONE series, that is   *)
(* one symbol, native interval and provider: a Parquet file, its row in    *)
(* data_cache_files, and the calls of ensureData that extend both.         *)
(*                                                                         *)
(* A day stands for one chunk of splitGapIntoChunks: it is fetched whole.  *)
(* Every day is a trading day of the calendar; Provided are those the      *)
(* provider has bars for.  A record claims the days first..last (the       *)
(* virtual coverage, which may reach over days known to be empty) and says *)
(* that the file holds count days within afirst..alast.                    *)
(***************************************************************************)
EXTENDS Integers, FiniteSets, FiniteSetsExt

CONSTANTS
    Calls,          \* concurrent callers of ensureData
    LastDay,        \* bound: the days of the calendar are 1..LastDay
    Provided,       \* days the provider has data for
    MinPercent,     \* CACHE_INTEGRITY_COVERAGE_THRESHOLD, in percent
    Requests,       \* bound: the ranges <<from, to>> asked for
    PreemptedIn,    \* paths during which shouldYield() is seen true
    MaxCalls,       \* bound: calls of ensureData
    MaxCrashes      \* bound: crashes of the process

Days  == 1..LastDay
Paths == {"full", "merge", "heal"}

ASSUME CacheAssumption ==
    /\ LastDay \in Nat \ {0}
    /\ Provided \subseteq Days
    /\ MinPercent \in 0..100
    /\ Requests \subseteq {r \in Days \X Days : r[1] <= r[2]}
    /\ PreemptedIn \subseteq Paths
    /\ MaxCalls \in Nat
    /\ MaxCrashes \in Nat

VARIABLES
    file,       \* days in the Parquet file
    rec,        \* the row of data_cache_files
    busy,       \* pendingOps holds a call of the series
    op,         \* call -> its progress
    ncalls,
    crashes,
    givenUp,    \* days whose chunk was skipped and that are not in the file since
    healed      \* the record the last heal wrote

cacheVars == <<file, rec, busy, op, ncalls, crashes, givenUp, healed>>

NoRec == [first |-> 0, last |-> 0, afirst |-> 0, alast |-> 0, count |-> 0,
          known |-> {}]
Records == [first : 0..LastDay, last : 0..LastDay, afirst : 0..LastDay,
            alast : 0..LastDay, count : 0..LastDay, known : SUBSET Days]
Recorded(r) == r.count > 0

\* A call: the request, the path doEnsureData took, the record it decided on,
\* the days still to ask for and those that were answered with rows.
NoOp == [pc |-> "idle", from |-> 1, to |-> 1, path |-> "full", old |-> NoRec,
         todo |-> {}, got |-> {}, cut |-> FALSE, skips |-> FALSE, result |-> "none"]
Ops == [pc : {"idle", "waiting", "fetch", "record"},
        from : Days, to : Days, path : Paths, old : Records,
        todo : SUBSET Days, got : SUBSET Days, cut : BOOLEAN, skips : BOOLEAN,
        result : {"none", "complete", "yielded", "error"}]

CacheInit ==
    /\ file = {}
    /\ rec = NoRec
    /\ busy = FALSE
    /\ op = [c \in Calls |-> NoOp]
    /\ ncalls = 0
    /\ crashes = 0
    /\ givenUp = {}
    /\ healed = NoRec

-----------------------------------------------------------------------------
(* What a cache hit looks at.                                              *)

Covers(r, from, to) == r.first <= from /\ to <= r.last

\* checkMissingTradingDays within the extent of the rows and from..to
Missing(rows, from, to) ==
    {d \in Days : from <= d /\ d <= to /\ Min(rows) < d /\ d < Max(rows)} \ rows

\* assessInteriorIntegrity: fewer rows than the calendar makes one expect (of
\* spans long enough to tell, as all are here).
TooFewRows(r) == 100 * r.count < MinPercent * (r.alast - r.afirst + 1)

\* assessTradingDayGap, unless the gap is exactly the known-missing set.
UnknownGap(r) ==
    LET gap == Missing(file, r.afirst, r.alast) IN gap # {} /\ gap # r.known

HealNeeded(r) == TooFewRows(r) \/ UnknownGap(r)

-----------------------------------------------------------------------------
(* ensureData: the per-key mutex, then doEnsureData.                       *)

Call(c, from, to) ==
    /\ op[c].pc = "idle"
    /\ ncalls < MaxCalls
    /\ ncalls' = ncalls + 1
    /\ op' = [op EXCEPT ![c] = [NoOp EXCEPT !.pc = "waiting", !.from = from, !.to = to]]
    /\ UNCHANGED <<file, rec, busy, crashes, givenUp, healed>>

\* A call that ends leaves pendingOps.
End_KeyKept(c, res) ==
    /\ op' = [op EXCEPT ![c] = [NoOp EXCEPT !.result = res]]
    /\ busy' = (busy /\ res = "error")
End(c, res) ==
    /\ op' = [op EXCEPT ![c] = [NoOp EXCEPT !.result = res]]
    /\ busy' = FALSE

Fetching(o, path, todo) ==
    [o EXCEPT !.pc = "fetch", !.path = path, !.todo = todo, !.old = rec]

\* The first range reaches to the first day of the coverage, the second starts
\* at its last day.
Lacking(o) ==
    (IF o.from < rec.first THEN o.from..rec.first ELSE {})
      \cup (IF o.to > rec.last THEN rec.last..o.to ELSE {})

\* shouldYield() is asked before the second range, which is left out then.
ToFetch(o) ==
    {Lacking(o)} \cup
      (IF "merge" \in PreemptedIn /\ o.from >= rec.first THEN {{}} ELSE {})

KeyFree == ~busy

Begin(c) ==
    LET o == op[c]
        start(path, todo) ==
            op' = [op EXCEPT ![c] = Fetching(o, path, todo)] /\ busy' = TRUE
    IN /\ o.pc = "waiting"
       /\ KeyFree
       /\ \/ ~Recorded(rec) /\ start("full", o.from..o.to)
          \/ Recorded(rec) /\ ~Covers(rec, o.from, o.to)
             /\ \E todo \in ToFetch(o) : start("merge", todo)
          \/ /\ Recorded(rec) /\ Covers(rec, o.from, o.to)
             /\ IF HealNeeded(rec) THEN start("heal", rec.afirst..rec.alast)
                                   ELSE End(c, "complete")
       /\ UNCHANGED <<file, rec, ncalls, crashes, givenUp, healed>>

-----------------------------------------------------------------------------
(* fetchRange, chunk by chunk.                                             *)

\* The provider answers for the next day.  After that shouldYield() is asked,
\* and true ends the fetch (and an append that was to follow a prepend).
ChunkAnswered(c, yield) ==
    LET o == op[c]
        d == Min(o.todo)
    IN /\ o.pc = "fetch"
       /\ o.todo # {}
       /\ yield => o.path \in PreemptedIn
       /\ op' = [op EXCEPT ![c].got = @ \cup ({d} \cap Provided),
                           ![c].todo = IF yield THEN {} ELSE @ \ {d},
                           ![c].cut = yield]
       /\ UNCHANGED <<file, rec, busy, ncalls, crashes, givenUp, healed>>

\* Every attempt failed with an opaque error: the chunk is skipped, and
\* shouldYield() not asked until the fetch of this range has returned.
LastOfRange(o, d) ==
    IF o.path = "merge" THEN d = o.old.first \/ o.todo = {d} ELSE o.todo = {d}
Skip(c, yield) ==
    LET o == op[c]
        d == Min(o.todo)
    IN /\ o.pc = "fetch"
       /\ o.todo # {}
       /\ yield => o.path \in PreemptedIn /\ LastOfRange(o, d)
       /\ op' = [op EXCEPT ![c].todo = IF yield THEN {} ELSE @ \ {d},
                           ![c].skips = TRUE,
                           ![c].cut = yield]
       /\ givenUp' = givenUp \cup {d}
       /\ UNCHANGED <<file, rec, busy, ncalls, crashes, healed>>

\* The provider fails with another error, the signal is aborted before a
\* chunk, or nothing can be written.
Fail(c) ==
    /\ op[c].pc = "fetch"
    /\ End(c, "error")
    /\ UNCHANGED <<file, rec, ncalls, crashes, givenUp, healed>>

-----------------------------------------------------------------------------
(* The fetch is over: nothing to write, or one atomic replacement of the    *)
(* file, and the record after it.                                          *)

\* upsertVirtualCoverageOnly, with what doEnsureData gives it
Widened(o) ==
    [o.old EXCEPT !.first = Min({@, o.from}), !.last = Max({@, o.to})]

NoRows(c) ==
    LET o == op[c]
    IN /\ o.pc = "fetch"
       /\ o.todo = {}
       /\ o.got = {}
       /\ \/ o.path = "full" /\ End(c, IF o.cut THEN "yielded" ELSE "error") /\ UNCHANGED rec
          \/ o.path = "merge" /\ End(c, "complete") /\ rec' = Widened(o)
       /\ UNCHANGED <<file, ncalls, crashes, givenUp, healed>>

\* The window mergeAndWriteParquet is given: the extent of the record, and of the
\* request too when it is a merge.
Window(o) ==
    IF o.path = "merge" THEN Min({o.old.afirst, o.from})..Max({o.old.alast, o.to})
                        ELSE o.old.afirst..o.old.alast

\* atomicWriteParquet replaces the file; mergeAndWriteParquet adds to it, and the
\* executor that writes drops what is outside the window (ohlcv_data_plane.cpp,
\* append_input).
Published(o) ==
    IF o.path = "full" THEN o.got ELSE (file \cup o.got) \cap Window(o)

\* A merge or heal that would leave fewer rows than the record has
\* (minimumOutputRows) writes nothing: the call can only fail.
Publish(c) ==
    LET o == op[c]
    IN /\ o.pc = "fetch"
       /\ o.todo = {}
       /\ o.got # {} \/ o.path = "heal"
       /\ o.old.count <= Cardinality(Published(o))
       /\ file' = Published(o)
       /\ op' = [op EXCEPT ![c].pc = "record"]
       /\ UNCHANGED <<rec, busy, ncalls, crashes, givenUp, healed>>

\* The coverage upsertMetadata is given: the request and the rows, but only
\* the rows on the right of a full download that yielded; a heal keeps what
\* was claimed before.
FirstClaimed(o) ==
    IF o.path = "heal" THEN Min({Min(file), o.old.first}) ELSE Min({Min(file), o.from})
LastClaimed_Requested(o) ==
    IF o.path = "heal" THEN Max({Max(file), o.old.last}) ELSE Max({Max(file), o.to})
LastClaimed_Actual(o) == Max(file)
LastClaimed(o) ==
    CASE o.path = "heal" -> Max({Max(file), o.old.last})
      [] o.path = "full" /\ o.cut -> Max(file)
      [] OTHER -> Max({Max(file), o.to})

\* missing_days: none of a fetch that yielded or skipped a chunk; after a
\* merge those of the request only.
KnownMissing_KeptByHeal(o) ==
    CASE o.path = "heal" -> o.old.known
      [] o.path = "merge" -> Missing(file, o.from, o.to)
      [] o.path = "full" -> IF o.cut \/ o.skips THEN {} ELSE Missing(file, o.from, o.to)
KnownMissing(o) ==
    CASE o.path = "heal" -> Missing(file, o.old.afirst, o.old.alast)
      [] o.path = "merge" -> Missing(file, o.from, o.to)
      [] o.path = "full" -> IF o.cut \/ o.skips THEN {} ELSE Missing(file, o.from, o.to)

\* upsertMetadata, and the answer.  A merge asks shouldYield() again here.
Outcome(o) ==
    CASE o.path = "full" -> {IF o.cut THEN "yielded" ELSE "complete"}
      [] o.path = "heal" -> {"complete"}
      [] o.path = "merge" -> {"complete"} \cup
           (IF "merge" \in PreemptedIn THEN {"yielded"} ELSE {})

Record(c) ==
    LET o == op[c]
    IN /\ o.pc = "record"
       /\ rec' = [first |-> FirstClaimed(o), last |-> LastClaimed(o),
                  afirst |-> Min(file), alast |-> Max(file),
                  count |-> Cardinality(file), known |-> KnownMissing(o)]
       /\ \E res \in Outcome(o) : End(c, res)
       /\ healed' = IF o.path = "heal" THEN rec' ELSE healed
       /\ givenUp' = givenUp \ file
       /\ UNCHANGED <<file, ncalls, crashes>>

\* The process ends; the file and the database stay.
Crash ==
    /\ crashes < MaxCrashes
    /\ crashes' = crashes + 1
    /\ op' = [c \in Calls |-> NoOp]
    /\ busy' = FALSE
    /\ UNCHANGED <<file, rec, ncalls, givenUp, healed>>

-----------------------------------------------------------------------------
Step(c) ==
    \/ Begin(c)
    \/ \E yield \in BOOLEAN : ChunkAnswered(c, yield) \/ Skip(c, yield)
    \/ Fail(c)
    \/ NoRows(c)
    \/ Publish(c)
    \/ Record(c)

CacheNext ==
    \/ \E c \in Calls, r \in Requests : Call(c, r[1], r[2])
    \/ \E c \in Calls : Step(c)
    \/ Crash

\* Providers answer or fail and writes end; a call is not made to wait for
\* ever, because waiters go on in the order in which they wait.
CacheFairness == \A c \in Calls : WF_cacheVars(Step(c))

CacheSpec == CacheInit /\ [][CacheNext]_cacheVars /\ CacheFairness

-----------------------------------------------------------------------------
CacheTypeOK ==
    /\ file \subseteq Days
    /\ rec \in Records
    /\ busy \in BOOLEAN
    /\ op \in [Calls -> Ops]
    /\ ncalls \in 0..MaxCalls
    /\ crashes \in 0..MaxCrashes
    /\ givenUp \subseteq Days
    /\ healed \in Records

\* What the record claims is in the file: every day of the coverage that the
\* provider has, but for the chunks that were skipped.  Nothing else is asked
\* for again, so a day claimed in error is missing for good.
ClaimsHold ==
    Recorded(rec) => (Provided \cap rec.first..rec.last) \ givenUp \subseteq file

\* The record is true of the file: its claims hold, and it never says more of the
\* file than there is in it, whenever the process ends between the write of the
\* file and that of the record.
RecordIsTrue ==
    /\ CacheTypeOK
    /\ ClaimsHold
    /\ Recorded(rec) =>
         /\ rec.count <= Cardinality(file)
         /\ Min(file) <= rec.afirst /\ rec.alast <= Max(file)

Completes(c) == op[c].pc # "idle" /\ op'[c].result = "complete"

\* What was answered once is not downloaded again: after a complete answer the
\* record covers the request (TICKET_372, "an infinite download loop").  With
\* ClaimsHold the file then has the requested data.
NotAskedAgain ==
    [][\A c \in Calls : Completes(c) => Covers(rec', op[c].from, op[c].to)]_cacheVars

\* Days the provider lacks are asked for once: a hit does not heal the record
\* a heal wrote, unless it has too few rows (TICKET_1072_1).
HealsOnce ==
    [][\A c \in Calls :
         op[c].pc = "waiting" /\ op'[c].pc = "fetch" /\ op'[c].path = "heal"
           => rec # healed \/ TooFewRows(rec)]_cacheVars

\* Every call of ensureData is answered, and none waits for the mutex for ever.
EveryCallEnds == \A c \in Calls : op[c].pc # "idle" ~> op[c].pc = "idle"
=============================================================================
