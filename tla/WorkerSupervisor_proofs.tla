----------------------- MODULE WorkerSupervisor_proofs -----------------------
(***************************************************************************)
(* The research worker supervisor, for any requests, artifacts and length  *)
(* of the queue of lines: results, announcements and files agree, an       *)
(* answer is final, and a removal waits for every request.                 *)
(*                                                                         *)
(* Every action but a shutdown or removal is about one request.  What is   *)
(* invariant of one request (Sound) is a predicate of its five values; a   *)
(* lemma per action shows that it keeps them, leaves the other requests    *)
(* alone and never leaves a waiter asleep (Keeps).                         *)
(***************************************************************************)
EXTENDS WorkerSupervisor, TLAPS

Exec ==
    [pc : {"idle", "starting", "running", "over"},
     hello : BOOLEAN, accepted : BOOLEAN, cancelled : BOOLEAN,
     child : {None, "up", "killed", "closed"},
     negotiation : BOOLEAN, grace : BOOLEAN,
     at : {"idle", "stage", "rename", "rollback", "verify"},
     art : {{}} \cup {{a} : a \in Artifacts},
     lines : Seq(Lines)]

\* The record of an execution by itself: timers are armed while it is active,
\* an artifact is in work only after the request was accepted.
Fits(x) ==
    /\ x \in Exec
    /\ Len(x.lines) <= MaxQueued
    /\ x.negotiation => x.pc = "running" /\ ~x.hello
    /\ x.grace => x.pc = "running" /\ x.cancelled
    /\ x.accepted => x.hello
    /\ x.pc \in {"idle", "starting"} => x.child = None /\ x.at = "idle"
    /\ x.pc = "running" => x.child # None
    /\ x.pc = "running" /\ x.at # "idle" => x.accepted

\* The execution x of a request, its answer a, the artifacts p announced and s
\* stored for it, and whether the file system failed (f).
Sound(x, a, p, s, f) ==
    /\ Fits(x)
    /\ a \in Answers /\ p \in SUBSET Artifacts /\ s \in SUBSET Artifacts /\ f \in BOOLEAN
    /\ a.kind = None <=> x.pc # "over"
    /\ x.at # "idle" => a.kind \in {None, "invalid"} /\ x.art \cap p = {}
    /\ x.at = "verify" => x.art \subseteq s
    /\ p \subseteq s
    /\ ~f => s \subseteq p \cup (IF x.at \in {"rollback", "verify"} THEN x.art ELSE {})
    /\ a.kind = "result" => a.arts = p
    /\ x.pc = "over" /\ a.kind # "refused" => x.child \in {"killed", "closed"}

Requests_Sound ==
    \A r \in Requests : Sound(ex[r], answer[r], published[r], stored[r], faulty[r])

Shapes ==
    /\ DOMAIN ex = Requests
    /\ ex = [r \in Requests |-> ex[r]]
    /\ answer = [r \in Requests |-> answer[r]]
    /\ published = [r \in Requests |-> published[r]]
    /\ stored = [r \in Requests |-> stored[r]]
    /\ faulty = [r \in Requests |-> faulty[r]]

\* Who waits has something to wait for.
Waits ==
    /\ shuttingDown \in BOOLEAN
    /\ wait \in {None, "waiting", "done"}
    /\ wait = "waiting" => ~Idle(ex)

Inv == Shapes /\ Requests_Sound /\ Waits

LEMMA InitInv == Init => Inv
<1> SUFFICES ASSUME Init PROVE Inv
  OBVIOUS
<1>1. NoExecution \in Exec /\ Len(NoExecution.lines) = 0
  BY DEF NoExecution, Exec, None
<1>2. Line(None) \in Answers
  BY DEF Line, Answers, None
<1>3. ASSUME NEW r \in Requests
      PROVE  Sound(ex[r], answer[r], published[r], stored[r], faulty[r])
  <2>1. Fits(ex[r])
    BY <1>1, ConstantsAssumption DEF Init, NoExecution, Fits
  <2> QED
    BY <2>1, <1>1, <1>2 DEF Init, Sound, NoExecution, Line, None
<1> QED
  BY <1>3 DEF Init, Inv, Shapes, Requests_Sound, Waits, None

-----------------------------------------------------------------------------
(* The end of an execution *)

LEMMA EndedFields ==
    ASSUME NEW k \in Exec
    PROVE  /\ Ended(k) \in Exec /\ Ended(k).pc = "over" /\ Ended(k).lines = <<>>
           /\ ~Ended(k).negotiation /\ ~Ended(k).grace /\ ~Ended(k).accepted
           /\ Ended(k).at = k.at /\ Ended(k).art = k.art /\ Ended(k).child = k.child
<1> DEFINE n == NoExecution
           c == k.cancelled /\ Storing(k)
           h == k.child
           t == k.at
           u == k.art
           y == [n EXCEPT !.pc = "over", !.child = h, !.cancelled = c, !.at = t, !.art = u]
<1>1. n \in Exec
  BY DEF NoExecution, Exec, None
<1>2. n.lines = <<>> /\ ~n.negotiation /\ ~n.grace /\ ~n.accepted
  BY DEF NoExecution
<1>3. /\ c \in BOOLEAN
      /\ h \in {None, "up", "killed", "closed"}
      /\ t \in {"idle", "stage", "rename", "rollback", "verify"}
      /\ u \in {{}} \cup {{b} : b \in Artifacts}
  BY DEF Exec
<1>4. Ended(k) = y
  BY Zenon DEF Ended
<1> HIDE DEF n, c, h, t, u
<1>5. y \in Exec
  BY <1>1, <1>3 DEF Exec
<1>6. y.pc = "over" /\ y.lines = n.lines /\ y.at = t /\ y.art = u /\ y.child = h
  BY <1>1 DEF Exec
<1>7. y.negotiation = n.negotiation /\ y.grace = n.grace /\ y.accepted = n.accepted
  BY <1>1 DEF Exec
<1> HIDE DEF y
<1> QED
  BY <1>4, <1>5, <1>6, <1>7, <1>2 DEF h, t, u

LEMMA EndedRecord ==
    ASSUME NEW x \in Exec
    PROVE  LET y == Ended(Killed(x)) IN
           /\ y \in Exec /\ y.pc = "over" /\ y.lines = <<>>
           /\ ~y.negotiation /\ ~y.grace /\ ~y.accepted
           /\ y.at = x.at /\ y.art = x.art
           /\ y.child = IF x.child = "up" THEN "killed" ELSE x.child
<1>1. Killed(x) \in Exec
  BY DEF Killed, Exec
<1>2. /\ Killed(x).child = (IF x.child = "up" THEN "killed" ELSE x.child)
      /\ Killed(x).at = x.at /\ Killed(x).art = x.art
  BY DEF Killed, Exec
<1> QED
  BY <1>1, <1>2, EndedFields

\* Whatever ends an active execution leaves it sound: a child that is not left
\* alone, and a result only when nothing is in work.
LEMMA EndedSound ==
    ASSUME NEW x, NEW b, NEW p, NEW s, NEW f, Sound(x, b, p, s, f), Active(x),
           NEW a \in Answers, a.kind \notin {None, "refused"},
           a.kind = "result" => a.arts = p,
           x.at # "idle" => a.kind = "invalid"
    PROVE  Sound(Ended(Killed(x)), a, p, s, f)
<1> DEFINE y == Ended(Killed(x))
<1>1. x \in Exec /\ Fits(x)
  BY DEF Sound, Fits
<1>2. /\ y \in Exec /\ y.pc = "over" /\ y.lines = <<>>
      /\ ~y.negotiation /\ ~y.grace /\ ~y.accepted
      /\ y.at = x.at /\ y.art = x.art
      /\ y.child = IF x.child = "up" THEN "killed" ELSE x.child
  BY <1>1, EndedRecord
<1> HIDE DEF y
<1>3. y.child \in {"killed", "closed"}
  BY <1>1, <1>2 DEF Fits, Exec, Active, None
<1>4. Fits(y)
  BY <1>2, ConstantsAssumption DEF Fits
<1> QED
  BY <1>2, <1>3, <1>4 DEF Sound, y

-----------------------------------------------------------------------------
(* A step of one request *)

Busy(x) == Starting(x) \/ Active(x)

\* Request r stays sound, no other is touched, its answer and what is published
\* for it keep, and a waiter is woken or still has something to wait for.
Keeps(r) ==
    /\ Sound(ex'[r], answer'[r], published'[r], stored'[r], faulty'[r])
    /\ ex' = [ex EXCEPT ![r] = ex'[r]]
    /\ answer' = [answer EXCEPT ![r] = answer'[r]]
    /\ published' = [published EXCEPT ![r] = published'[r]]
    /\ stored' = [stored EXCEPT ![r] = stored'[r]]
    /\ faulty' = [faulty EXCEPT ![r] = faulty'[r]]
    /\ answer[r].kind # None => answer'[r] = answer[r]
    /\ answer[r].kind \notin {None, "invalid"} => published'[r] = published[r]
    /\ UNCHANGED shuttingDown
    /\ \/ wait' = wait /\ (Busy(ex[r]) => Busy(ex'[r]))
       \/ Wake(ex')

\* Steps that answer nothing: the execution becomes x.
LEMMA BecomesKeeps ==
    ASSUME Inv, NEW r \in Requests, NEW x, Becomes(r, x), UNCHANGED <<answer, wait, shuttingDown>>,
           x.pc = ex[r].pc \/ (ex[r].pc = "idle" /\ x.pc = "starting")
               \/ (ex[r].pc = "starting" /\ x.pc = "running"),
           NEW p, NEW s, NEW f,
           published' = [published EXCEPT ![r] = p],
           stored' = [stored EXCEPT ![r] = s],
           faulty' = [faulty EXCEPT ![r] = f],
           answer[r].kind \notin {None, "invalid"} => p = published[r],
           Sound(x, answer[r], p, s, f)
    PROVE  Keeps(r)
<1>1. /\ ex'[r] = x /\ answer'[r] = answer[r] /\ published'[r] = p /\ stored'[r] = s /\ faulty'[r] = f
      /\ ex' = [ex EXCEPT ![r] = x]
      /\ answer' = [answer EXCEPT ![r] = answer[r]]
  BY DEF Inv, Shapes, Becomes
<1>2. Busy(ex[r]) => Busy(ex'[r])
  BY <1>1 DEF Busy, Starting, Active
<1> QED
  BY <1>1, <1>2 DEF Keeps

\* finishExecution answers an active execution and does nothing to another.
LEMMA FinishKeeps ==
    ASSUME Inv, NEW r \in Requests, NEW x, NEW a \in Answers, Finish(r, x, a),
           UNCHANGED shuttingDown,
           x.pc = ex[r].pc,
           a.kind \notin {None, "refused"},
           a.kind = "result" => a.arts = published[r],
           x.at # "idle" => a.kind = "invalid",
           published' = published,
           NEW s, NEW f,
           stored' = [stored EXCEPT ![r] = s],
           faulty' = [faulty EXCEPT ![r] = f],
           Sound(x, answer[r], published[r], s, f)
    PROVE  Keeps(r)
<1>1. CASE ~Active(x)
  <2>1. Becomes(r, x) /\ UNCHANGED <<answer, wait>>
    BY <1>1 DEF Finish
  <2>2. published' = [published EXCEPT ![r] = published[r]]
    BY DEF Inv, Shapes
  <2> QED
    BY <2>1, <2>2, BecomesKeeps
<1>2. CASE Active(x)
  <2> DEFINE y == Ended(Killed(x))
  <2>1. Settle(r, y, a)
    BY <1>2 DEF Finish
  <2>2. Sound(y, a, published[r], s, f)
    BY <1>2, EndedSound
  <2> HIDE DEF y
  <2>3. /\ ex'[r] = y /\ answer'[r] = a /\ stored'[r] = s /\ faulty'[r] = f
        /\ ex' = [ex EXCEPT ![r] = y] /\ answer' = [answer EXCEPT ![r] = a]
        /\ published' = [published EXCEPT ![r] = published[r]]
        /\ Wake(ex')
    BY <2>1 DEF Settle, Becomes, Inv, Shapes
  <2>4. answer[r].kind = None
    BY <1>2 DEF Active, Inv, Requests_Sound, Sound
  <2> QED
    BY <2>2, <2>3, <2>4 DEF Keeps
<1> QED
  BY <1>1, <1>2

-----------------------------------------------------------------------------
(* The actions *)

LEMMA SoundNow ==
    ASSUME Inv, NEW r \in Requests
    PROVE  /\ Sound(ex[r], answer[r], published[r], stored[r], faulty[r])
           /\ ex[r] \in Exec /\ Fits(ex[r])
           /\ stored = [stored EXCEPT ![r] = stored[r]]
           /\ published = [published EXCEPT ![r] = published[r]]
           /\ faulty = [faulty EXCEPT ![r] = faulty[r]]
<1>1. Sound(ex[r], answer[r], published[r], stored[r], faulty[r])
  BY DEF Inv, Requests_Sound
<1>2. ex[r] \in Exec /\ Fits(ex[r])
  BY <1>1 DEF Sound, Fits
<1>3. stored = [stored EXCEPT ![r] = stored[r]]
  BY DEF Inv, Shapes
<1>4. published = [published EXCEPT ![r] = published[r]]
  BY DEF Inv, Shapes
<1>5. faulty = [faulty EXCEPT ![r] = faulty[r]]
  BY DEF Inv, Shapes
<1> QED
  BY <1>1, <1>2, <1>3, <1>4, <1>5

LEMMA LineKinds ==
    /\ \A k \in {"end", "invalid", "failed"} : Line(k) \in Answers /\ Line(k).kind = k
    /\ \A l \in Lines : l.kind = "result" => l \in Answers
    /\ \A l \in Lines : l.kind = "artifact" => l.arts \in {{a} : a \in Artifacts}
    /\ \A l \in Lines : l.kind = "end" => l \in Answers
    /\ Line(None) \in Answers
<1>1. \A k \in {"end", "invalid", "failed"} : Line(k) \in Answers /\ Line(k).kind = k
  BY DEF Line, Answers
<1>2. \A l \in Lines : l.kind = "result" => l \in Answers
  BY DEF Line, Lines, Answers
<1>3. \A l \in Lines : l.kind = "artifact" => l.arts \in {{a} : a \in Artifacts}
  BY DEF Line, Lines
<1>4. \A l \in Lines : l.kind = "end" => l \in Answers
  BY DEF Line, Lines, Answers
<1> QED
  BY <1>1, <1>2, <1>3, <1>4 DEF Line, Answers

\* An execution that fails for a cause other than a broken protocol has nothing
\* in work.
LEMMA FailKeeps ==
    ASSUME Inv, NEW r \in Requests, NEW x, NEW kind \in {"invalid", "failed"}, Fail(r, x, kind),
           UNCHANGED shuttingDown,
           x.pc = ex[r].pc,
           x.at # "idle" => kind = "invalid",
           published' = published,
           NEW s, NEW f,
           stored' = [stored EXCEPT ![r] = s],
           faulty' = [faulty EXCEPT ![r] = f],
           Sound(x, answer[r], published[r], s, f)
    PROVE  Keeps(r)
<1> DEFINE a == Line(kind)
<1>1. a \in Answers /\ a.kind = kind
  BY LineKinds
<1>2. Finish(r, x, a)
  BY DEF Fail
<1> HIDE DEF a
<1>3. a.kind \notin {None, "refused"} /\ a.kind # "result" /\ (x.at # "idle" => a.kind = "invalid")
  BY <1>1 DEF None
<1> QED
  BY <1>1, <1>2, <1>3, FinishKeeps

LEMMA ProcessLineKeeps ==
    ASSUME Inv, NEW r \in Requests, NEW x, NEW line \in Lines, ProcessLine(r, x, line),
           Active(x), ~Storing(x), x.pc = ex[r].pc,
           Sound(x, answer[r], published[r], stored[r], faulty[r])
    PROVE  Keeps(r)
<1> DEFINE b == answer[r]
           p == published[r]
           s == stored[r]
           f == faulty[r]
<1>1. /\ UNCHANGED <<published, stored, shuttingDown, faulty>>
      /\ stored' = [stored EXCEPT ![r] = s]
      /\ published' = [published EXCEPT ![r] = p]
      /\ faulty' = [faulty EXCEPT ![r] = f]
  BY SoundNow DEF ProcessLine
<1>2. x \in Exec /\ Fits(x) /\ x.at = "idle" /\ x.pc = "running"
  BY DEF Sound, Fits, Storing, Active
<1>3. ASSUME NEW y, Sound(y, b, p, s, f), y.pc = "running", Becomes(r, y), UNCHANGED <<answer, wait>>
      PROVE  Keeps(r)
  BY <1>1, <1>2, <1>3, BecomesKeeps
<1>4. CASE ~x.hello /\ line.kind = "hello"
  <2> DEFINE y == [x EXCEPT !.hello = TRUE, !.negotiation = FALSE]
  <2>1. Becomes(r, y) /\ UNCHANGED <<answer, wait>>
    BY <1>4 DEF ProcessLine
  <2>2. Sound(y, b, p, s, f) /\ y.pc = "running"
    BY <1>2 DEF Sound, Fits, Exec
  <2> QED
    BY <1>3, <2>1, <2>2
<1>5. CASE x.hello /\ line.kind = "accepted" /\ ~x.accepted
  <2> DEFINE y == [x EXCEPT !.accepted = TRUE]
  <2>1. Becomes(r, y) /\ UNCHANGED <<answer, wait>>
    BY <1>5 DEF ProcessLine
  <2>2. Sound(y, b, p, s, f) /\ y.pc = "running"
    BY <1>2, <1>5 DEF Sound, Fits, Exec
  <2> QED
    BY <1>3, <2>1, <2>2
<1>6. CASE /\ x.accepted /\ line.kind = "artifact" /\ ~x.cancelled
           /\ line.arts \cap published[r] = {}
  <2> DEFINE y == [x EXCEPT !.at = "stage", !.art = line.arts]
  <2>1. Becomes(r, y) /\ UNCHANGED <<answer, wait>>
    BY <1>6 DEF ProcessLine
  <2>2. line.arts \in {{a} : a \in Artifacts}
    BY <1>6, LineKinds
  <2>3. /\ y \in Exec
        /\ y.at = "stage" /\ y.art = line.arts /\ y.pc = "running"
        /\ y.lines = x.lines /\ y.child = x.child
    BY <1>2, <2>2 DEF Exec
  <2>4. /\ y.accepted = x.accepted /\ y.hello = x.hello /\ y.cancelled = x.cancelled
        /\ y.negotiation = x.negotiation /\ y.grace = x.grace
    BY <1>2 DEF Exec
  <2>5. b.kind = None
    BY <1>2 DEF Sound
  <2> HIDE DEF y
  <2>6. Fits(y)
    BY <1>2, <1>6, <2>3, <2>4 DEF Fits
  <2>7. Sound(y, b, p, s, f)
    BY <1>2, <1>6, <2>3, <2>5, <2>6 DEF Sound
  <2> QED
    BY <1>3, <2>1, <2>3, <2>7 DEF y
<1>7. CASE x.accepted /\ line.kind = "result" /\ line.arts = published[r]
  <2>1. Finish(r, x, line)
    BY <1>7 DEF ProcessLine
  <2>2. line \in Answers
    BY <1>7, LineKinds
  <2> QED
    BY <1>1, <1>2, <1>7, <2>1, <2>2, FinishKeeps DEF None
<1>8. CASE x.hello /\ line.kind = "end"
  <2>1. Finish(r, x, line)
    BY <1>8 DEF ProcessLine
  <2>2. line \in Answers
    BY <1>8, LineKinds
  <2> QED
    BY <1>1, <1>2, <1>8, <2>1, <2>2, FinishKeeps DEF None
<1>9. CASE Fail(r, x, "failed") \/ Fail(r, x, "invalid")
  BY <1>1, <1>2, <1>9, FailKeeps
<1> QED
  BY <1>4, <1>5, <1>6, <1>7, <1>8, <1>9 DEF ProcessLine

LEMMA StartKeeps ==
    ASSUME Inv, NEW r \in Requests, Execute(r) \/ NotLaunched(r) \/ Launch(r)
    PROVE  Keeps(r)
<1> DEFINE b == answer[r]
           p == published[r]
           s == stored[r]
           f == faulty[r]
           over == [NoExecution EXCEPT !.pc = "over"]
<1>1. /\ Sound(ex[r], b, p, s, f) /\ ex[r] \in Exec /\ Fits(ex[r])
      /\ stored = [stored EXCEPT ![r] = s]
      /\ published = [published EXCEPT ![r] = p]
      /\ faulty = [faulty EXCEPT ![r] = f]
  BY SoundNow
<1>2. NoExecution \in Exec /\ NoExecution.lines = <<>>
  BY DEF NoExecution, Exec, None
<1>3. /\ ~NoExecution.negotiation /\ ~NoExecution.grace /\ ~NoExecution.accepted
      /\ ~NoExecution.hello /\ NoExecution.at = "idle" /\ NoExecution.child = None
      /\ NoExecution.pc = "idle"
  BY DEF NoExecution
<1>4. CASE Settle(r, over, Line("refused")) /\ UNCHANGED <<published, stored, shuttingDown, faulty>>
           /\ ex[r].pc \in {"idle", "starting"}
  <2>1. Line("refused") \in Answers /\ Line("refused").kind = "refused"
    BY DEF Line, Answers
  <2>2. /\ over \in Exec /\ over.pc = "over" /\ over.at = "idle" /\ over.lines = <<>>
    BY <1>2, <1>3 DEF Exec
  <2>3. ~over.negotiation /\ ~over.grace /\ ~over.accepted
    BY <1>2, <1>3 DEF Exec
  <2>4. b.kind = None /\ ex[r].at = "idle"
    BY <1>1, <1>4 DEF Sound, Fits
  <2> DEFINE a == Line("refused")
  <2> HIDE DEF over, a
  <2>5. Fits(over)
    BY <2>2, <2>3, ConstantsAssumption DEF Fits
  <2>6. Sound(over, a, p, s, f)
    BY <1>1, <2>1, <2>2, <2>4, <2>5 DEF Sound, None, a
  <2>7. /\ ex'[r] = over /\ answer'[r] = a
        /\ ex' = [ex EXCEPT ![r] = over] /\ answer' = [answer EXCEPT ![r] = a]
        /\ Wake(ex')
    BY <1>4 DEF Settle, Becomes, Inv, Shapes, over, a
  <2> QED
    BY <1>1, <1>4, <2>4, <2>6, <2>7 DEF Keeps
<1>5. ASSUME NEW y, Becomes(r, y), UNCHANGED <<answer, published, stored, host, faulty>>,
             Sound(y, b, p, s, f),
             \/ ex[r].pc = "idle" /\ y.pc = "starting"
             \/ ex[r].pc = "starting" /\ y.pc = "running"
      PROVE  Keeps(r)
  BY <1>1, <1>5, BecomesKeeps DEF host
<1>6. CASE Execute(r) /\ ~shuttingDown
  <2> DEFINE y == [NoExecution EXCEPT !.pc = "starting"]
  <2>1. y \in Exec /\ y.pc = "starting" /\ y.at = "idle" /\ y.child = None /\ y.lines = <<>>
    BY <1>2, <1>3 DEF Exec
  <2>2. ~y.negotiation /\ ~y.grace /\ ~y.accepted
    BY <1>2, <1>3 DEF Exec
  <2>3. Becomes(r, y) /\ UNCHANGED <<answer, published, stored, host, faulty>> /\ ex[r].pc = "idle"
    BY <1>3, <1>6 DEF Execute, host
  <2>4. ex[r].at = "idle"
    BY <1>1, <2>3 DEF Fits
  <2> HIDE DEF y
  <2>5. Fits(y)
    BY <2>1, <2>2, ConstantsAssumption DEF Fits
  <2>6. Sound(y, b, p, s, f)
    BY <1>1, <2>1, <2>3, <2>4, <2>5 DEF Sound
  <2> QED
    BY <1>5, <2>1, <2>3, <2>6
<1>7. CASE Launch(r)
  <2> DEFINE y == [NoExecution EXCEPT !.pc = "running", !.child = "up", !.negotiation = TRUE]
  <2>1. y \in Exec /\ y.pc = "running" /\ y.at = "idle" /\ y.child = "up" /\ y.lines = <<>>
    BY <1>2, <1>3 DEF Exec
  <2>2. ~y.hello /\ ~y.grace /\ ~y.accepted
    BY <1>2, <1>3 DEF Exec
  <2>3. Becomes(r, y) /\ UNCHANGED <<answer, published, stored, host, faulty>> /\ ex[r].pc = "starting"
    BY <1>7 DEF Launch, Starting
  <2>4. ex[r].at = "idle"
    BY <1>1, <2>3 DEF Fits
  <2> HIDE DEF y
  <2>5. Fits(y)
    BY <2>1, <2>2, ConstantsAssumption DEF Fits, None
  <2>6. Sound(y, b, p, s, f)
    BY <1>1, <2>1, <2>3, <2>4, <2>5 DEF Sound
  <2> QED
    BY <1>5, <2>1, <2>3, <2>6
<1>8. CASE Execute(r) /\ shuttingDown
  BY <1>3, <1>4, <1>8 DEF Execute
<1>9. CASE NotLaunched(r)
  BY <1>4, <1>9 DEF NotLaunched, Starting
<1> QED
  BY <1>6, <1>7, <1>8, <1>9

\* A line that waits costs nothing; a longer or shorter queue fits.
LEMMA LinesSound ==
    ASSUME NEW x, NEW b, NEW p, NEW s, NEW f, Sound(x, b, p, s, f),
           NEW q \in Seq(Lines), Len(q) <= MaxQueued
    PROVE  /\ Sound([x EXCEPT !.lines = q], b, p, s, f)
           /\ [x EXCEPT !.lines = q].pc = x.pc /\ [x EXCEPT !.lines = q].at = x.at
<1> DEFINE y == [x EXCEPT !.lines = q]
<1>1. x \in Exec /\ Fits(x)
  BY DEF Sound, Fits
<1>2. /\ y \in Exec
      /\ y.pc = x.pc /\ y.at = x.at /\ y.child = x.child /\ y.art = x.art /\ y.lines = q
  BY <1>1 DEF Exec
<1>3. /\ y.accepted = x.accepted /\ y.hello = x.hello /\ y.cancelled = x.cancelled
      /\ y.negotiation = x.negotiation /\ y.grace = x.grace
  BY <1>1 DEF Exec
<1> HIDE DEF y
<1>4. Fits(y)
  BY <1>1, <1>2, <1>3 DEF Fits
<1>5. Sound(y, b, p, s, f)
  BY <1>2, <1>4 DEF Sound
<1> QED
  BY <1>2, <1>5 DEF y

LEMMA ReceiveKeeps ==
    ASSUME Inv, NEW r \in Requests, Receive(r) \/ ReceiveUnreadable(r) \/ Drain(r)
    PROVE  Keeps(r)
<1> DEFINE b == answer[r]
           p == published[r]
           s == stored[r]
           f == faulty[r]
<1>1. /\ Sound(ex[r], b, p, s, f) /\ ex[r] \in Exec /\ Fits(ex[r])
      /\ stored = [stored EXCEPT ![r] = s]
      /\ published = [published EXCEPT ![r] = p]
      /\ faulty = [faulty EXCEPT ![r] = f]
  BY SoundNow
<1>2. ex[r].lines \in Seq(Lines) /\ Len(ex[r].lines) <= MaxQueued
  BY <1>1 DEF Exec, Fits
<1>3. ASSUME NEW line \in Lines, Storing(ex[r]), Len(ex[r].lines) < MaxQueued,
             Becomes(r, [ex[r] EXCEPT !.lines = Append(@, Queued(line))]),
             UNCHANGED <<answer, published, stored, host, faulty>>
      PROVE  Keeps(r)
  <2> DEFINE q == Append(ex[r].lines, Queued(line))
             y == [ex[r] EXCEPT !.lines = q]
  <2>1. Queued(line) \in Lines
    BY DEF Queued, Lines
  <2>2. q \in Seq(Lines) /\ Len(q) <= MaxQueued
    BY <1>2, <1>3, <2>1, ConstantsAssumption
  <2> HIDE DEF q
  <2>3. Sound(y, b, p, s, f) /\ y.pc = ex[r].pc
    BY <1>1, <2>2, LinesSound
  <2>4. Becomes(r, y)
    BY <1>3 DEF q
  <2> HIDE DEF y
  <2> QED
    BY <1>1, <1>3, <2>3, <2>4, BecomesKeeps DEF host
<1>4. ASSUME NEW line \in Lines, Receive(r), ~Storing(ex[r]), ProcessLine(r, ex[r], line)
      PROVE  Keeps(r)
  BY <1>1, <1>4, ProcessLineKeeps DEF Receive
<1>5. CASE ReceiveUnreadable(r)
  BY <1>1, <1>5, FailKeeps DEF ReceiveUnreadable
<1>6. CASE Drain(r)
  <2> DEFINE q == Tail(ex[r].lines)
             y == [ex[r] EXCEPT !.lines = q]
             line == Head(ex[r].lines)
  <2>1. ex[r].lines # <<>> /\ Active(ex[r]) /\ ~Storing(ex[r])
    BY <1>6 DEF Drain, Draining
  <2>2. q \in Seq(Lines) /\ Len(q) <= MaxQueued /\ line \in Lines
    BY <1>2, <2>1, ConstantsAssumption
  <2>3. ProcessLine(r, y, line)
    BY <1>6 DEF Drain
  <2> HIDE DEF q, line
  <2>4. Sound(y, b, p, s, f) /\ y.pc = ex[r].pc /\ y.at = ex[r].at
    BY <1>1, <2>2, LinesSound
  <2> HIDE DEF y
  <2> QED
    BY <2>1, <2>2, <2>3, <2>4, ProcessLineKeeps DEF Active, Storing
<1> QED
  BY <1>3, <1>4, <1>5, <1>6 DEF Receive

\* Only what is in work of the execution changes.
LEMMA RestFits ==
    ASSUME NEW x, NEW b, NEW p, NEW s, NEW f, Sound(x, b, p, s, f), Storing(x),
           NEW y, y = [x EXCEPT !.at = "idle", !.art = {}]
    PROVE  /\ y \in Exec /\ Fits(y) /\ y.pc = x.pc /\ y.at = "idle" /\ y.art = {} /\ y.child = x.child
<1>1. x \in Exec /\ Fits(x)
  BY DEF Sound, Fits
<1>2. /\ y \in Exec
      /\ y.pc = x.pc /\ y.at = "idle" /\ y.art = {} /\ y.child = x.child /\ y.lines = x.lines
  BY <1>1 DEF Exec
<1>3. /\ y.accepted = x.accepted /\ y.hello = x.hello /\ y.cancelled = x.cancelled
      /\ y.negotiation = x.negotiation /\ y.grace = x.grace
  BY <1>1 DEF Exec
<1>4. Fits(y)
  BY <1>1, <1>2, <1>3 DEF Fits
<1> QED
  BY <1>2, <1>4

LEMMA StageFits ==
    ASSUME NEW x, NEW b, NEW p, NEW s, NEW f, Sound(x, b, p, s, f), Storing(x),
           NEW at \in {"stage", "rename", "rollback", "verify"},
           NEW y, y = [x EXCEPT !.at = at]
    PROVE  /\ y \in Exec /\ Fits(y) /\ y.pc = x.pc /\ y.at = at /\ y.art = x.art /\ y.child = x.child
<1>1. x \in Exec /\ Fits(x)
  BY DEF Sound, Fits
<1>2. /\ y \in Exec
      /\ y.pc = x.pc /\ y.at = at /\ y.art = x.art /\ y.child = x.child /\ y.lines = x.lines
  BY <1>1 DEF Exec
<1>3. /\ y.accepted = x.accepted /\ y.hello = x.hello /\ y.cancelled = x.cancelled
      /\ y.negotiation = x.negotiation /\ y.grace = x.grace
  BY <1>1 DEF Exec
<1>4. Fits(y)
  BY <1>1, <1>2, <1>3 DEF Fits, Storing
<1> QED
  BY <1>2, <1>4

LEMMA StorageKeeps ==
    ASSUME Inv, NEW r \in Requests, Storage(r) \/ StorageFails(r)
    PROVE  Keeps(r)
<1> DEFINE x == ex[r]
           b == answer[r]
           p == published[r]
           s == stored[r]
           f == faulty[r]
           rest == Rest(r)
<1>1. /\ Sound(x, b, p, s, f) /\ x \in Exec /\ Fits(x)
      /\ stored = [stored EXCEPT ![r] = s]
      /\ published = [published EXCEPT ![r] = p]
      /\ faulty = [faulty EXCEPT ![r] = f]
  BY SoundNow
<1>2. Storing(x)
  BY DEF Storage, StageDone, RenameDone, RollbackDone, VerifyDone, StorageFails, Storing
<1>3. /\ rest \in Exec /\ Fits(rest) /\ rest.pc = x.pc /\ rest.at = "idle"
      /\ rest.art = {} /\ rest.child = x.child
  BY <1>1, <1>2, RestFits DEF Rest
<1>4. x.art \subseteq Artifacts /\ x.art \cap p = {}
  BY <1>1, <1>2 DEF Sound, Exec, Storing
<1> HIDE DEF rest
<1>5. ASSUME NEW t \in SUBSET Artifacts, NEW g \in BOOLEAN,
             stored' = [stored EXCEPT ![r] = t], faulty' = [faulty EXCEPT ![r] = g],
             published' = published, UNCHANGED shuttingDown,
             p \subseteq t, ~g => t \subseteq p,
             Fail(r, rest, "failed") \/ Fail(r, rest, "invalid")
      PROVE  Keeps(r)
  <2>1. Sound(rest, b, p, t, g)
    BY <1>1, <1>3, <1>5 DEF Sound
  <2> QED
    BY <1>3, <1>5, <2>1, FailKeeps
<1>6. ASSUME NEW at \in {"rename", "rollback", "verify"}, Goes(r, at), NEW t \in SUBSET Artifacts,
             stored' = [stored EXCEPT ![r] = t], UNCHANGED <<published, shuttingDown, faulty>>,
             p \subseteq t, at = "verify" => x.art \subseteq t,
             ~f => t \subseteq p \cup (IF at \in {"rollback", "verify"} THEN x.art ELSE {})
      PROVE  Keeps(r)
  <2> DEFINE y == [x EXCEPT !.at = at]
  <2>1. y \in Exec /\ Fits(y) /\ y.pc = x.pc /\ y.at = at /\ y.art = x.art /\ y.child = x.child
    BY <1>1, <1>2, StageFits
  <2>2. Becomes(r, y) /\ UNCHANGED <<answer, wait>>
    BY <1>6 DEF Goes
  <2> HIDE DEF y
  <2>3. Sound(y, b, p, t, f)
    BY <1>1, <1>2, <1>4, <1>6, <2>1 DEF Sound, Storing
  <2> QED
    BY <1>1, <1>6, <2>1, <2>2, <2>3, BecomesKeeps
<1>7. CASE StageDone(r)
  <2>1. CASE x.cancelled
    BY <1>1, <1>5, <1>7, <2>1 DEF StageDone, Sound, rest
  <2>2. CASE ~x.cancelled
    BY <1>1, <1>6, <1>7, <2>2 DEF StageDone, Sound
  <2> QED
    BY <2>1, <2>2
<1>8. CASE RenameDone(r)
  <2> DEFINE t == s \cup x.art
  <2>1. /\ t \in SUBSET Artifacts /\ p \subseteq t /\ x.art \subseteq t
        /\ ~f => t \subseteq p \cup x.art
    BY <1>1, <1>4, <1>8 DEF Sound, RenameDone
  <2>2. stored' = [stored EXCEPT ![r] = t]
    BY <1>8 DEF RenameDone
  <2> HIDE DEF t
  <2> QED
    BY <1>6, <1>8, <2>1, <2>2 DEF RenameDone
<1>9. CASE RollbackDone(r)
  <2> DEFINE t == s \ x.art
  <2>1. t \in SUBSET Artifacts /\ p \subseteq t /\ (~f => t \subseteq p)
    BY <1>1, <1>4, <1>9 DEF Sound, RollbackDone
  <2>2. stored' = [stored EXCEPT ![r] = t] /\ f \in BOOLEAN /\ Fail(r, rest, "failed")
    BY <1>1, <1>9 DEF RollbackDone, Sound, rest
  <2> HIDE DEF t
  <2> QED
    BY <1>1, <1>5, <1>9, <2>1, <2>2 DEF RollbackDone
<1>10. CASE StorageFails(r)
  <2> DEFINE g == f \/ x.at \in {"rollback", "verify"}
  <2>1. g \in BOOLEAN /\ p \subseteq s /\ s \in SUBSET Artifacts /\ (~g => s \subseteq p)
    BY <1>1 DEF Sound
  <2>2. faulty' = [faulty EXCEPT ![r] = g]
    BY <1>10 DEF StorageFails
  <2>3. Fail(r, rest, "failed") \/ Fail(r, rest, "invalid")
    BY <1>10 DEF StorageFails, rest
  <2> HIDE DEF g
  <2> QED
    BY <1>1, <1>5, <1>10, <2>1, <2>2, <2>3 DEF StorageFails
<1>11. CASE VerifyDone(r)
  <2> DEFINE q == p \cup x.art
  <2>1. /\ q \in SUBSET Artifacts /\ q \subseteq s /\ (~f => s \subseteq q)
        /\ b.kind \in {None, "invalid"}
    BY <1>1, <1>2, <1>4, <1>11 DEF Sound, VerifyDone, Storing
  <2>2. published' = [published EXCEPT ![r] = q] /\ Becomes(r, rest)
    BY <1>11 DEF VerifyDone, rest
  <2> HIDE DEF q
  <2>3. Sound(rest, b, q, s, f)
    BY <1>1, <1>3, <2>1 DEF Sound, None
  <2> QED
    BY <1>1, <1>3, <1>11, <2>1, <2>2, <2>3, BecomesKeeps DEF VerifyDone, host
<1> QED
  BY <1>7, <1>8, <1>9, <1>10, <1>11 DEF Storage

LEMMA CancelledSound ==
    ASSUME NEW x, NEW b, NEW p, NEW s, NEW f, Sound(x, b, p, s, f)
    PROVE  Sound(Cancelled(x), b, p, s, f) /\ Cancelled(x).pc = x.pc
<1> DEFINE g == x.grace \/ ~x.cancelled
           y == [x EXCEPT !.cancelled = TRUE, !.grace = g]
<1>1. CASE Active(x)
  <2>1. Cancelled(x) = y
    BY <1>1 DEF Cancelled
  <2>2. x \in Exec /\ Fits(x) /\ x.pc = "running"
    BY <1>1 DEF Sound, Fits, Active
  <2>3. g \in BOOLEAN
    BY <2>2 DEF Exec
  <2> HIDE DEF g
  <2>4. /\ y \in Exec
        /\ y.pc = x.pc /\ y.at = x.at /\ y.art = x.art /\ y.child = x.child /\ y.lines = x.lines
    BY <2>2, <2>3 DEF Exec
  <2>5. /\ y.accepted = x.accepted /\ y.hello = x.hello /\ y.cancelled
        /\ y.negotiation = x.negotiation
    BY <2>2, <2>3 DEF Exec
  <2> HIDE DEF y
  <2>6. Fits(y)
    BY <2>2, <2>4, <2>5 DEF Fits
  <2> QED
    BY <2>1, <2>4, <2>6 DEF Sound
<1>2. CASE ~Active(x)
  BY <1>2 DEF Cancelled
<1> QED
  BY <1>1, <1>2

LEMMA EventKeeps ==
    ASSUME Inv, NEW r \in Requests,
           \/ NegotiationTimer(r) \/ CancellationTimer(r) \/ LaunchError(r)
           \/ Close(r) \/ Crashed(r) \/ Cancel(r)
    PROVE  Keeps(r)
<1> DEFINE x == ex[r]
           b == answer[r]
           p == published[r]
           s == stored[r]
           f == faulty[r]
<1>1. /\ Sound(x, b, p, s, f) /\ x \in Exec /\ Fits(x)
      /\ stored = [stored EXCEPT ![r] = s]
      /\ published = [published EXCEPT ![r] = p]
      /\ faulty = [faulty EXCEPT ![r] = f]
  BY SoundNow
<1>2. ASSUME NEW y, Becomes(r, y), UNCHANGED <<answer, published, stored, host, faulty>>,
             Sound(y, b, p, s, f), y.pc = x.pc
      PROVE  Keeps(r)
  BY <1>1, <1>2, BecomesKeeps DEF host
<1>3. CASE NegotiationTimer(r)
  <2> DEFINE y == [x EXCEPT !.negotiation = FALSE]
  <2>1. x.at = "idle" /\ x.pc = "running"
    BY <1>1, <1>3 DEF Fits, NegotiationTimer
  <2>2. /\ y \in Exec
        /\ y.pc = x.pc /\ y.at = x.at /\ y.art = x.art /\ y.child = x.child /\ y.lines = x.lines
    BY <1>1 DEF Exec
  <2>3. /\ y.accepted = x.accepted /\ y.hello = x.hello /\ y.cancelled = x.cancelled
        /\ ~y.negotiation /\ y.grace = x.grace
    BY <1>1 DEF Exec
  <2>4. Fail(r, y, "failed") /\ UNCHANGED <<published, stored, shuttingDown, faulty>>
    BY <1>3 DEF NegotiationTimer
  <2> HIDE DEF y
  <2>5. Fits(y)
    BY <1>1, <2>2, <2>3 DEF Fits
  <2>6. Sound(y, b, p, s, f)
    BY <1>1, <2>2, <2>5 DEF Sound
  <2> QED
    BY <1>1, <2>1, <2>2, <2>4, <2>6, FailKeeps
<1>4. CASE CancellationTimer(r)
  <2> DEFINE k == Killed(x)
             y == [k EXCEPT !.grace = FALSE]
  <2>1. x.pc = "running"
    BY <1>1, <1>4 DEF Fits, CancellationTimer
  <2>2. /\ k \in Exec
        /\ k.pc = x.pc /\ k.at = x.at /\ k.art = x.art /\ k.lines = x.lines
        /\ k.child = IF x.child = "up" THEN "killed" ELSE x.child
    BY <1>1 DEF Exec, Killed
  <2>3. /\ k.accepted = x.accepted /\ k.hello = x.hello /\ k.cancelled = x.cancelled
        /\ k.negotiation = x.negotiation
    BY <1>1 DEF Exec, Killed
  <2> HIDE DEF k
  <2>4. /\ y \in Exec
        /\ y.pc = k.pc /\ y.at = k.at /\ y.art = k.art /\ y.child = k.child /\ y.lines = k.lines
    BY <2>2 DEF Exec
  <2>5. /\ y.accepted = k.accepted /\ y.hello = k.hello /\ y.cancelled = k.cancelled
        /\ y.negotiation = k.negotiation /\ ~y.grace
    BY <2>2 DEF Exec
  <2>6. Becomes(r, y) /\ UNCHANGED <<answer, published, stored, host, faulty>>
    BY <1>4 DEF CancellationTimer, k
  <2> HIDE DEF y
  <2>7. Fits(y)
    BY <1>1, <2>1, <2>2, <2>3, <2>4, <2>5 DEF Fits, None
  <2>8. Sound(y, b, p, s, f)
    BY <1>1, <2>1, <2>2, <2>4, <2>7 DEF Sound
  <2> QED
    BY <1>2, <2>2, <2>4, <2>6, <2>8
<1>5. CASE LaunchError(r)
  <2>1. x.at = "idle"
    BY <1>1, <1>5 DEF Fits, LaunchError, Active
  <2> QED
    BY <1>1, <1>5, <2>1, FailKeeps DEF LaunchError
<1>6. CASE Close(r)
  <2> DEFINE y == [x EXCEPT !.child = "closed"]
  <2>1. x.child # None
    BY <1>6 DEF Close, Open, None
  <2>2. /\ y \in Exec
        /\ y.pc = x.pc /\ y.at = x.at /\ y.art = x.art /\ y.child = "closed" /\ y.lines = x.lines
    BY <1>1 DEF Exec
  <2>3. /\ y.accepted = x.accepted /\ y.hello = x.hello /\ y.cancelled = x.cancelled
        /\ y.negotiation = x.negotiation /\ y.grace = x.grace
    BY <1>1 DEF Exec
  <2>4. Becomes(r, y) /\ UNCHANGED <<answer, published, stored, host, faulty>>
    BY <1>6 DEF Close
  <2> HIDE DEF y
  <2>5. Fits(y)
    BY <1>1, <2>1, <2>2, <2>3 DEF Fits, None
  <2>6. Sound(y, b, p, s, f)
    BY <1>1, <2>2, <2>5 DEF Sound
  <2> QED
    BY <1>2, <2>2, <2>4, <2>6
<1>7. CASE Crashed(r)
  <2>1. x.at = "idle"
    BY <1>7 DEF Crashed, Draining, Storing
  <2> QED
    BY <1>1, <1>7, <2>1, FailKeeps DEF Crashed
<1>8. CASE Cancel(r)
  <2> DEFINE y == Cancelled(x)
  <2>1. Becomes(r, y) /\ UNCHANGED <<answer, published, stored, host, faulty>>
    BY <1>8 DEF Cancel
  <2>2. Sound(y, b, p, s, f) /\ y.pc = x.pc
    BY <1>1, CancelledSound
  <2> HIDE DEF y
  <2> QED
    BY <1>2, <2>1, <2>2
<1> QED
  BY <1>3, <1>4, <1>5, <1>6, <1>7, <1>8

-----------------------------------------------------------------------------
(* Every step *)

\* The parts of the two action properties.
AnswerKept ==
    \A r \in Requests :
        /\ answer[r].kind # None => answer'[r] = answer[r]
        /\ answer'[r].kind \notin {None, "refused"} => ex'[r].child \in {"killed", "closed"}
        /\ answer[r].kind \notin {None, "invalid"} => published'[r] = published[r]
WaitKept ==
    /\ wait' = "done" /\ wait # "done" => \A r \in Requests : ex'[r].pc \in {"idle", "over"}
    /\ wait' = "waiting" => ~Idle(ex')

LEMMA KeepsInv ==
    ASSUME Inv, NEW r \in Requests, Keeps(r)
    PROVE  Inv' /\ AnswerKept /\ WaitKept
<1>1. /\ \A q \in Requests \ {r} :
            /\ ex'[q] = ex[q] /\ answer'[q] = answer[q] /\ published'[q] = published[q]
            /\ stored'[q] = stored[q] /\ faulty'[q] = faulty[q]
      /\ Shapes'
  BY DEF Keeps, Inv, Shapes
<1>2. ASSUME NEW q \in Requests
      PROVE  Sound(ex[q], answer[q], published[q], stored[q], faulty[q])'
  BY <1>1 DEF Keeps, Inv, Requests_Sound
<1>3. Requests_Sound'
  BY <1>2 DEF Requests_Sound
<1>4. AnswerKept
  <2>1. ASSUME NEW q \in Requests, answer'[q].kind \notin {None, "refused"}
        PROVE  ex'[q].child \in {"killed", "closed"}
    BY <1>2, <2>1 DEF Sound
  <2> QED
    BY <1>1, <2>1 DEF AnswerKept, Keeps
<1>5. \A q \in Requests : ex'[q].pc \in {"idle", "starting", "running", "over"}
  BY <1>2 DEF Sound, Fits, Exec
<1>6. CASE wait' = wait /\ (Busy(ex[r]) => Busy(ex'[r]))
  <2>1. Idle(ex') => Idle(ex)
    BY <1>1, <1>6 DEF Idle, Busy
  <2> QED
    BY <1>1, <1>3, <1>4, <1>6, <2>1 DEF Inv, Waits, WaitKept, Keeps
<1>7. CASE Wake(ex')
  <2>1. wait' = "done" /\ wait # "done" => Idle(ex')
    BY <1>7 DEF Wake, Inv, Waits, None
  <2>2. wait' = "waiting" => ~Idle(ex')
    BY <1>7 DEF Wake
  <2>3. WaitKept
    BY <1>5, <2>1, <2>2 DEF WaitKept, Idle, Active, Starting
  <2>4. Waits'
    BY <1>7, <2>2 DEF Waits, Wake, Keeps, Inv, None
  <2> QED
    BY <1>1, <1>3, <1>4, <2>3, <2>4 DEF Inv
<1> QED
  BY <1>6, <1>7 DEF Keeps

\* A shutdown and a removal cancel whatever is active, and wait unless all is idle.
LEMMA CancelAllInv ==
    ASSUME Inv, Shutdown \/ Uninstall
    PROVE  Inv' /\ AnswerKept /\ WaitKept
<1>1. /\ CancelAllAndWait
      /\ UNCHANGED <<answer, published, stored, faulty>>
      /\ shuttingDown' \in BOOLEAN
  BY DEF Shutdown, Uninstall, Inv, Waits
<1>2. ASSUME NEW r \in Requests
      PROVE  /\ ex'[r] = Cancelled(ex[r]) /\ ex'[r].pc = ex[r].pc
             /\ Sound(ex[r], answer[r], published[r], stored[r], faulty[r])'
  <2>1. Sound(ex[r], answer[r], published[r], stored[r], faulty[r])
    BY SoundNow
  <2>2. ex'[r] = Cancelled(ex[r])
    BY <1>1 DEF CancelAllAndWait
  <2> QED
    BY <1>1, <2>1, <2>2, CancelledSound
<1>3. Shapes'
  BY <1>1 DEF CancelAllAndWait, Inv, Shapes
<1>4. Requests_Sound'
  BY <1>2 DEF Requests_Sound
<1>5. Idle(ex') <=> Idle(ex)
  BY <1>2 DEF Idle, Active, Starting
<1>6. Waits'
  BY <1>1, <1>5 DEF Waits, CancelAllAndWait, None
<1>7. \A r \in Requests : ex'[r].pc \in {"idle", "starting", "running", "over"}
  BY <1>2 DEF Sound, Fits, Exec
<1>8. WaitKept
  BY <1>1, <1>5, <1>7 DEF WaitKept, CancelAllAndWait, Idle, Active, Starting
<1>9. AnswerKept
  <2>1. ASSUME NEW q \in Requests, answer'[q].kind \notin {None, "refused"}
        PROVE  ex'[q].child \in {"killed", "closed"}
    BY <1>2, <2>1 DEF Sound
  <2> QED
    BY <1>1, <2>1 DEF AnswerKept
<1> QED
  BY <1>3, <1>4, <1>6, <1>8, <1>9 DEF Inv

LEMMA StepInv ==
    ASSUME Inv, [Next]_vars
    PROVE  Inv' /\ AnswerKept /\ WaitKept
<1>1. ASSUME NEW r \in Requests,
             \/ Execute(r) \/ NotLaunched(r) \/ Launch(r)
             \/ Receive(r) \/ ReceiveUnreadable(r) \/ Drain(r)
             \/ Storage(r) \/ StorageFails(r)
             \/ NegotiationTimer(r) \/ CancellationTimer(r)
             \/ LaunchError(r) \/ Close(r) \/ Crashed(r) \/ Cancel(r)
      PROVE  Keeps(r)
  BY <1>1, StartKeeps, ReceiveKeeps, StorageKeeps, EventKeeps
<1>2. CASE Shutdown \/ Uninstall
  BY <1>2, CancelAllInv
<1>3. CASE UNCHANGED vars
  <2>1. ex' = ex /\ answer' = answer /\ published' = published /\ stored' = stored
        /\ faulty' = faulty /\ wait' = wait /\ shuttingDown' = shuttingDown
    BY <1>3 DEF vars
  <2>2. Inv'
    BY <2>1 DEF Inv, Shapes, Requests_Sound, Waits
  <2>3. AnswerKept
    BY <2>1 DEF AnswerKept, Inv, Requests_Sound, Sound
  <2>4. WaitKept
    BY <2>1 DEF WaitKept, Inv, Waits
  <2> QED
    BY <2>2, <2>3, <2>4
<1> QED
  BY <1>1, <1>2, <1>3, KeepsInv DEF Next

LEMMA InvArtifactsAgree == Inv => ArtifactsAgree
<1> SUFFICES ASSUME Inv PROVE ArtifactsAgree
  OBVIOUS
<1>1. ASSUME NEW r \in Requests
      PROVE  /\ ex[r] \in Exec
             /\ Len(ex[r].lines) <= MaxQueued
             /\ ex[r].negotiation => ex[r].pc = "running" /\ ~ex[r].hello
             /\ ex[r].grace => ex[r].pc = "running" /\ ex[r].cancelled
  BY SoundNow DEF Fits
<1>2. ASSUME NEW r \in Requests
      PROVE  /\ answer[r] \in Answers /\ published[r] \in SUBSET Artifacts
             /\ stored[r] \in SUBSET Artifacts /\ faulty[r] \in BOOLEAN
             /\ answer[r].kind = "result" => answer[r].arts = published[r]
             /\ published[r] \subseteq stored[r]
             /\ ~Storing(ex[r]) /\ ~faulty[r] => stored[r] \subseteq published[r]
  BY SoundNow DEF Sound, Storing
<1>3. ex \in [Requests -> Exec]
  BY <1>1 DEF Inv, Shapes
<1>4. /\ answer \in [Requests -> Answers]
      /\ published \in [Requests -> SUBSET Artifacts]
      /\ stored \in [Requests -> SUBSET Artifacts]
      /\ faulty \in [Requests -> BOOLEAN]
  BY <1>2 DEF Inv, Shapes
<1>5. TypeOK
  BY <1>1, <1>3, <1>4 DEF TypeOK, Exec, Inv, Waits
<1> QED
  BY <1>2, <1>5 DEF ArtifactsAgree

\* A result lists what was announced, and that is in the published directory
\* (processLine, publishResearchArtifactAtomically).
THEOREM ResultsAgree == Spec => []ArtifactsAgree
<1>1. Inv /\ [Next]_vars => Inv'
  BY StepInv
<1> QED
  BY <1>1, InitInv, InvArtifactsAgree, PTL DEF Spec

\* An answer never changes, leaves no child alone and nothing is announced after
\* it, whoever wins the race for finishExecution().
THEOREM AnswersFinal == Spec => AnswerIsFinal
<1>1. Inv /\ [Next]_vars => Inv'
  BY StepInv
<1>2. Inv /\ [Next]_vars => [AnswerKept]_<<answer, published, ex>>
  BY StepInv
<1> QED
  BY <1>1, <1>2, InitInv, PTL DEF Spec, AnswerIsFinal, AnswerKept

\* waitForIdle() returns only when nothing starts or runs, and as soon as that is so.
THEOREM RemovalsWait == Spec => RemovalWaits
<1>1. Inv /\ [Next]_vars => Inv'
  BY StepInv
<1>2. Inv /\ [Next]_vars => [WaitKept]_<<wait, ex>>
  BY StepInv
<1> QED
  BY <1>1, <1>2, InitInv, PTL DEF Spec, RemovalWaits, WaitKept
=============================================================================
