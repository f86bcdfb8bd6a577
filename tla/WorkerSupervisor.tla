-------------------------- MODULE WorkerSupervisor --------------------------
(***************************************************************************)
(* The supervisor of research workers (research-worker-supervisor.ts): it  *)
(* launches a signed child process for each request, talks to it in lines  *)
(* of JSON, publishes the artifacts the child has staged, and answers the  *)
(* request exactly once.  The child is not trusted: it may send any line   *)
(* at any time, say nothing, or die.  Shutdown of the host and the removal *)
(* of the package (research-worker-package-lifecycle.ts) cancel what is    *)
(* active and wait until nothing is.                                       *)
(*                                                                         *)
(* The lines of a child are handled one after the other; only the storage  *)
(* of an artifact waits for the file system.  Lines that arrive meanwhile  *)
(* queue, and are handled in one row (Drain) before any other event.       *)
(***************************************************************************)
EXTENDS Integers, Sequences

CONSTANTS
    Requests,     \* every request is executed once: its id is a fresh UUID
    Artifacts,
    MaxQueued     \* bound: lines that wait behind the storage of an artifact

ASSUME ConstantsAssumption ==
    /\ Requests # {}
    /\ MaxQueued \in Nat

VARIABLES
    ex,           \* ex[r]: the execution of the request
    answer,       \* answer[r]: what execute() returned
    published,    \* publishedArtifacts: announced to the child and the caller
    stored,       \* artifacts in the published directory of the exchange root
    shuttingDown,
    wait,         \* the shutdown or the removal: in waitForIdle(), or past it
    faulty        \* history: the file system failed with a file in place

vars == <<ex, answer, published, stored, shuttingDown, wait, faulty>>
host == <<shuttingDown, wait>>

None == "none"
\* Progress changes no state and is left out.  "end": the child says that the request was cancelled or has failed; "bad": a
\* line that is refused when its turn comes (not JSON, another sequence number).
Line(kind) == [kind |-> kind, arts |-> {}]
Lines ==
    {Line(k) : k \in {"hello", "accepted", "end", "bad"}}
        \cup [kind : {"result"}, arts : SUBSET Artifacts]
        \cup [kind : {"artifact"}, arts : {{a} : a \in Artifacts}]

NoExecution ==
    [pc |-> "idle", hello |-> FALSE, accepted |-> FALSE,
     cancelled |-> FALSE, child |-> None, negotiation |-> FALSE, grace |-> FALSE,
     at |-> "idle", art |-> {}, lines |-> <<>>]

\* "refused": execute() throws, or answers before it launched anything; "invalid":
\* the child broke the protocol; "failed": the host's other errors.
Answers ==
    {[kind |-> k, arts |-> {}] :
        k \in {None, "refused", "end", "invalid", "failed"}}
        \cup [kind : {"result"}, arts : SUBSET Artifacts]

\* child: childClosed and killRequested; at: the file operation of the artifact art
\* that is awaited; grace: the timer that the first cancellation starts.  Timers
\* are armed only while the execution is active.
TypeOK ==
    /\ ex \in [Requests -> [
            pc : {"idle", "starting", "running", "over"},
            hello : BOOLEAN, accepted : BOOLEAN, cancelled : BOOLEAN,
            child : {None, "up", "killed", "closed"},
            negotiation : BOOLEAN, grace : BOOLEAN,
            at : {"idle", "stage", "rename", "rollback", "verify"},
            art : {{}} \cup {{a} : a \in Artifacts},
            lines : Seq(Lines)]]
    /\ \A r \in Requests :
          /\ Len(ex[r].lines) <= MaxQueued
          /\ ex[r].negotiation => ex[r].pc = "running" /\ ~ex[r].hello
          /\ ex[r].grace => ex[r].pc = "running" /\ ex[r].cancelled
    /\ answer \in [Requests -> Answers]
    /\ published \in [Requests -> SUBSET Artifacts]
    /\ stored \in [Requests -> SUBSET Artifacts]
    /\ wait \in {None, "waiting", "done"}
    /\ shuttingDown \in BOOLEAN
    /\ faulty \in [Requests -> BOOLEAN]

Init ==
    /\ ex = [r \in Requests |-> NoExecution]
    /\ answer = [r \in Requests |-> Line(None)]
    /\ published = [r \in Requests |-> {}] /\ stored = [r \in Requests |-> {}]
    /\ shuttingDown = FALSE /\ wait = None
    /\ faulty = [r \in Requests |-> FALSE]

-----------------------------------------------------------------------------
(* Conditions *)

Starting(x) == x.pc = "starting"
Active(x) == x.pc = "running"
Open(x) == x.child \in {"up", "killed"}
Storing(x) == x.at # "idle"

\* The row of queued lines, and at its end the close of the child.
Draining(r) == Active(ex[r]) /\ ~Storing(ex[r]) /\ (ex[r].lines # <<>> \/ ex[r].child = "closed")
\* An event is served: no row is under way.
Settled == \A r \in Requests : ~Draining(r)

(* Parts of the handlers *)

\* resolveIdleWaiters, with the executions as they are now
Idle(now) == \A q \in Requests : ~Active(now[q]) /\ ~Starting(now[q])

Wake(now) ==
    wait' = IF wait = "waiting" /\ Idle(now) THEN "done" ELSE wait

Becomes(r, x) == ex' = [ex EXCEPT ![r] = x]

\* The promise of execute() settles; waiters are woken.
Settle(r, x, a) ==
    /\ Becomes(r, x)
    /\ answer' = [answer EXCEPT ![r] = a]
    /\ Wake([ex EXCEPT ![r] = x])

Killed(x) == [x EXCEPT !.child = IF @ = "up" THEN "killed" ELSE @]
\* What is kept of an execution that is over: nothing reads the rest.
Ended(x) ==
    [NoExecution EXCEPT !.pc = "over", !.child = x.child,
                        !.cancelled = x.cancelled /\ Storing(x), !.at = x.at, !.art = x.art]

\* finishExecution, in an execution whose record is x by now
Finish(r, x, a) ==
    IF Active(x) THEN Settle(r, Ended(Killed(x)), a)
    ELSE Becomes(r, x) /\ UNCHANGED <<answer, wait>>

Fail(r, x, kind) == Finish(r, x, Line(kind))

\* What cancel() does to an active execution.
Cancelled_NoTimer(x) ==
    IF Active(x) THEN [x EXCEPT !.cancelled = TRUE] ELSE x
Cancelled(x) ==
    IF Active(x)
    THEN [x EXCEPT !.cancelled = TRUE, !.grace = @ \/ ~x.cancelled]
    ELSE x

-----------------------------------------------------------------------------
(* execute *)

Execute(r) ==
    /\ Settled /\ ex[r] = NoExecution
    /\ IF shuttingDown
       THEN /\ Settle(r, [NoExecution EXCEPT !.pc = "over"], Line("refused"))
       ELSE /\ Becomes(r, [NoExecution EXCEPT !.pc = "starting"])
            /\ UNCHANGED <<answer, wait>>
    /\ UNCHANGED <<published, stored, shuttingDown, faulty>>

\* The inputs are wrong, the package is absent or unfit, or spawn() throws.
NotLaunched_WaitersSleep(r) ==
    /\ Settled /\ Starting(ex[r])
    /\ answer' = [answer EXCEPT ![r] = Line("refused")]
    /\ Becomes(r, [NoExecution EXCEPT !.pc = "over"])
    /\ UNCHANGED <<published, stored, host, faulty>>
NotLaunched(r) ==
    /\ Settled /\ Starting(ex[r])
    /\ Settle(r, [NoExecution EXCEPT !.pc = "over"], Line("refused"))
    /\ UNCHANGED <<published, stored, shuttingDown, faulty>>

\* launch: neither a shutdown nor a cancellation that came meanwhile is looked at.
Launch(r) ==
    /\ Settled /\ Starting(ex[r])
    /\ Becomes(r, [NoExecution EXCEPT !.pc = "running", !.child = "up", !.negotiation = TRUE])
    /\ UNCHANGED <<answer, published, stored, host, faulty>>

-----------------------------------------------------------------------------
(* The lines of the child *)

\* processLine; x is the execution without the line

ProcessLine(r, x, line) ==
    /\ CASE ~x.hello /\ line.kind = "hello" ->
              /\ Becomes(r, [x EXCEPT !.hello = TRUE, !.negotiation = FALSE])
              /\ UNCHANGED <<answer, wait>>
         [] x.hello /\ line.kind = "accepted" /\ ~x.accepted ->
              /\ Becomes(r, [x EXCEPT !.accepted = TRUE])
              /\ UNCHANGED <<answer, wait>>
         [] x.accepted /\ line.kind = "artifact" /\ x.cancelled -> Fail(r, x, "failed")
         [] /\ x.accepted /\ line.kind = "artifact" /\ ~x.cancelled
            /\ line.arts \cap published[r] = {} ->
              /\ Becomes(r, [x EXCEPT !.at = "stage", !.art = line.arts])
              /\ UNCHANGED <<answer, wait>>
         [] x.accepted /\ line.kind = "result" /\ line.arts = published[r] ->
              Finish(r, x, line)
         [] x.hello /\ line.kind = "end" -> Finish(r, x, line)
         [] OTHER -> Fail(r, x, "invalid")
    /\ UNCHANGED <<published, stored, shuttingDown, faulty>>

\* A line that waits behind an artifact: the request is accepted already.
Queued(line) == IF line.kind \in {"hello", "accepted"} THEN Line("bad") ELSE line

\* A line arrives.
Receive(r) ==
    /\ Settled /\ Active(ex[r]) /\ Open(ex[r])
    /\ \E line \in Lines :
          IF Storing(ex[r])
          THEN /\ Len(ex[r].lines) < MaxQueued
               /\ Becomes(r, [ex[r] EXCEPT !.lines = Append(@, Queued(line))])
               /\ UNCHANGED <<answer, published, stored, host, faulty>>
          ELSE ProcessLine(r, ex[r], line)

\* An empty or an oversized line is refused on arrival, before those in the queue.
ReceiveUnreadable(r) ==
    /\ Settled /\ Active(ex[r]) /\ Open(ex[r])
    /\ Fail(r, ex[r], "invalid")
    /\ UNCHANGED <<published, stored, shuttingDown, faulty>>

Drain(r) ==
    /\ Draining(r) /\ ex[r].lines # <<>>
    /\ ProcessLine(r, [ex[r] EXCEPT !.lines = Tail(@)], Head(ex[r].lines))

-----------------------------------------------------------------------------
(* Storage of an artifact: publishResearchArtifactAtomically, then verification *)

Goes(r, stage) ==
    Becomes(r, [ex[r] EXCEPT !.at = stage]) /\ UNCHANGED <<answer, wait>>
Rest(r) == [ex[r] EXCEPT !.at = "idle", !.art = {}]

\* The staged file was read and its directory made; then the signal is looked at.
StageDone(r) ==
    /\ Settled /\ ex[r].at = "stage"
    /\ IF ex[r].cancelled THEN Fail(r, Rest(r), "failed") ELSE Goes(r, "rename")
    /\ UNCHANGED <<published, stored, shuttingDown, faulty>>

\* The file is in place; a cancellation that came meanwhile takes it back.
RenameDone_NotTakenBack(r) ==
    /\ Settled /\ ex[r].at = "rename"
    /\ stored' = [stored EXCEPT ![r] = @ \cup ex[r].art]
    /\ IF ex[r].cancelled THEN Fail(r, Rest(r), "failed") ELSE Goes(r, "verify")
    /\ UNCHANGED <<published, shuttingDown, faulty>>
RenameDone(r) ==
    /\ Settled /\ ex[r].at = "rename"
    /\ stored' = [stored EXCEPT ![r] = @ \cup ex[r].art]
    /\ Goes(r, IF ex[r].cancelled THEN "rollback" ELSE "verify")
    /\ UNCHANGED <<published, shuttingDown, faulty>>

RollbackDone(r) ==
    /\ Settled /\ ex[r].at = "rollback"
    /\ stored' = [stored EXCEPT ![r] = @ \ ex[r].art]
    /\ Fail(r, Rest(r), "failed")
    /\ UNCHANGED <<published, shuttingDown, faulty>>

\* The file operation that is awaited fails.
StorageFails(r) ==
    /\ Settled /\ Storing(ex[r])
    /\ faulty' = [faulty EXCEPT ![r] = @ \/ ex[r].at \in {"rollback", "verify"}]
    /\ Fail(r, Rest(r), IF ex[r].at = "verify" THEN "invalid" ELSE "failed")
    /\ UNCHANGED <<published, stored, shuttingDown>>

\* verifyPublishedArtifact is content: the artifact is announced.
VerifyDone(r) ==
    /\ Settled /\ ex[r].at = "verify"
    /\ published' = [published EXCEPT ![r] = @ \cup ex[r].art]
    /\ Becomes(r, Rest(r))
    /\ UNCHANGED <<answer, stored, host, faulty>>

-----------------------------------------------------------------------------
(* Timers and the end of the child *)

NegotiationTimer(r) ==
    /\ Settled /\ ex[r].negotiation
    /\ Fail(r, [ex[r] EXCEPT !.negotiation = FALSE], "failed")
    /\ UNCHANGED <<published, stored, shuttingDown, faulty>>

CancellationTimer(r) ==
    /\ Settled /\ ex[r].grace
    /\ Becomes(r, [Killed(ex[r]) EXCEPT !.grace = FALSE])
    /\ UNCHANGED <<answer, published, stored, host, faulty>>

\* The event 'error': the child could not be started.
LaunchError(r) ==
    /\ Settled /\ Active(ex[r]) /\ ~ex[r].hello /\ Open(ex[r])
    /\ Fail(r, ex[r], "failed")
    /\ UNCHANGED <<published, stored, shuttingDown, faulty>>

\* The event 'close': all the child wrote has been read.  The answer waits for
\* the lines in the queue (Crashed).
Close_AnswersAtOnce(r) ==
    /\ Settled /\ Open(ex[r])
    /\ Fail(r, [ex[r] EXCEPT !.child = "closed"], "failed")
    /\ UNCHANGED <<published, stored, shuttingDown, faulty>>
Close(r) ==
    /\ Settled /\ Open(ex[r])
    /\ Becomes(r, [ex[r] EXCEPT !.child = "closed"])
    /\ UNCHANGED <<answer, published, stored, host, faulty>>

Crashed(r) ==
    /\ Draining(r) /\ ex[r].lines = <<>>
    /\ Fail(r, ex[r], "failed")
    /\ UNCHANGED <<published, stored, shuttingDown, faulty>>

-----------------------------------------------------------------------------
(* Cancellation, shutdown, removal of the package *)

Cancel(r) ==
    /\ Settled /\ Active(ex[r])
    /\ Becomes(r, Cancelled(ex[r]))
    /\ UNCHANGED <<answer, published, stored, host, faulty>>

\* Bound: one shutdown or one removal of the package in a behaviour.
CancelAllAndWait ==
    /\ Settled /\ wait = None
    /\ ex' = [r \in Requests |-> Cancelled(ex[r])]
    /\ wait' = IF Idle(ex) THEN "done" ELSE "waiting"

Shutdown ==
    /\ CancelAllAndWait
    /\ shuttingDown' = TRUE
    /\ UNCHANGED <<answer, published, stored, faulty>>

\* The pointer to the package and its files are removed when the wait is over.
Uninstall ==
    /\ CancelAllAndWait
    /\ UNCHANGED <<answer, published, stored, shuttingDown, faulty>>

-----------------------------------------------------------------------------
Storage(r) ==
    StageDone(r) \/ RenameDone(r) \/ RollbackDone(r) \/ VerifyDone(r)

Next ==
    \/ \E r \in Requests :
          \/ Execute(r) \/ NotLaunched(r) \/ Launch(r)
          \/ Receive(r) \/ ReceiveUnreadable(r) \/ Drain(r)
          \/ Storage(r) \/ StorageFails(r)
          \/ NegotiationTimer(r) \/ CancellationTimer(r)
          \/ LaunchError(r) \/ Close(r) \/ Crashed(r) \/ Cancel(r)
    \/ Shutdown \/ Uninstall

\* Timers fire, the file system answers, a child that was killed closes, the
\* lines that were read are handled, verification ends.  Nobody says that a
\* child says anything or that anybody cancels.
Inevitable(r) ==
    \/ NegotiationTimer(r) \/ CancellationTimer(r) \/ (ex[r].child = "killed" /\ Close(r))
    \/ Storage(r) \/ StorageFails(r) \/ Drain(r) \/ Crashed(r)
    \/ NotLaunched(r) \/ Launch(r)

Fairness ==
    \A r \in Requests : WF_vars(Inevitable(r))

Spec == Init /\ [][Next]_vars /\ Fairness

-----------------------------------------------------------------------------
(* Properties *)

\* A result lists exactly the artifacts the host announced for the request, and
\* each of them lies in the published directory.  What lies there was announced,
\* or is being dealt with; a cancellation in the middle of the rename takes the
\* file back.  Excepted are requests for which the file system failed.
ArtifactsAgree ==
    /\ TypeOK
    /\ \A r \in Requests :
         /\ answer[r].kind = "result" => answer[r].arts = published[r]
         /\ published[r] \subseteq stored[r]
         /\ ~Storing(ex[r]) /\ ~faulty[r] => stored[r] \subseteq published[r]

\* An answer is final: the timers, the close of the child, its lines and the
\* storage race for it.  The child never outlives it unattended: it has closed or
\* was told to die.  After the answer nothing is published, also when the child
\* closes while an artifact is in work; excepted is a line refused on arrival:
\* what is in work then is stored and announced after the answer.
AnswerIsFinal ==
    [][\A r \in Requests :
          /\ answer[r].kind # None => answer'[r] = answer[r]
          /\ answer'[r].kind \notin {None, "refused"} => ex'[r].child \in {"killed", "closed"}
          /\ answer[r].kind \notin {None, "invalid"} => published'[r] = published[r]
      ]_<<answer, published, ex>>

\* The removal of the package and the end of the host begin only when no request
\* is starting or active: one that cancelAll() did not see is waited for.  They
\* wait no longer than that: every way in which execute() may end wakes them.
RemovalWaits ==
    [][/\ wait' = "done" /\ wait # "done" =>
            \A r \in Requests : ex'[r].pc \in {"idle", "over"}
       /\ wait' = "waiting" => ~Idle(ex')]_<<wait, ex>>

\* A request is answered in spite of its child: one that never completes the
\* negotiation does not hold it, and once cancelled it ends whatever the child
\* says or does not say and whatever of an artifact is in work.
AnsweredInSpite ==
    \A r \in Requests :
        (ex[r].pc = "running" /\ (ex[r].cancelled \/ ~ex[r].hello))
            ~> (ex[r].pc = "over" \/ (ex[r].hello /\ ~ex[r].cancelled))
=============================================================================
