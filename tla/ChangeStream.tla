---------------------------- MODULE ChangeStream ----------------------------
(***************************************************************************)
(* A change stream: a tailable cursor that opens itself again after errors *)
(* and timeouts. Where it goes on is decided by what was remembered of     *)
(* batches, of tokens and of the options it was opened with.               *)
(*                                                                         *)
(* Positions in the server's log stand for resume tokens, batch tokens     *)
(* (postBatchResumeToken) and operation times. A batch is the part of the  *)
(* log behind `read' and up to `upto'.                                     *)
(***************************************************************************)
EXTENDS Naturals, Sequences, FiniteSets

CONSTANTS
  None,
  LoadBalanced,
  MaxLog,     \* bound: entries in the log
  MaxBatch,   \* events in one batch
  MaxFaults   \* bound: errors, timeouts and dropped cursors there may be

ASSUME NoneAssumption == None \notin Nat
ASSUME BoundsAssumption ==
  LoadBalanced \in BOOLEAN /\ MaxLog \in Nat /\ MaxBatch \in Nat \ {0}
  /\ MaxFaults \in Nat

Kinds == {"change", "other", "invalidate"}
Starts == {"now", "startAt", "resumeAfter", "startAfter"}

VARIABLES
  log, faults,          \* the server, and what may still go wrong
  first,                \* @options: where the stream starts
  cursor,               \* @cursor_id is not 0; the server may have dropped it
  pin,                  \* @pinned_connection
  read, upto,           \* @batch and @batch_index
  pbrt, token, saved,   \* @batch_pbrt, @resume_token, @saved_operation_time
  seen, late,           \* @seen_document, @resume_on_timeout
  at, call,             \* the caller's fiber, in next or try_next
  told, failed, last,   \* what the caller was told
  cut                   \* a resumption timed out; only the properties look at it

memory == <<pbrt, token, saved>>
batch == <<read, upto>>
result == <<told, seen, failed, last, cut>>
vars == <<log, faults, first, cursor, pin, batch, memory, late, at, call, result>>

Feed == INSTANCE ChangeFeed

EventsIn(from, to) == Feed!EventsIn(from, to)
Taken == EventsIn(read, upto) = {}   \* batch_empty? and batch_consumed?

Init ==
  /\ log = <<>> /\ faults = MaxFaults
  /\ first = [by |-> "now", at |-> 0]
  /\ cursor = "none" /\ pin = FALSE /\ read = 0 /\ upto = 0
  /\ pbrt = None /\ token = None /\ saved = None
  /\ seen = FALSE /\ late = FALSE
  /\ at = "outside" /\ call = "none"
  /\ told = None /\ failed = FALSE /\ last = "none" /\ cut = FALSE

-----------------------------------------------------------------------------
(* The server *)

\* What comes after the stream was closed does not matter.
Write(kind) ==
  /\ Len(log) < MaxLog /\ at # "closed"
  /\ log' = Append(log, kind)
  /\ UNCHANGED <<faults, first, cursor, pin, batch, memory, late, at, call, result>>

Fault == faults > 0 /\ faults' = faults - 1

\* It drops a cursor that was idle for too long, or is replaced.
DropCursor ==
  /\ Fault /\ cursor = "open" /\ cursor' = "gone"
  /\ UNCHANGED <<log, first, pin, batch, memory, late, at, call, result>>

\* The log may be read from one position to another in one reply: an empty one
\* means that there is nothing to tell, and an invalidate event is the last.
Readable(from, to) ==
  /\ Cardinality(EventsIn(from, to)) <= MaxBatch
  /\ EventsIn(from, to) = {} => to = Len(log)
  /\ \A p \in EventsIn(from, to) : log[p] = "invalidate" => p = to

Invalidates(from, to) == to \in EventsIn(from, to) /\ log[to] = "invalidate"

\* resumeAfter does not go beyond an invalidate event, startAfter does. A stream
\* opened at a time has there the token of the time and not of the event.
Refuses(start, openedBy) ==
  /\ start.by = "resumeAfter" /\ openedBy \in {"resumeAfter", "startAfter"}
  /\ start.at > 0 /\ log[start.at] = "invalidate"

Position(start) == IF start.by = "now" THEN Len(log) ELSE start.at

\* A call ends.
Returns(value) == at' = "idle" /\ call' = "none" /\ last' = value

-----------------------------------------------------------------------------
(* Opening and resuming *)

Remembered_KeepsPbrt(withToken, from, to) ==
  LET empty == EventsIn(from, to) = {}
  IN  /\ pbrt' = IF withToken THEN to ELSE pbrt
      /\ token' = IF withToken /\ empty THEN to ELSE token
      /\ saved' = IF ~withToken /\ empty /\ first.by = "now" THEN Len(log) ELSE saved

\* apply_init_result: the memory after the reply to an aggregate. Servers from
\* 4.0.7 on send a batch token.
Remembered(withToken, from, to) ==
  LET empty == EventsIn(from, to) = {}
  IN  /\ pbrt' = IF withToken THEN to ELSE None
      /\ token' = IF withToken /\ empty THEN to ELSE token
      /\ saved' = IF ~withToken /\ empty /\ first.by = "now" THEN Len(log) ELSE saved

\* An aggregate that starts there is answered. Only servers with batch tokens
\* (which all that the README of the driver supports are) are taken to send a
\* first batch before they have looked at the log: another's operation time
\* would go into `saved' although nothing up to it was looked at.
Answered(start) ==
  \E to \in Position(start) .. Len(log), withToken \in BOOLEAN :
    /\ Readable(Position(start), to) \/ (withToken /\ to = Position(start))
    /\ read' = Position(start) /\ upto' = to
    /\ cursor' = IF Invalidates(Position(start), to) THEN "none" ELSE "open"
    /\ pin' = (LoadBalanced /\ cursor' = "open")
    /\ Remembered(withToken, Position(start), to)

Watch(start) ==
  /\ at = "outside" /\ start.at <= Len(log) /\ ~Refuses(start, start.by)
  /\ first' = start
  /\ token' = IF start.by \in {"resumeAfter", "startAfter"} THEN start.at ELSE None
  /\ at' = "opening"
  /\ UNCHANGED <<log, faults, cursor, pin, batch, pbrt, saved, late, call, result>>

Opened ==
  /\ at = "opening" /\ at' = "idle"
  /\ Answered(first)
  /\ told' = Position(first) /\ last' = "nothing"
  /\ UNCHANGED <<log, faults, first, seen, late, call, failed, cut>>

OpenFails ==
  /\ at = "opening" /\ at' = "closed" /\ last' = "error"
  /\ UNCHANGED <<log, faults, first, cursor, pin, batch, memory, late, call, told,
                 seen, failed, cut>>

\* resume_after_error: with the token, or with the time of the first reply, or
\* as the stream was opened.
Resumption ==
  IF token # None
  THEN [by |-> IF first.by = "startAfter" /\ ~seen THEN "startAfter" ELSE "resumeAfter",
        at |-> token]
  ELSE IF saved # None THEN [by |-> "startAt", at |-> saved]
  ELSE first

Resumed ==
  /\ at = "resuming" /\ at' = "looping"
  /\ ~Refuses(Resumption, first.by) /\ Answered(Resumption)
  /\ UNCHANGED <<log, faults, first, late, call, result>>

\* Nobody catches the error, and the cursor is gone: the next call ends.
ResumeFails ==
  /\ at = "resuming" /\ Returns("error") /\ failed' = TRUE
  /\ IF Refuses(Resumption, first.by) THEN UNCHANGED faults ELSE Fault
  /\ UNCHANGED <<log, first, cursor, pin, batch, memory, late, told, seen, cut>>

\* Nor does anybody catch a timeout: @resume_on_timeout is set by the rescue of
\* the batches' loop only, so that the next call ends here too.
ResumeTimesOut ==
  /\ at = "resuming" /\ Fault
  /\ Returns("timeout") /\ cut' = TRUE
  /\ UNCHANGED <<log, first, cursor, pin, batch, memory, late, told, seen, failed>>

Killed_KeepsPin == cursor' = "none" /\ UNCHANGED pin

\* kill_quietly and kill: whatever killCursors does, the cursor is forgotten and
\* its connection returned.
Killed == cursor' = "none" /\ pin' = FALSE

-----------------------------------------------------------------------------
(* A call *)

\* A timeout is made good by the call after it.
Call(kind) ==
  /\ at = "idle" /\ call' = kind
  /\ late' = FALSE
  /\ IF late THEN at' = "resuming" /\ Killed
     ELSE at' = "looping" /\ UNCHANGED <<cursor, pin>>
  /\ UNCHANGED <<log, faults, first, batch, memory, result>>

TokenOf_Batch(e) == IF pbrt # None THEN pbrt ELSE e

\* apply_document_token: after the last event of a batch, the batch's token.
TokenOf(e) == IF pbrt # None /\ EventsIn(e, upto) = {} THEN pbrt ELSE e

Take(e) ==
  /\ at = "looping" /\ Returns("event")
  /\ Feed!IsNext(e, read, upto)
  /\ read' = e /\ token' = TokenOf(e)
  /\ told' = e /\ seen' = TRUE
  /\ UNCHANGED <<log, faults, first, cursor, pin, upto, pbrt, saved, late, failed,
                 cut>>

Exhausted ==
  /\ at = "looping" /\ Taken /\ cursor = "none"
  /\ Returns(IF call = "next" THEN "stop" ELSE "nothing")
  /\ UNCHANGED <<log, faults, first, cursor, pin, batch, memory, late, told, seen,
                 failed, cut>>

FetchMore ==
  /\ at = "looping" /\ at' = "fetching"
  /\ Taken /\ cursor # "none"
  /\ UNCHANGED <<log, faults, first, cursor, pin, batch, memory, late, call, result>>

\* After an empty batch try_next returns, and next goes on or is late.
GoesOn(empty) ==
  IF empty /\ call = "try"
  THEN Returns("nothing") /\ UNCHANGED late
  ELSE \/ at' = "looping" /\ UNCHANGED <<call, last, late>>
       \/ empty /\ Returns("timeout") /\ late' = TRUE

MoreFetched ==
  /\ at = "fetching" /\ cursor = "open"
  /\ \E to \in upto .. Len(log) :
       LET empty == EventsIn(upto, to) = {}
       IN  /\ Readable(upto, to)
           /\ read' = upto /\ upto' = to
           /\ pbrt' = IF pbrt # None THEN to ELSE None
           /\ token' = IF pbrt # None /\ empty THEN to ELSE token
           /\ cursor' = IF Invalidates(upto, to) THEN "none" ELSE "open"
           /\ pin' = (pin /\ cursor' = "open")
           /\ GoesOn(empty)
  /\ UNCHANGED <<log, faults, first, saved, told, seen, failed, cut>>

TimesOut ==
  /\ at = "fetching" /\ Fault
  /\ Returns("timeout") /\ late' = TRUE
  /\ UNCHANGED <<log, first, cursor, pin, batch, memory, told, seen, failed, cut>>

Resumable_NotTheLost == cursor = "open" /\ Fault

\* Errors of the network and the client, errors the server says are, and that
\* it does not know the cursor.
Resumable == IF cursor = "gone" THEN UNCHANGED faults ELSE Fault

FetchFails ==
  /\ at = "fetching" /\ at' = "resuming"
  /\ Resumable /\ Killed
  /\ UNCHANGED <<log, first, batch, memory, late, call, result>>

\* The other errors are the caller's. The server has dropped the cursor, or not.
FetchRefused ==
  /\ at = "fetching" /\ Fault /\ Returns("error")
  /\ cursor' \in {cursor, "gone"}
  /\ UNCHANGED <<log, first, pin, batch, memory, late, told, seen, failed, cut>>

Close ==
  /\ at = "idle" /\ at' = "closed"
  /\ Killed
  /\ UNCHANGED <<log, faults, first, batch, memory, late, call, result>>

-----------------------------------------------------------------------------
Iterate ==
  \/ Exhausted \/ FetchMore \/ MoreFetched \/ TimesOut \/ FetchFails
  \/ FetchRefused \/ Resumed \/ ResumeFails \/ ResumeTimesOut
  \/ \E e \in 1 .. Len(log) : Take(e)

Next ==
  \/ \E kind \in Kinds : Write(kind)
  \/ DropCursor
  \/ \E by \in Starts, position \in 0 .. Len(log) : Watch([by |-> by, at |-> position])
  \/ Opened \/ OpenFails \/ Close
  \/ \E kind \in {"next", "try"} : Call(kind)
  \/ Iterate

Spec == Init /\ [][Next]_vars

\* The caller goes on calling, the fiber runs and the server answers, or the
\* read times out. Faults are bounded; nobody has to write.
FairSpec ==
  /\ Spec
  /\ WF_vars(Iterate)
  /\ WF_vars(\E kind \in {"next", "try"} : Call(kind))

-----------------------------------------------------------------------------
(* Properties *)

\* Every variable holds a value of its kind, and a connection is pinned as long
\* as there is a cursor on it and no longer.
TypeOK ==
  /\ log \in Seq(Kinds) /\ Len(log) <= MaxLog /\ faults \in 0 .. MaxFaults
  /\ first \in [by: Starts, at: 0 .. Len(log)]
  /\ cursor \in {"none", "open", "gone"}
  /\ pin = (LoadBalanced /\ cursor # "none")
  /\ read \in 0 .. Len(log) /\ upto \in 0 .. Len(log)
  /\ \A position \in {pbrt, token, saved, told} : position \in 0 .. Len(log) \cup {None}
  /\ seen \in BOOLEAN /\ late \in BOOLEAN
  /\ failed \in BOOLEAN /\ cut \in BOOLEAN
  /\ at \in {"outside", "opening", "idle", "looping", "fetching", "resuming", "closed"}
  /\ call \in {"none", "next", "try"}
  /\ last \in {"none", "nothing", "event", "stop", "error", "timeout"}

\* The token a caller may keep to open another stream, and the one a resumption
\* uses, is neither behind the last event told nor beyond one that was not,
\* whatever batch it comes from; and the server does not refuse it.
TokenExact ==
  told # None /\ token # None =>
    /\ told <= token /\ EventsIn(told, token) = {}
    /\ ~Feed!Over => ~Refuses(Resumption, first.by)

\* What the code does against the contract: it ends because of a timeout.
EndsByTimeout ==
  cut /\ last' = "stop" /\ UNCHANGED <<log, told, seen, failed>>

\* The stream is a ChangeFeed: no event is lost or repeated, however often it
\* is resumed, and it does not end without telling why. The one exception, the
\* end after a resumption that timed out, is TimeoutNotTheEnd's.
ImplementsFeed == Feed!Init /\ [][Feed!Next \/ EndsByTimeout]_(Feed!vars)

\* A call that times out does not end the stream: as the comment of
\* @resume_on_timeout says, the call after it resumes (and what that one
\* returns is then not the end, which is told after an event or an error).
TimeoutNotTheEnd == [][last = "timeout" => last' # "stop"]_vars

\* An event is told in the end, unless the caller was told that the stream is
\* over or could not be resumed, or closes it; or a resumption timed out.
Delivers ==
  \A p \in 1 .. MaxLog :
    (told # None /\ told < p /\ p <= Len(log) /\ log[p] # "other") ~>
      ((told # None /\ p <= told) \/ Feed!Over \/ failed \/ cut \/ at = "closed")
=============================================================================
