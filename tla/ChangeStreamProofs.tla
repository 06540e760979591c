------------------------- MODULE ChangeStreamProofs -------------------------
(***************************************************************************)
(* The resume token of a change stream is exact, and the stream is a       *)
(* ChangeFeed, for logs, batches and numbers of faults of every size.      *)
(***************************************************************************)
EXTENDS ChangeStream, TLAPS

-----------------------------------------------------------------------------
(* The inductive invariant *)

Untaken == upto \in EventsIn(read, upto) /\ log[upto] = "invalidate"

\* Nothing happens before the stream is open.
Outside ==
  /\ told = None => at \in {"outside", "opening", "closed"} /\ ~seen
  /\ at \in {"outside", "opening"} =>
       /\ told = None /\ cursor = "none" /\ ~late /\ ~failed /\ saved = None
       /\ pbrt = None
  /\ at = "outside" => first.by = "now" /\ token = None
  /\ at = "opening" =>
       token = IF first.by \in {"resumeAfter", "startAfter"} THEN first.at ELSE None
  /\ at # "outside" => ~Refuses(first, first.by)

\* The batch begins where the caller is, and ends where its token says.
Batch ==
  told # None =>
    /\ told <= read /\ read <= upto /\ EventsIn(told, read) = {}
    /\ pbrt # None => pbrt = upto
    /\ \A p \in EventsIn(read, upto) : log[p] = "invalidate" => p = upto

\* What a resumption may start from: the token, the time of the first reply, or
\* the place where the stream was opened and the caller still is.
Memory ==
  told # None =>
    /\ token # None => told <= token /\ EventsIn(told, token) = {}
    /\ seen => told > 0 /\ token # None
    /\ saved # None /\ ~seen => told <= saved /\ EventsIn(told, saved) = {}
    /\ ~seen /\ first.by # "now" => told = first.at
    /\ first.by \in {"resumeAfter", "startAfter"} => token # None
    /\ first.by = "now" /\ token = None /\ saved = None => ~Taken

\* A getMore is sent, and a stream resumed, only when its batch is used up.
Places ==
  /\ at \in {"fetching", "resuming"} \/ late => Taken
  /\ at = "resuming" => cursor = "none" /\ ~late
  /\ at = "fetching" => cursor # "none"
  /\ at \in {"looping", "fetching"} => ~late

\* How a cursor ends.
Endings ==
  told # None =>
    /\ Feed!Over \/ Untaken => cursor = "none" /\ at \in {"idle", "looping", "closed"}
    /\ Feed!Over => Taken /\ ~late
    /\ cursor = "none" /\ at \in {"idle", "looping"} =>
         failed \/ cut \/ Feed!Over \/ Untaken

Inductive == TypeOK /\ Outside /\ Batch /\ Memory /\ Places /\ Endings

-----------------------------------------------------------------------------
(* The log *)

\* What was read of the log stays as it was when the log grows.
LEMMA LogGrows ==
  ASSUME TypeOK, NEW kind \in Kinds, log' = Append(log, kind)
  PROVE  /\ log' \in Seq(Kinds) /\ Len(log') = Len(log) + 1
         /\ \A p \in 1 .. Len(log) : log'[p] = log[p]
  BY DEF TypeOK

\* What is remembered of the log is in it.
LEMMA Bounds ==
  ASSUME TypeOK
  PROVE  /\ Len(log) \in Nat /\ read \in 0 .. Len(log) /\ upto \in 0 .. Len(log)
         /\ told # None => told \in 0 .. Len(log)
  BY DEF TypeOK

\* No event between a and b and none between b and c: none between a and c.
LEMMA NoEvents ==
  ASSUME NEW a \in Nat, NEW b \in Nat, NEW c \in Nat,
         EventsIn(a, b) = {}, EventsIn(b, c) = {}
  PROVE  EventsIn(a, c) = {}
  BY DEF EventsIn, Feed!EventsIn

\* A resumption starts at a position of the log.
LEMMA ResumptionType ==
  ASSUME TypeOK
  PROVE  Resumption \in [by: Starts, at: 0 .. Len(log)]
  <1>1. CASE token # None
    BY <1>1 DEF TypeOK, Resumption, Starts
  <1>2. CASE token = None /\ saved # None
    BY <1>2 DEF TypeOK, Resumption, Starts
  <1>3. CASE token = None /\ saved = None
    BY <1>3 DEF TypeOK, Resumption
  <1> QED
    BY <1>1, <1>2, <1>3

\* The reply to an aggregate.
LEMMA Reply ==
  ASSUME TypeOK, NEW start \in [by: Starts, at: 0 .. Len(log)], Answered(start)
  PROVE  /\ Position(start) \in 0 .. Len(log)
         /\ read' = Position(start)
         /\ upto' \in Nat /\ read' <= upto' /\ upto' <= Len(log)
         /\ \A p \in EventsIn(read', upto') : log[p] = "invalidate" => p = upto'
         /\ pbrt' # None => pbrt' = upto'
         /\ pbrt' \in {upto', None}
         /\ \/ token' = token
            \/ token' = upto' /\ EventsIn(read', upto') = {}
         /\ \/ saved' = saved
            \/ saved' = Len(log) /\ EventsIn(read', Len(log)) = {} /\ first.by = "now"
         /\ first.by = "now" /\ EventsIn(read', upto') = {} => token' # None \/ saved' # None
         /\ token # None => token' # None
         /\ cursor' \in {"none", "open"}
         /\ cursor' = "none" <=> Invalidates(read', upto')
         /\ pin' = (LoadBalanced /\ cursor' # "none")
  <1>1. Position(start) \in 0 .. Len(log) /\ Len(log) \in Nat
    BY DEF TypeOK, Position
  <1>2. PICK to \in Position(start) .. Len(log), withToken \in BOOLEAN :
          /\ Readable(Position(start), to) \/ (withToken /\ to = Position(start))
          /\ read' = Position(start) /\ upto' = to
          /\ cursor' = IF Invalidates(Position(start), to) THEN "none" ELSE "open"
          /\ pin' = (LoadBalanced /\ cursor' = "open")
          /\ Remembered(withToken, Position(start), to)
    BY DEF Answered
  <1> DEFINE empty == EventsIn(read', upto') = {}
  <1>3. upto' \in Nat /\ read' <= upto' /\ upto' <= Len(log)
    BY <1>1, <1>2
  <1>4. \A p \in EventsIn(read', upto') : log[p] = "invalidate" => p = upto'
    <2>1. CASE Readable(Position(start), upto')
      BY <1>2, <2>1 DEF Readable
    <2>2. CASE upto' = Position(start)
      BY <1>1, <1>2, <2>2 DEF EventsIn, Feed!EventsIn
    <2> QED
      BY <1>2, <2>1, <2>2
  <1>5. /\ pbrt' = IF withToken THEN upto' ELSE None
        /\ token' = IF withToken /\ empty THEN upto' ELSE token
        /\ saved' = IF ~withToken /\ empty /\ first.by = "now" THEN Len(log) ELSE saved
    BY <1>2 DEF Remembered
  <1>6. cursor' \in {"none", "open"} /\ (cursor' = "none" <=> Invalidates(read', upto'))
    BY <1>2
  <1>7. ~withToken /\ empty => upto' = Len(log)
    BY <1>2 DEF Readable
  <1>8. upto' # None /\ Len(log) # None
    BY <1>3, NoneAssumption DEF TypeOK
  <1>9. pin' = (LoadBalanced /\ cursor' # "none")
    BY <1>2, <1>6
  <1>10. CASE withToken
    BY <1>1, <1>2, <1>3, <1>4, <1>5, <1>6, <1>8, <1>9, <1>10
  <1>11. CASE ~withToken
    BY <1>1, <1>2, <1>3, <1>4, <1>5, <1>6, <1>7, <1>8, <1>9, <1>11
  <1> QED
    BY <1>10, <1>11

-----------------------------------------------------------------------------
(* The steps *)

\* An error, a timeout or a lost cursor leaves a number of faults in its range.
LEMMA FaultSpent ==
  ASSUME TypeOK, Fault
  PROVE  faults' \in 0 .. MaxFaults
  BY BoundsAssumption DEF TypeOK, Fault

LEMMA TypeStep ==
  ASSUME Inductive, [Next]_vars
  PROVE  TypeOK'
  <1> USE DEF Inductive
  <1>1. ASSUME NEW kind \in Kinds, Write(kind)
       PROVE  TypeOK'
    <2>1. /\ log' \in Seq(Kinds) /\ Len(log') = Len(log) + 1 /\ Len(log') <= MaxLog
          /\ 0 .. Len(log) \subseteq 0 .. Len(log')
      BY <1>1, LogGrows, BoundsAssumption DEF Write, TypeOK
    <2> QED
      BY <1>1, <2>1 DEF Write, batch, memory, result, TypeOK
  <1>2. CASE DropCursor
    BY <1>2, FaultSpent DEF DropCursor, batch, memory, result, TypeOK
  <1>3. ASSUME NEW by \in Starts, NEW position \in 0 .. Len(log), Watch([by |-> by, at |-> position])
       PROVE  TypeOK'
    BY <1>3 DEF Watch, batch, memory, result, TypeOK
  <1>4. CASE Opened
    BY <1>4, Reply DEF Opened, batch, memory, result, TypeOK
  <1>5. CASE OpenFails
    BY <1>5 DEF OpenFails, batch, memory, result, TypeOK
  <1>6. CASE Close
    BY <1>6 DEF Close, Killed, batch, memory, result, TypeOK
  <1>7. ASSUME NEW kind \in {"next", "try"}, Call(kind)
       PROVE  TypeOK'
    BY <1>7 DEF Call, Killed, batch, memory, result, TypeOK
  <1>8. CASE Exhausted
    BY <1>8 DEF Exhausted, Returns, batch, memory, result, TypeOK
  <1>9. CASE FetchMore
    BY <1>9 DEF FetchMore, batch, memory, result, TypeOK
  <1>10. CASE MoreFetched
    <2>1. PICK to \in upto .. Len(log) :
            /\ read' = upto /\ upto' = to
            /\ pbrt' = IF pbrt # None THEN to ELSE None
            /\ token' = IF pbrt # None /\ EventsIn(upto, to) = {} THEN to ELSE token
            /\ cursor' = IF Invalidates(upto, to) THEN "none" ELSE "open"
            /\ pin' = (pin /\ cursor' = "open")
            /\ GoesOn(EventsIn(upto, to) = {})
      BY <1>10 DEF MoreFetched
    <2>2. to \in 0 .. Len(log)
      BY <2>1 DEF TypeOK
    <2>3. pin' = (LoadBalanced /\ cursor' # "none") /\ cursor' \in {"none", "open"}
      BY <1>10, <2>1 DEF MoreFetched, TypeOK
    <2>4. /\ at' \in {"looping", "idle"} /\ call' \in {"none", call}
          /\ last' \in {last, "nothing", "timeout"} /\ late' \in BOOLEAN
      <3>1. late \in BOOLEAN
        BY DEF TypeOK
      <3> QED
        BY <2>1, <3>1 DEF GoesOn, Returns
    <2>5. read' \in 0 .. Len(log) /\ upto' \in 0 .. Len(log)
          /\ pbrt' \in 0 .. Len(log) \cup {None} /\ token' \in 0 .. Len(log) \cup {None}
      BY <2>1, <2>2 DEF TypeOK
    <2>6. UNCHANGED <<log, faults, first, saved, told, seen, failed, cut>>
      BY <1>10 DEF MoreFetched
    <2> QED
      BY <2>3, <2>4, <2>5, <2>6 DEF TypeOK
  <1>11. CASE TimesOut
    BY <1>11, FaultSpent DEF TimesOut, Returns, batch, memory, result, TypeOK
  <1>12. CASE FetchFails
    BY <1>12, FaultSpent DEF FetchFails, Resumable, Killed, batch, memory, result, TypeOK
  <1>13. CASE FetchRefused
    <2>1. cursor # "none" /\ cursor' # "none" /\ cursor' \in {"none", "open", "gone"}
      BY <1>13 DEF FetchRefused, Places, TypeOK
    <2> QED
      BY <1>13, <2>1, FaultSpent DEF FetchRefused, Returns, batch, memory, TypeOK
  <1>14. CASE Resumed
    BY <1>14, Reply, ResumptionType DEF Resumed, batch, memory, result, TypeOK
  <1>15. CASE ResumeFails \/ ResumeTimesOut
    BY <1>15, FaultSpent DEF ResumeFails, ResumeTimesOut, Returns, batch, memory, result, TypeOK
  <1>16. ASSUME NEW e \in 1 .. Len(log), Take(e)
       PROVE  TypeOK'
    <2>1. TokenOf(e) \in 0 .. Len(log) \cup {None}
      BY DEF TokenOf, TypeOK
    <2>2. e \in 0 .. Len(log)
      BY DEF TypeOK
    <2> QED
      BY <1>16, <2>1, <2>2 DEF Take, Returns, TypeOK
  <1>17. CASE UNCHANGED vars
    BY <1>17 DEF vars, batch, memory, result, TypeOK
  <1> QED
    BY <1>1, <1>2, <1>3, <1>4, <1>5, <1>6, <1>7, <1>8, <1>9, <1>10, <1>11, <1>12, <1>13, <1>14, <1>15, <1>16, <1>17 DEF Next, Iterate

LEMMA OutsideStep ==
  ASSUME Inductive, [Next]_vars
  PROVE  Outside'
  <1> USE DEF Inductive
  <1>1. ASSUME NEW kind \in Kinds, Write(kind)
       PROVE  Outside'
    <2>1. first.at > 0 => first.at \in 1 .. Len(log)
      BY DEF TypeOK
    <2>2. Refuses(first, first.by)' <=> Refuses(first, first.by)
      BY <1>1, <2>1, LogGrows DEF Write, Refuses
    <2> QED
      BY <1>1, <2>2 DEF Write, batch, memory, result, Outside
  <1>2. CASE DropCursor
    BY <1>2 DEF DropCursor, batch, memory, result, Outside, Refuses
  <1>3. ASSUME NEW by \in Starts, NEW position \in 0 .. Len(log), Watch([by |-> by, at |-> position])
       PROVE  Outside'
    BY <1>3 DEF Watch, batch, memory, result, Outside, Refuses
  <1>4. CASE Opened
    <2>1. told' = Position(first) /\ told' # None
      BY <1>4, Reply, NoneAssumption DEF Opened, TypeOK
    <2> QED
      BY <1>4, <2>1 DEF Opened, Outside, Refuses
  <1>5. CASE OpenFails
    BY <1>5 DEF OpenFails, batch, memory, result, Outside, Refuses
  <1>6. CASE Close
    BY <1>6 DEF Close, Killed, batch, memory, result, Outside, Refuses
  <1>7. ASSUME NEW kind \in {"next", "try"}, Call(kind)
       PROVE  Outside'
    BY <1>7 DEF Call, Killed, batch, memory, result, Outside, Refuses
  <1>8. CASE Exhausted
    BY <1>8 DEF Exhausted, Returns, batch, memory, result, Outside, Refuses
  <1>9. CASE FetchMore
    BY <1>9 DEF FetchMore, batch, memory, result, Outside, Refuses
  <1>10. CASE MoreFetched
    BY <1>10 DEF MoreFetched, GoesOn, Returns, batch, memory, result, Outside, Refuses
  <1>11. CASE TimesOut
    BY <1>11 DEF TimesOut, Returns, batch, memory, result, Outside, Refuses
  <1>12. CASE FetchFails
    BY <1>12 DEF FetchFails, Killed, batch, memory, result, Outside, Refuses
  <1>13. CASE FetchRefused
    BY <1>13 DEF FetchRefused, Returns, batch, memory, result, Outside, Refuses
  <1>14. CASE Resumed
    BY <1>14, Reply, ResumptionType DEF Resumed, batch, memory, result, Outside, Refuses
  <1>15. CASE ResumeFails \/ ResumeTimesOut
    BY <1>15 DEF ResumeFails, ResumeTimesOut, Returns, batch, memory, result, Outside, Refuses
  <1>16. ASSUME NEW e \in 1 .. Len(log), Take(e)
       PROVE  Outside'
    BY <1>16, NoneAssumption DEF Take, Returns, batch, memory, result, Outside, Refuses
  <1>17. CASE UNCHANGED vars
    BY <1>17 DEF vars, batch, memory, result, Outside, Refuses
  <1> QED
    BY <1>1, <1>2, <1>3, <1>4, <1>5, <1>6, <1>7, <1>8, <1>9, <1>10, <1>11, <1>12, <1>13, <1>14, <1>15, <1>16, <1>17 DEF Next, Iterate

\* The place a resumption starts from is one the caller has reached.
LEMMA ResumptionPlace ==
  ASSUME Inductive, at = "resuming"
  PROVE  /\ told # None /\ Position(Resumption) \in 0 .. Len(log)
         /\ told <= Position(Resumption)
         /\ EventsIn(told, Position(Resumption)) = {}
  <1>1. told # None /\ Taken /\ told \in Nat
    BY NoneAssumption DEF Inductive, TypeOK, Outside, Places
  <1>2. CASE token # None
    BY <1>1, <1>2 DEF Inductive, TypeOK, Memory, Resumption, Position
  <1>3. CASE token = None /\ saved # None
    BY <1>1, <1>3 DEF Inductive, TypeOK, Memory, Resumption, Position
  <1>4. CASE token = None /\ saved = None
    <2>1. first.by # "now" /\ told = first.at /\ Resumption = first
      BY <1>1, <1>4 DEF Inductive, Memory, Resumption
    <2>2. EventsIn(told, told) = {}
      BY <1>1 DEF EventsIn, Feed!EventsIn
    <2> QED
      BY <1>1, <2>1, <2>2 DEF Inductive, TypeOK, Position
  <1> QED
    BY <1>2, <1>3, <1>4

LEMMA BatchStep ==
  ASSUME Inductive, [Next]_vars
  PROVE  Batch'
  <1> USE DEF Inductive
  <1>1. ASSUME NEW kind \in Kinds, Write(kind)
       PROVE  Batch'
    <2>1. UNCHANGED <<told, read, upto, pbrt>>
      BY <1>1 DEF Write, batch, memory, result
    <2> SUFFICES ASSUME told # None
                 PROVE  Batch'
      BY <2>1 DEF Batch
    <2>2. \A p \in 1 .. Len(log) : log'[p] = log[p]
      BY <1>1, LogGrows DEF Write
    <2>3. \A p \in told + 1 .. upto : log'[p] = log[p]
      BY <2>2, Bounds
    <2>4. /\ EventsIn(told, read)' = EventsIn(told, read)
          /\ EventsIn(read, upto)' = EventsIn(read, upto)
      <3>1. told <= read /\ read <= upto
        BY DEF Batch
      <3>2. (\A p \in told + 1 .. read : log'[p] = log[p])
            /\ (\A p \in read + 1 .. upto : log'[p] = log[p])
        BY <2>3, <3>1, Bounds
      <3> HIDE DEF Inductive
      <3> QED
        BY <2>1, <3>2 DEF EventsIn, Feed!EventsIn
    <2>5. \A p \in EventsIn(read, upto) : log'[p] = log[p]
      BY <2>2, Bounds DEF EventsIn, Feed!EventsIn
    <2> QED
      BY <2>1, <2>4, <2>5 DEF Batch
  <1>2. CASE DropCursor
    BY <1>2 DEF DropCursor, batch, memory, result, Batch, EventsIn, Feed!EventsIn
  <1>3. ASSUME NEW by \in Starts, NEW position \in 0 .. Len(log), Watch([by |-> by, at |-> position])
       PROVE  Batch'
    BY <1>3 DEF Watch, batch, memory, result, Batch, EventsIn, Feed!EventsIn
  <1>4. CASE Opened
    <2>1. first \in [by: Starts, at: 0 .. Len(log)] /\ Answered(first)
          /\ told' = Position(first) /\ log' = log
      BY <1>4 DEF Opened, TypeOK
    <2>2. told' \in Nat /\ told' = read'
      BY <2>1, Reply
    <2>3. EventsIn(told, read)' = {}
      BY <2>1, <2>2 DEF EventsIn, Feed!EventsIn
    <2>4. /\ upto' \in Nat /\ read' <= upto' /\ (pbrt' # None => pbrt' = upto')
          /\ \A p \in EventsIn(read', upto') : log[p] = "invalidate" => p = upto'
      BY <2>1, Reply
    <2>5. \A p \in EventsIn(read, upto)' : log'[p] = "invalidate" => p = upto'
      BY <2>1, <2>4 DEF EventsIn, Feed!EventsIn
    <2> QED
      BY <2>2, <2>3, <2>4, <2>5 DEF Batch
  <1>5. CASE OpenFails
    BY <1>5 DEF OpenFails, batch, memory, result, Batch, EventsIn, Feed!EventsIn
  <1>6. CASE Close
    BY <1>6 DEF Close, Killed, batch, memory, result, Batch, EventsIn, Feed!EventsIn
  <1>7. ASSUME NEW kind \in {"next", "try"}, Call(kind)
       PROVE  Batch'
    BY <1>7 DEF Call, Killed, batch, memory, result, Batch, EventsIn, Feed!EventsIn
  <1>8. CASE Exhausted
    BY <1>8 DEF Exhausted, Returns, batch, memory, result, Batch, EventsIn, Feed!EventsIn
  <1>9. CASE FetchMore
    BY <1>9 DEF FetchMore, batch, memory, result, Batch, EventsIn, Feed!EventsIn
  <1>10. CASE MoreFetched
    <2>1. PICK to \in upto .. Len(log) :
            /\ Readable(upto, to) /\ read' = upto /\ upto' = to
            /\ pbrt' = IF pbrt # None THEN to ELSE None
      BY <1>10 DEF MoreFetched
    <2>2. told # None /\ Taken /\ told' = told /\ log' = log
      BY <1>10 DEF MoreFetched, Outside, Places
    <2>3. told \in Nat /\ read \in Nat /\ upto \in Nat
      BY <2>2 DEF TypeOK
    <2>4. EventsIn(told, upto) = {}
      BY <2>2, <2>3, NoEvents DEF Batch, Taken
    <2>5. told <= upto /\ upto <= to
      BY <2>1, <2>2, <2>3 DEF TypeOK, Batch
    <2>6. \A p \in EventsIn(upto, to) : log[p] = "invalidate" => p = to
      BY <2>1 DEF Readable
    <2> QED
      BY <2>1, <2>2, <2>4, <2>5, <2>6 DEF Batch, EventsIn, Feed!EventsIn
  <1>11. CASE TimesOut
    BY <1>11 DEF TimesOut, Returns, batch, memory, result, Batch, EventsIn, Feed!EventsIn
  <1>12. CASE FetchFails
    BY <1>12 DEF FetchFails, Killed, batch, memory, result, Batch, EventsIn, Feed!EventsIn
  <1>13. CASE FetchRefused
    BY <1>13 DEF FetchRefused, Returns, batch, memory, result, Batch, EventsIn, Feed!EventsIn
  <1>14. CASE Resumed
    BY <1>14, Reply, ResumptionType, ResumptionPlace DEF Resumed, batch, memory, result, Batch, EventsIn, Feed!EventsIn
  <1>15. CASE ResumeFails \/ ResumeTimesOut
    BY <1>15 DEF ResumeFails, ResumeTimesOut, Returns, batch, memory, result, Batch, EventsIn, Feed!EventsIn
  <1>16. ASSUME NEW e \in 1 .. Len(log), Take(e)
       PROVE  Batch'
    <2>1. /\ read' = e /\ told' = e /\ upto' = upto /\ pbrt' = pbrt /\ log' = log
          /\ e \in EventsIn(read, upto)
      BY <1>16 DEF Take, Feed!IsNext, EventsIn
    <2>2. told # None
      BY <1>16 DEF Take, Outside
    <2> QED
      BY <2>1, <2>2 DEF TypeOK, Batch, EventsIn, Feed!EventsIn
  <1>17. CASE UNCHANGED vars
    BY <1>17 DEF vars, batch, memory, result, Batch, EventsIn, Feed!EventsIn
  <1> QED
    BY <1>1, <1>2, <1>3, <1>4, <1>5, <1>6, <1>7, <1>8, <1>9, <1>10, <1>11, <1>12, <1>13, <1>14, <1>15, <1>16, <1>17 DEF Next, Iterate

LEMMA MemoryStep ==
  ASSUME Inductive, [Next]_vars
  PROVE  Memory'
  <1> USE DEF Inductive
  <1>1. ASSUME NEW kind \in Kinds, Write(kind)
       PROVE  Memory'
    <2>1. UNCHANGED <<told, read, upto, token, saved, seen, first>>
      BY <1>1 DEF Write, batch, memory, result
    <2>2. token # None => token \in 0 .. Len(log)
      BY DEF TypeOK
    <2>3. saved # None => saved \in 0 .. Len(log)
      BY DEF TypeOK
    <2>4. told # None => told \in 0 .. Len(log)
      BY DEF TypeOK
    <2>5. \A p \in 1 .. Len(log) : log'[p] = log[p]
      BY <1>1, LogGrows DEF Write
    <2>6. Taken' <=> Taken
      BY <2>1, <2>5, Bounds DEF Taken, EventsIn, Feed!EventsIn
    <2> QED
      BY <2>1, <2>2, <2>3, <2>4, <2>5, <2>6 DEF Memory, EventsIn, Feed!EventsIn
  <1>2. CASE DropCursor
    BY <1>2 DEF DropCursor, batch, memory, result, Memory, Taken, EventsIn, Feed!EventsIn
  <1>3. ASSUME NEW by \in Starts, NEW position \in 0 .. Len(log), Watch([by |-> by, at |-> position])
       PROVE  Memory'
    BY <1>3 DEF Watch, result, Outside, Memory
  <1>4. CASE Opened
    <2>1. first \in [by: Starts, at: 0 .. Len(log)] /\ Answered(first)
          /\ told' = Position(first) /\ log' = log /\ first' = first /\ seen' = seen
      BY <1>4 DEF Opened, TypeOK
    <2>2. /\ told' \in Nat /\ told' = read' /\ read' <= upto'
          /\ upto' \in Nat /\ upto' <= Len(log)
      BY <2>1, Reply
    <2>3. ~seen /\ saved = None
          /\ token = IF first.by \in {"resumeAfter", "startAfter"} THEN first.at ELSE None
      BY <1>4 DEF Opened, Outside
    <2>4. first.by # "now" => told' = first.at
      BY <2>1 DEF Position
    <2>5. \/ token' = token
          \/ token' = upto' /\ EventsIn(read', upto') = {}
      BY <2>1, Reply
    <2>6. token' # None => told' <= token' /\ EventsIn(told', token') = {}
      <3>1. EventsIn(told', told') = {}
        BY <2>2 DEF EventsIn, Feed!EventsIn
      <3> QED
        BY <2>2, <2>3, <2>4, <2>5, <3>1
    <2>7. saved' # None => saved' = Len(log) /\ EventsIn(read', Len(log)) = {}
      BY <2>1, <2>3, Reply
    <2>8. first.by = "now" /\ EventsIn(read', upto') = {} => token' # None \/ saved' # None
      BY <2>1, Reply
    <2>9. first.by \in {"resumeAfter", "startAfter"} => token' # None
      <3>1. first.at # None
        BY NoneAssumption DEF TypeOK
      <3> QED
        BY <2>1, <2>3, <3>1, Reply
    <2>10. Len(log) \in Nat
      BY DEF TypeOK
    <2>11. (token # None => told <= token /\ EventsIn(told, token) = {})'
      BY <2>1, <2>6 DEF EventsIn, Feed!EventsIn
    <2>12. (saved # None => told <= saved /\ EventsIn(told, saved) = {})'
      <3>1. saved' # None => told' <= saved' /\ EventsIn(told', saved') = {}
        BY <2>2, <2>7, <2>10
      <3> QED
        BY <2>1, <3>1 DEF EventsIn, Feed!EventsIn
    <2>13. (first.by = "now" /\ token = None /\ saved = None => ~Taken)'
      BY <2>1, <2>8 DEF Taken, EventsIn, Feed!EventsIn
    <2> QED
      BY <2>1, <2>3, <2>4, <2>9, <2>11, <2>12, <2>13 DEF Memory
  <1>5. CASE OpenFails
    BY <1>5 DEF OpenFails, batch, memory, result, Memory, Taken, EventsIn, Feed!EventsIn
  <1>6. CASE Close
    BY <1>6 DEF Close, Killed, batch, memory, result, Memory, Taken, EventsIn, Feed!EventsIn
  <1>7. ASSUME NEW kind \in {"next", "try"}, Call(kind)
       PROVE  Memory'
    BY <1>7 DEF Call, Killed, batch, memory, result, Memory, Taken, EventsIn, Feed!EventsIn
  <1>8. CASE Exhausted
    BY <1>8 DEF Exhausted, Returns, batch, memory, result, Memory, Taken, EventsIn, Feed!EventsIn
  <1>9. CASE FetchMore
    BY <1>9 DEF FetchMore, batch, memory, result, Memory, Taken, EventsIn, Feed!EventsIn
  <1>10. CASE MoreFetched
    <2>1. PICK to \in upto .. Len(log) :
            /\ read' = upto /\ upto' = to
            /\ token' = IF pbrt # None /\ EventsIn(upto, to) = {} THEN to ELSE token
      BY <1>10 DEF MoreFetched
    <2>2. told # None /\ Taken /\ UNCHANGED <<told, log, first, saved, seen>>
      BY <1>10 DEF MoreFetched, Outside, Places
    <2>3. told \in Nat /\ read \in Nat /\ upto \in Nat /\ to \in Nat /\ to # None
      BY <2>1, <2>2, NoneAssumption DEF TypeOK
    <2>4. EventsIn(told, upto) = {} /\ told <= upto /\ upto <= to
      BY <2>1, <2>2, <2>3, NoEvents DEF TypeOK, Batch, Taken
    <2>5. token' # None => told <= token' /\ EventsIn(told, token') = {}
      BY <2>1, <2>2, <2>3, <2>4, NoEvents DEF Memory
    <2>6. token # None => token' # None
      BY <2>1, <2>3
    <2> QED
      BY <2>2, <2>5, <2>6 DEF Memory, EventsIn, Feed!EventsIn
  <1>11. CASE TimesOut
    BY <1>11 DEF TimesOut, Returns, batch, memory, result, Memory, Taken, EventsIn, Feed!EventsIn
  <1>12. CASE FetchFails
    BY <1>12 DEF FetchFails, Killed, batch, memory, result, Memory, Taken, EventsIn, Feed!EventsIn
  <1>13. CASE FetchRefused
    BY <1>13 DEF FetchRefused, Returns, batch, memory, result, Memory, Taken, EventsIn, Feed!EventsIn
  <1>14. CASE Resumed
    <2> DEFINE start == Resumption
    <2>1. start \in [by: Starts, at: 0 .. Len(log)] /\ Answered(start)
          /\ UNCHANGED <<log, first, told, seen>>
      BY <1>14, ResumptionType DEF Resumed, result
    <2>2. /\ told # None /\ told \in Nat /\ told <= read' /\ EventsIn(told, read') = {}
          /\ read' \in Nat /\ read' <= upto' /\ upto' \in Nat /\ upto' <= Len(log)
      BY <1>14, <2>1, ResumptionPlace, Reply DEF Resumed, TypeOK
    <2>3. \/ token' = token
          \/ token' = upto' /\ EventsIn(read', upto') = {}
      BY <2>1, Reply
    <2>4. token' # None => told <= token' /\ EventsIn(told, token') = {}
      BY <2>2, <2>3, NoEvents DEF Memory
    <2>5. \/ saved' = saved
          \/ saved' = Len(log) /\ EventsIn(read', Len(log)) = {}
      BY <2>1, Reply
    <2>6. saved' # None /\ ~seen => told <= saved' /\ EventsIn(told, saved') = {}
      <3>1. Len(log) \in Nat /\ told <= Len(log)
        BY <2>2 DEF TypeOK
      <3> QED
        BY <2>2, <2>5, <3>1, NoEvents DEF Memory
    <2>7. /\ first.by = "now" /\ EventsIn(read', upto') = {} => token' # None \/ saved' # None
          /\ token # None => token' # None
      BY <2>1, Reply
    <2>8. /\ seen => token' # None
          /\ ~seen /\ first.by # "now" => told = first.at
          /\ first.by \in {"resumeAfter", "startAfter"} => token' # None
      BY <2>2, <2>7 DEF Memory
    <2> QED
      BY <2>1, <2>4, <2>6, <2>7, <2>8 DEF Memory, Taken, EventsIn, Feed!EventsIn
  <1>15. CASE ResumeFails \/ ResumeTimesOut
    BY <1>15 DEF ResumeFails, ResumeTimesOut, Returns, batch, memory, result, Memory, Taken, EventsIn, Feed!EventsIn
  <1>16. ASSUME NEW e \in 1 .. Len(log), Take(e)
       PROVE  Memory'
    <2>1. /\ UNCHANGED <<log, upto, pbrt, saved, first>> /\ token' = TokenOf(e)
          /\ told' = e /\ seen' = TRUE
      BY <1>16 DEF Take
    <2>2. told # None /\ e \in Nat /\ e # None /\ e <= upto /\ upto \in Nat
      <3>1. e \in Nat /\ e <= upto
        BY <1>16 DEF TypeOK, Take, Feed!IsNext, Feed!EventsIn
      <3> QED
        BY <1>16, <3>1, NoneAssumption DEF Take, Outside, TypeOK
    <2>3. token' # None /\ e <= token' /\ EventsIn(e, token') = {}
      <3>1. CASE pbrt # None /\ EventsIn(e, upto) = {}
        BY <2>1, <2>2, <3>1 DEF TokenOf, Batch
      <3>2. CASE ~(pbrt # None /\ EventsIn(e, upto) = {})
        <4>1. token' = e
          BY <2>1, <3>2 DEF TokenOf
        <4>2. EventsIn(e, e) = {}
          BY <2>2 DEF EventsIn, Feed!EventsIn
        <4> QED
          BY <2>2, <4>1, <4>2
      <3> QED
        BY <3>1, <3>2
    <2> QED
      BY <2>1, <2>3 DEF Memory, EventsIn, Feed!EventsIn
  <1>17. CASE UNCHANGED vars
    BY <1>17 DEF vars, batch, memory, result, Memory, Taken, EventsIn, Feed!EventsIn
  <1> QED
    BY <1>1, <1>2, <1>3, <1>4, <1>5, <1>6, <1>7, <1>8, <1>9, <1>10, <1>11, <1>12, <1>13, <1>14, <1>15, <1>16, <1>17 DEF Next, Iterate

LEMMA PlacesStep ==
  ASSUME Inductive, [Next]_vars
  PROVE  Places'
  <1> USE DEF Inductive
  <1>1. ASSUME NEW kind \in Kinds, Write(kind)
       PROVE  Places'
    <2>1. \A p \in 1 .. Len(log) : log'[p] = log[p]
      BY <1>1, LogGrows DEF Write
    <2>2. Taken' <=> Taken
      BY <1>1, <2>1 DEF Write, batch, TypeOK, Taken, EventsIn, Feed!EventsIn
    <2> QED
      BY <1>1, <2>2 DEF Write, Places
  <1>2. CASE DropCursor
    BY <1>2 DEF DropCursor, batch, memory, result, Places, Taken, EventsIn, Feed!EventsIn
  <1>3. ASSUME NEW by \in Starts, NEW position \in 0 .. Len(log), Watch([by |-> by, at |-> position])
       PROVE  Places'
    BY <1>3 DEF Watch, batch, memory, result, Places, Taken, EventsIn, Feed!EventsIn
  <1>4. CASE Opened
    BY <1>4 DEF Opened, Outside, Places
  <1>5. CASE OpenFails
    BY <1>5 DEF OpenFails, batch, memory, result, Places, Taken, EventsIn, Feed!EventsIn
  <1>6. CASE Close
    BY <1>6 DEF Close, Killed, batch, memory, result, Places, Taken, EventsIn, Feed!EventsIn
  <1>7. ASSUME NEW kind \in {"next", "try"}, Call(kind)
       PROVE  Places'
    BY <1>7 DEF Call, Killed, batch, memory, result, Places, Taken, EventsIn, Feed!EventsIn
  <1>8. CASE Exhausted
    BY <1>8 DEF Exhausted, Returns, batch, memory, result, Places, Taken, EventsIn, Feed!EventsIn
  <1>9. CASE FetchMore
    BY <1>9 DEF FetchMore, batch, memory, result, Places, Taken, EventsIn, Feed!EventsIn
  <1>10. CASE MoreFetched
    BY <1>10 DEF MoreFetched, GoesOn, Returns, batch, memory, result, Places, Taken, EventsIn, Feed!EventsIn
  <1>11. CASE TimesOut
    BY <1>11 DEF TimesOut, Returns, batch, memory, result, Places, Taken, EventsIn, Feed!EventsIn
  <1>12. CASE FetchFails
    BY <1>12 DEF FetchFails, Killed, batch, memory, result, Places, Taken, EventsIn, Feed!EventsIn
  <1>13. CASE FetchRefused
    BY <1>13 DEF FetchRefused, Returns, batch, memory, result, Places, Taken, EventsIn, Feed!EventsIn
  <1>14. CASE Resumed
    BY <1>14 DEF Resumed, batch, memory, result, Places, Taken, EventsIn, Feed!EventsIn
  <1>15. CASE ResumeFails \/ ResumeTimesOut
    BY <1>15 DEF ResumeFails, ResumeTimesOut, Returns, batch, memory, result, Places, Taken, EventsIn, Feed!EventsIn
  <1>16. ASSUME NEW e \in 1 .. Len(log), Take(e)
       PROVE  Places'
    BY <1>16 DEF Take, Returns, batch, memory, result, Places, Taken, EventsIn, Feed!EventsIn
  <1>17. CASE UNCHANGED vars
    BY <1>17 DEF vars, batch, memory, result, Places, Taken, EventsIn, Feed!EventsIn
  <1> QED
    BY <1>1, <1>2, <1>3, <1>4, <1>5, <1>6, <1>7, <1>8, <1>9, <1>10, <1>11, <1>12, <1>13, <1>14, <1>15, <1>16, <1>17 DEF Next, Iterate

LEMMA EndingsStep ==
  ASSUME Inductive, [Next]_vars
  PROVE  Endings'
  <1> USE DEF Inductive
  <1>1. ASSUME NEW kind \in Kinds, Write(kind)
       PROVE  Endings'
    <2>1. \A p \in 1 .. Len(log) : log'[p] = log[p]
      BY <1>1, LogGrows DEF Write
    <2>2. UNCHANGED <<cursor, read, upto, told, seen, failed, cut, late, at>>
      BY <1>1 DEF Write, batch, result
    <2>3. (Taken' <=> Taken) /\ (Untaken' <=> Untaken)
      BY <2>1, <2>2, Bounds DEF Taken, Untaken, EventsIn, Feed!EventsIn
    <2>4. told # None => (Feed!Over' <=> Feed!Over)
      <3>1. told # None /\ seen => told \in 1 .. Len(log)
        BY DEF TypeOK, Memory
      <3> QED
        BY <2>1, <2>2, <3>1 DEF Feed!Over
    <2> QED
      BY <2>2, <2>3, <2>4 DEF Endings
  <1>2. CASE DropCursor
    BY <1>2 DEF DropCursor, batch, memory, result, Endings, Places, Untaken, Taken, EventsIn, Feed!EventsIn, Feed!Over
  <1>3. ASSUME NEW by \in Starts, NEW position \in 0 .. Len(log), Watch([by |-> by, at |-> position])
       PROVE  Endings'
    BY <1>3 DEF Watch, batch, memory, result, Endings, Places, Untaken, Taken, EventsIn, Feed!EventsIn, Feed!Over
  <1>4. CASE Opened
    <2>1. first \in [by: Starts, at: 0 .. Len(log)] /\ Answered(first)
          /\ at' = "idle" /\ log' = log /\ ~seen' /\ ~late'
      BY <1>4 DEF Opened, TypeOK, Outside
    <2>2. cursor' = "none" <=> Untaken'
      BY <2>1, Reply DEF Untaken, Invalidates, EventsIn, Feed!EventsIn
    <2> QED
      BY <2>1, <2>2 DEF Endings, Feed!Over
  <1>5. CASE OpenFails
    BY <1>5 DEF OpenFails, batch, memory, result, Endings, Places, Untaken, Taken, EventsIn, Feed!EventsIn, Feed!Over
  <1>6. CASE Close
    BY <1>6 DEF Close, Killed, batch, memory, result, Endings, Places, Untaken, Taken, EventsIn, Feed!EventsIn, Feed!Over
  <1>7. ASSUME NEW kind \in {"next", "try"}, Call(kind)
       PROVE  Endings'
    BY <1>7 DEF Call, Killed, batch, memory, result, Endings, Places, Untaken, Taken, EventsIn, Feed!EventsIn, Feed!Over
  <1>8. CASE Exhausted
    BY <1>8 DEF Exhausted, Returns, batch, memory, result, Endings, Places, Untaken, Taken, EventsIn, Feed!EventsIn, Feed!Over
  <1>9. CASE FetchMore
    BY <1>9 DEF FetchMore, batch, memory, result, Endings, Places, Untaken, Taken, EventsIn, Feed!EventsIn, Feed!Over
  <1>10. CASE MoreFetched
    <2>1. PICK to \in upto .. Len(log) :
            /\ read' = upto /\ upto' = to
            /\ cursor' = IF Invalidates(upto, to) THEN "none" ELSE "open"
            /\ GoesOn(EventsIn(upto, to) = {})
      BY <1>10 DEF MoreFetched
    <2>2. told # None /\ ~Feed!Over /\ UNCHANGED <<told, log, seen>>
      BY <1>10 DEF MoreFetched, Outside, Endings
    <2>3. ~Feed!Over'
      BY <2>2 DEF Feed!Over
    <2>4. cursor' = "none" <=> Untaken'
      BY <2>1, <2>2 DEF Untaken, Invalidates, EventsIn, Feed!EventsIn
    <2>5. at' \in {"looping", "idle"}
      BY <2>1 DEF GoesOn, Returns
    <2> QED
      BY <2>3, <2>4, <2>5 DEF Endings
  <1>11. CASE TimesOut
    BY <1>11 DEF TimesOut, Returns, batch, memory, result, Endings, Places, Untaken, Taken, EventsIn, Feed!EventsIn, Feed!Over
  <1>12. CASE FetchFails
    BY <1>12 DEF FetchFails, Killed, batch, memory, result, Endings, Places, Untaken, Taken, EventsIn, Feed!EventsIn, Feed!Over
  <1>13. CASE FetchRefused
    BY <1>13 DEF FetchRefused, Returns, batch, memory, result, Endings, Places, Untaken, Taken, EventsIn, Feed!EventsIn, Feed!Over
  <1>14. CASE Resumed
    <2>1. Answered(Resumption) /\ at' = "looping" /\ UNCHANGED <<log, told, seen>>
      BY <1>14 DEF Resumed, result
    <2>2. told # None /\ ~Feed!Over'
      BY <1>14, <2>1 DEF Resumed, Outside, Endings, Feed!Over
    <2>3. cursor' = "none" <=> Untaken'
      BY <2>1, ResumptionType, Reply DEF Untaken, Invalidates, EventsIn, Feed!EventsIn
    <2> QED
      BY <2>1, <2>2, <2>3 DEF Endings
  <1>15. CASE ResumeFails \/ ResumeTimesOut
    BY <1>15 DEF ResumeFails, ResumeTimesOut, Returns, batch, memory, result, Endings, Places, Untaken, Taken, EventsIn, Feed!EventsIn, Feed!Over
  <1>16. ASSUME NEW e \in 1 .. Len(log), Take(e)
       PROVE  Endings'
    <2>1. /\ e \in EventsIn(read, upto) /\ at' = "idle" /\ read' = e /\ told' = e /\ seen'
          /\ UNCHANGED <<log, cursor, upto, late, failed>>
      BY <1>16 DEF Take, Returns, Feed!IsNext, EventsIn
    <2>2. told # None /\ ~late /\ ~Taken /\ ~Feed!Over
      BY <1>16, <2>1 DEF Take, Outside, Places, Endings, Taken
    <2>3. Feed!Over' <=> log[e] = "invalidate"
      BY <2>1 DEF Feed!Over
    <2>4. log[e] = "invalidate" => e = upto /\ Untaken
      BY <2>1, <2>2 DEF Batch, Untaken
    <2>5. Untaken' => Untaken
      BY <2>1 DEF TypeOK, Untaken, EventsIn, Feed!EventsIn
    <2>6. Untaken => Untaken' \/ Feed!Over'
      BY <2>1, <2>3 DEF TypeOK, Untaken, EventsIn, Feed!EventsIn
    <2>7. e = upto => Taken'
      BY <2>1 DEF TypeOK, Taken, EventsIn, Feed!EventsIn
    <2> QED
      BY <1>16, <2>1, <2>2, <2>3, <2>4, <2>5, <2>6, <2>7 DEF Take, Endings
  <1>17. CASE UNCHANGED vars
    BY <1>17 DEF vars, batch, memory, result, Endings, Places, Untaken, Taken, EventsIn, Feed!EventsIn, Feed!Over
  <1> QED
    BY <1>1, <1>2, <1>3, <1>4, <1>5, <1>6, <1>7, <1>8, <1>9, <1>10, <1>11, <1>12, <1>13, <1>14, <1>15, <1>16, <1>17 DEF Next, Iterate

-----------------------------------------------------------------------------
(* The invariant, and what follows from it *)

LEMMA InitInductive == Init => Inductive
  <1> SUFFICES ASSUME Init PROVE Inductive
    OBVIOUS
  <1>1. log \in Seq(Kinds) /\ Len(log) = 0
    BY DEF Init
  <1>2. TypeOK
    <2>1. 0 \in 0 .. Len(log) /\ Len(log) <= MaxLog /\ faults \in 0 .. MaxFaults
      BY <1>1, BoundsAssumption DEF Init
    <2>2. first \in [by: Starts, at: 0 .. Len(log)]
      BY <2>1 DEF Init, Starts
    <2>3. pin = (LoadBalanced /\ cursor # "none")
      BY DEF Init
    <2> QED
      BY <1>1, <2>1, <2>2, <2>3 DEF Init, TypeOK
  <1>3. Outside /\ Places
    BY DEF Init, Outside, Places, Refuses
  <1>4. Batch /\ Memory /\ Endings
    BY DEF Init, Batch, Memory, Endings
  <1> QED
    BY <1>2, <1>3, <1>4 DEF Inductive

\* The stream is where its caller is: batch, tokens and the end of a cursor
\* agree with what the caller was told.
THEOREM StreamInvariant == Spec => []Inductive
  <1>1. Inductive /\ [Next]_vars => Inductive'
    BY TypeStep, OutsideStep, BatchStep, MemoryStep, PlacesStep, EndingsStep
       DEF Inductive
  <1> QED
    BY InitInductive, <1>1, PTL DEF Spec

\* Every variable holds a value of its kind, and a connection stays pinned
\* exactly as long as there is a cursor on it (kill_quietly, get_more).
THEOREM StreamTypes == Spec => []TypeOK
  <1>1. Inductive => TypeOK
    BY DEF Inductive
  <1> QED
    BY StreamInvariant, <1>1, PTL

\* The resume token is never behind the last event told, never beyond an event
\* not told, and never one the server refuses (apply_document_token,
\* apply_batch_token, resume_after_error).
THEOREM StreamTokenExact == Spec => []TokenExact
  <1>1. ASSUME Inductive
        PROVE  TokenExact
    <2> SUFFICES ASSUME told # None, token # None
                 PROVE  /\ told <= token /\ EventsIn(told, token) = {}
                        /\ ~Feed!Over => ~Refuses(Resumption, first.by)
      BY DEF TokenExact
    <2>1. told <= token /\ EventsIn(told, token) = {}
      BY <1>1 DEF Inductive, Memory
    <2>2. told \in Nat /\ token \in 0 .. Len(log)
      BY <1>1 DEF Inductive, TypeOK
    <2>3. ASSUME ~Feed!Over, Refuses(Resumption, first.by)
          PROVE  FALSE
      <3>1. /\ ~(first.by = "startAfter" /\ ~seen) /\ token > 0
            /\ first.by \in {"resumeAfter", "startAfter"} /\ log[token] = "invalidate"
        BY <2>3 DEF Refuses, Resumption
      <3>2. token = told
        BY <2>1, <2>2, <3>1 DEF EventsIn, Feed!EventsIn
      <3>3. ~seen /\ first.by = "resumeAfter"
        BY <2>3, <3>1, <3>2 DEF Feed!Over
      <3>4. told = first.at /\ ~Refuses(first, first.by)
        BY <1>1, <3>3 DEF Inductive, Memory, Outside
      <3> QED
        BY <3>1, <3>2, <3>3, <3>4 DEF Refuses
    <2> QED
      BY <2>1, <2>3
  <1> QED
    BY StreamInvariant, <1>1, PTL

-----------------------------------------------------------------------------
(* The refinement *)

\* An event that is taken is the first one the caller was not told of.
LEMMA TakeTells ==
  ASSUME Inductive, NEW e \in 1 .. Len(log), Take(e)
  PROVE  Feed!Tells(e)
  <1>1. told # None /\ told \in Nat /\ told <= read /\ EventsIn(told, read) = {}
    BY DEF Inductive, TypeOK, Outside, Batch, Take
  <1>2. Feed!IsNext(e, read, upto) /\ e \in EventsIn(read, upto)
    BY DEF Take, Feed!IsNext, EventsIn
  <1>3. ~Feed!Over
    BY <1>1, <1>2 DEF Inductive, Endings, Taken
  <1>4. e \in Feed!EventsIn(told, Len(log))
    BY <1>1, <1>2 DEF Inductive, TypeOK, EventsIn, Feed!EventsIn
  <1>5. ASSUME NEW p \in Feed!EventsIn(told, Len(log))
        PROVE  e <= p
    <2>1. p \in Nat /\ told < p /\ log[p] # "other"
      BY <1>1, <1>5 DEF Feed!EventsIn
    <2>2. read < p
      BY <1>1, <2>1 DEF Inductive, TypeOK, EventsIn, Feed!EventsIn
    <2>3. CASE p <= upto
      BY <1>2, <2>1, <2>2, <2>3 DEF Inductive, TypeOK, Feed!IsNext, Feed!EventsIn
    <2>4. CASE upto < p
      BY <1>2, <2>1, <2>4 DEF Inductive, TypeOK, EventsIn, Feed!EventsIn
    <2> QED
      BY <2>1, <2>3, <2>4 DEF Inductive, TypeOK
  <1> QED
    BY <1>1, <1>3, <1>4, <1>5 DEF Take, Returns, Feed!Tells, Feed!IsNext

\* A stream ends only after the event that ends it, or after it told why it was
\* not resumed, or after a resumption timed out.
LEMMA ExhaustedReturns ==
  ASSUME Inductive, Exhausted
  PROVE  \/ Feed!Returns(IF call = "next" THEN "stop" ELSE "nothing")
         \/ EndsByTimeout
  <1>1. told # None /\ (failed \/ cut \/ Feed!Over \/ Untaken) /\ Taken
    BY DEF Inductive, Outside, Endings, Exhausted
  <1>2. failed \/ cut \/ Feed!Over
    BY <1>1 DEF Untaken, Taken
  <1> QED
    BY <1>1, <1>2 DEF Exhausted, Returns, Feed!Returns, EndsByTimeout

LEMMA StepsFeed ==
  ASSUME Inductive, [Next]_vars
  PROVE  [Feed!Next \/ EndsByTimeout]_(Feed!vars)
  <1> DEFINE Silent == UNCHANGED <<log, told, seen, failed, last>>
  <1>1. ASSUME NEW kind \in Kinds, Write(kind)
        PROVE  Feed!Write(kind)
    BY <1>1 DEF Write, result, Feed!Write
  <1>2. CASE Opened
    <2>1. told = None /\ Position(first) \in 0 .. Len(log)
      BY <1>2 DEF Inductive, TypeOK, Outside, Opened, Position
    <2>2. Feed!Opens(Position(first))
      BY <1>2, <2>1 DEF Opened, Feed!Opens
    <2> QED
      BY <2>1, <2>2 DEF Feed!Next
  <1>3. CASE OpenFails \/ TimesOut \/ FetchRefused \/ ResumeTimesOut
    <2>1. Feed!Returns("error") \/ Feed!Returns("timeout")
      BY <1>3 DEF OpenFails, TimesOut, FetchRefused, ResumeTimesOut, Returns,
                  Feed!Returns
    <2> QED
      BY <2>1 DEF Feed!Next
  <1>4. CASE ResumeFails
    BY <1>4 DEF ResumeFails, Returns, Feed!Fails, Feed!Next
  <1>5. CASE Exhausted
    <2>1. (IF call = "next" THEN "stop" ELSE "nothing") \in 
            {"nothing", "stop", "error", "timeout"}
      OBVIOUS
    <2> QED
      BY <1>5, <2>1, ExhaustedReturns DEF Feed!Next
  <1>6. CASE MoreFetched
    <2>1. PICK empty \in BOOLEAN : GoesOn(empty)
      BY <1>6 DEF MoreFetched
    <2>2. UNCHANGED <<log, told, seen, failed>>
      BY <1>6 DEF MoreFetched
    <2>3. last' = last \/ last' \in {"nothing", "timeout"}
      BY <2>1 DEF GoesOn, Returns
    <2>4. Silent \/ Feed!Returns("nothing") \/ Feed!Returns("timeout")
      BY <2>2, <2>3 DEF Feed!Returns
    <2> QED
      BY <2>4 DEF Feed!Next, Feed!vars
  <1>7. ASSUME NEW e \in 1 .. Len(log), Take(e)
        PROVE  Feed!Next
    BY <1>7, TakeTells DEF Feed!Next
  <1>8. CASE DropCursor \/ FetchMore \/ FetchFails \/ Resumed \/ Close
    <2>1. Silent
      BY <1>8 DEF DropCursor, FetchMore, FetchFails, Resumed, Close, result
    <2> QED
      BY <2>1 DEF Feed!vars
  <1>9. ASSUME NEW by \in Starts, NEW position \in 0 .. Len(log),
               Watch([by |-> by, at |-> position])
        PROVE  Silent
    BY <1>9 DEF Watch, result
  <1>10. ASSUME NEW kind \in {"next", "try"}, Call(kind)
         PROVE  Silent
    BY <1>10 DEF Call, result
  <1>11. CASE UNCHANGED vars
    BY <1>11 DEF vars, result, Feed!vars
  <1>12. (\E kind \in Kinds : Write(kind)) => Feed!Next
    BY <1>1 DEF Feed!Next
  <1> HIDE DEF Silent
  <1>13. Silent => UNCHANGED Feed!vars
    BY DEF Silent, Feed!vars
  <1> QED
    BY <1>2, <1>3, <1>4, <1>5, <1>6, <1>7, <1>8, <1>9, <1>10, <1>11, <1>12, <1>13
       DEF Next, Iterate

\* A change stream tells every event once and in order, however often it is
\* resumed, and does not end without telling why, unless a resumption timed out
\* (see the run change_stream_timeout).
THEOREM StreamImplementsFeed == Spec => ImplementsFeed
  <1>1. Init => Feed!Init
    BY DEF Init, Feed!Init
  <1> QED
    BY StreamInvariant, StepsFeed, <1>1, PTL DEF Spec, ImplementsFeed, Feed!Spec
=============================================================================
