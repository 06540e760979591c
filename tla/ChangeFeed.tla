----------------------------- MODULE ChangeFeed -----------------------------
(***************************************************************************)
(* What a change stream promises to its caller: from where it was opened,  *)
(* every event of the watched namespace, once and in order; and an end only*)
(* after the event that ends it, or after an error that told of it, which a*)
(* timeout does not.                                                       *)
(***************************************************************************)
EXTENDS Naturals, Sequences

CONSTANTS
  None,    \* not open yet
  Kinds    \* of the entries in the server's log

VARIABLES
  log,     \* of the server, in the order of their times
  told,    \* the position in it up to which the caller knows the events
  seen,    \* the caller was told an event
  failed,  \* the caller was told the error for which it was not resumed
  last     \* what the last call returned

vars == <<log, told, seen, failed, last>>

\* Entries that are not "other" match the stream's pipeline.
EventsIn(from, to) == {p \in from + 1 .. to : log[p] # "other"}
IsNext(e, from, to) ==
  e \in EventsIn(from, to) /\ \A p \in EventsIn(from, to) : e <= p

Over == seen /\ log[told] = "invalidate"

Init ==
  /\ log = <<>> /\ told = None /\ seen = FALSE /\ failed = FALSE
  /\ last = "none"

Write(kind) == log' = Append(log, kind) /\ UNCHANGED <<told, seen, failed, last>>

Opens(position) ==
  /\ told = None /\ told' = position
  /\ last' = "nothing" /\ UNCHANGED <<log, seen, failed>>

Tells(e) ==
  /\ told # None /\ ~Over /\ IsNext(e, told, Len(log))
  /\ told' = e /\ seen' = TRUE /\ last' = "event"
  /\ UNCHANGED <<log, failed>>

Returns(result) ==
  /\ result = "stop" => failed \/ (told # None /\ Over)
  /\ last' = result /\ UNCHANGED <<log, told, seen, failed>>

Fails == failed' = TRUE /\ last' = "error" /\ UNCHANGED <<log, told, seen>>

Next ==
  \/ \E kind \in Kinds : Write(kind)
  \/ \E position \in 0 .. Len(log) : Opens(position)
  \/ \E e \in 1 .. Len(log) : Tells(e)
  \/ \E result \in {"nothing", "stop", "error", "timeout"} : Returns(result)
  \/ Fails

Spec == Init /\ [][Next]_vars
=============================================================================
