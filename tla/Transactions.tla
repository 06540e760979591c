---------------------------- MODULE Transactions ----------------------------
(***************************************************************************)
(* What a ClientSession decides about a transaction, without state of its  *)
(* own: the table of state_transition, what an error means (the labels the *)
(* driver adds to it or finds on it), and which errors are tried again.    *)
(* Sessions uses it for the running system.                                *)
(*                                                                         *)
(* An operation is of one of four kinds: a write outside a transaction, a  *)
(* statement inside one, a commit, an abort. How one of its attempts ends  *)
(* is "ok" or one of Failures:                                             *)
(*   unselected   no server, no connection: Error::ServerSelection,        *)
(*                Error::Connection; nothing was sent                      *)
(*   cleared      Error::PoolCleared from the checkout; nothing was sent   *)
(*   network      the connection broke after the command was sent          *)
(*   overload     a reply with SystemOverloadedError and RetryableError    *)
(*   retryable    a reply with RetryableWriteError                         *)
(*   noTransaction  a reply with TransientTransactionError                 *)
(*   refused      any other error the server replied                       *)
(*   local        the reply was good and could not be used (decryption,    *)
(*                parsing)                                                 *)
(***************************************************************************)

States == {"none", "starting", "inProgress", "committed", "aborted"}
Kinds == {"write", "statement", "commit", "abort"}
Failures == {"unselected", "cleared", "network", "overload", "retryable",
             "noTransaction", "refused", "local"}

\* starting? || in_progress?
Running(state) == state \in {"starting", "inProgress"}

Accepts_AbortAfterCommit(state, event) ==
  CASE event = "insert" -> TRUE
    [] event = "start"  -> ~Running(state)
    [] event = "commit" -> Running(state) \/ state = "committed"
    [] event = "abort"  -> Running(state) \/ state = "committed"

\* The pairs for which state_transition does not raise.
Accepts(state, event) ==
  CASE event = "insert" -> TRUE
    [] event = "start"  -> ~Running(state)
    [] event = "commit" -> Running(state) \/ state = "committed"
    [] event = "abort"  -> Running(state)

\* The state it goes to, before the command is sent.
After(state, event) ==
  CASE event = "insert" -> IF Running(state) THEN "inProgress" ELSE "none"
    [] event = "start"  -> "starting"
    [] event = "commit" -> "committed"
    [] event = "abort"  -> "aborted"

-----------------------------------------------------------------------------
(* Errors *)

\* state_transition re-raises Server, Network and Timeout errors as they are;
\* after any other one it restores the state, if it was asked to.
Restores(failure) == failure \in {"unselected", "local"}

\* Raised inside execute_command, which alone adds the transaction labels.
Executed(failure) == failure \notin {"unselected", "cleared"}

\* TransientTransactionError: found on the reply, or added by execute_command.
Transient(kind, failure) ==
  \/ failure = "noTransaction"
  \/ failure = "network" /\ kind # "commit"

\* UnknownTransactionCommitResult: execute_command adds it to a commit's error;
\* the loop of retryable writes adds it to every retryable one.
UnknownResult(kind, failure) ==
  failure \in {"network", "retryable", "cleared"} /\ kind # "statement"

\* execute_command unpins the session before it raises.
UnpinsAtOnce(kind, failure) ==
  /\ Executed(failure)
  /\ \/ Transient(kind, failure)
     \/ kind = "commit" /\ UnknownResult(kind, failure)

\* The failures after which the loop tries again, if attempts are left.
TriesAgain(kind, failure) ==
  IF kind = "statement"
  THEN failure \in {"overload", "cleared"}
  ELSE failure \in {"overload", "cleared", "network", "retryable"}

\* The number of retries allowed from now on. execute_retryable_write never
\* lowers it again; execute_once_or_overload_retry works it out every time.
Allowed(kind, failure, allowed, adaptive) ==
  IF failure = "overload" THEN adaptive
  ELSE IF kind = "statement" THEN 1 ELSE allowed
=============================================================================
