---------------------------- MODULE MCSessions ----------------------------
(* Small deployments and applications for Sessions. *)
EXTENDS Sessions, TLC

CONSTANTS f1, f2

Application ==
  [writers |-> {}, app |-> "none", balanced |-> FALSE, closes |-> FALSE,
   nested |-> FALSE, calls |-> 0, faults |-> 0]

Writing(fibers) == [Application EXCEPT !.writers = fibers]
Calling(mode) == [Application EXCEPT !.app = mode]

MCScenarios ==
  "writer" :> [Writing({f1}) EXCEPT !.calls = 3, !.faults = 3]
  @@ "writers" :> [Writing({f1, f2}) EXCEPT !.calls = 1, !.faults = 2]
  @@ "closing" :> [Writing({f1, f2}) EXCEPT !.closes = TRUE, !.calls = 1, !.faults = 1]
  @@ "recycling" :> [Writing({f1}) EXCEPT !.closes = TRUE, !.calls = 2, !.faults = 2]
  @@ "nested" :> [Writing({f2}) EXCEPT !.nested = TRUE, !.app = "calls",
                                       !.calls = 1, !.faults = 1]
  @@ "mixed" :> [Writing({f1}) EXCEPT !.app = "calls", !.calls = 2, !.faults = 1]
  @@ "ending" :> [Writing({f1}) EXCEPT !.app = "calls", !.closes = TRUE,
                                       !.calls = 1, !.faults = 1]
  @@ "overtaken" :> [Writing({f2}) EXCEPT !.app = "calls", !.closes = TRUE,
                                          !.calls = 1, !.faults = 0]
  @@ "calls" :> [Calling("calls") EXCEPT !.calls = 3, !.faults = 1]
  @@ "failing" :> [Calling("calls") EXCEPT !.calls = 2, !.faults = 2]
  @@ "balanced" :> [Calling("calls") EXCEPT !.balanced = TRUE, !.calls = 3, !.faults = 1]
  @@ "shared" :> [Writing({f2}) EXCEPT !.app = "calls", !.balanced = TRUE,
                                       !.calls = 1, !.faults = 1]
  @@ "with" :> [Calling("with") EXCEPT !.calls = 3, !.faults = 2]

MCNestedRetry == "nested" :> [Writing({f1}) EXCEPT !.nested = TRUE, !.calls = 1, !.faults = 1]
=============================================================================
