---------------------------- MODULE BatchTransact ----------------------------
(***************************************************************************)
(* BatchTransaction of the Artemis adapter: a list of canister calls run   *)
(* one after the other, in groups that end where a step feeds its result   *)
(* to the next (updateNextStep), resumed after a failure by retryExecute   *)
(* or started over by execute.  The wallets that run the calls themselves  *)
(* (every wallet but Plug, which takes a group at a time).                 *)
(*                                                                         *)
(* Steps are numbered by their stepIndex.  _prepareTrxArry wraps the two   *)
(* callbacks of each step in place: a wrapper finds its step through the   *)
(* position that step had in trxArray when it was wrapped, and wrapping    *)
(* once more nests the wrappers.                                           *)
(***************************************************************************)
EXTENDS Naturals, FiniteSets, Sequences

CONSTANTS
  N,            \* how many steps the batch has
  Shapes,       \* the batches considered: [ends, callbacks, methods]
  MaxPrepares,  \* bound: calls of execute that prepare the steps
  MaxRetries,   \* bound: calls of retryExecute
  MaxFailures,  \* bound: calls that do not succeed
  None          \* undefined

Steps == 1 .. N

ShapesAssumption ==
  /\ N \in Nat \ {0}
  /\ Shapes \subseteq [ends : SUBSET Steps, callbacks : SUBSET Steps, methods : SUBSET Steps]
  /\ MaxPrepares \in Nat /\ MaxRetries \in Nat /\ MaxFailures \in Nat
  /\ None \notin Steps \cup (Nat \X Nat)

VARIABLES
  shape,    \* the steps with updateNextStep, with callbacks, with a methodName
  batch,    \* the fields of the BatchTransaction
  cursor,   \* group and index of _processBatch's loops, None when it is not running
  wraps,    \* how many wrappers each callback has
  fed,      \* whose result updateNextStep last put into each step's arguments
  runs,     \* history: how often the canister has executed each step
  doubtful, \* history: steps a canister executed although the call failed
  retries,  \* history: calls of retryExecute
  failures  \* history: calls that did not succeed

vars == <<shape, batch, cursor, wraps, fed, runs, doubtful, retries, failures>>

Fields ==
  [state : {"idle", "running", "error", "done"}, trxArray : Seq(Seq(Steps)),
   stepState : [Steps -> {"idle", "done", "error"}], completed : Seq(Steps),
   FailedSteps : Seq(Steps), activeStep : Steps \cup {None},
   results : [Steps -> Steps \cup {None}]]

TypeOK ==
  /\ shape \in Shapes
  /\ batch \in Fields
  /\ cursor = None \/ cursor \in Nat \X Nat
  /\ wraps \in 0 .. MaxPrepares /\ retries \in 0 .. MaxRetries /\ failures \in 0 .. MaxFailures
  /\ fed \in [Steps -> Steps \cup {None}]
  /\ runs \in [Steps -> Nat]
  /\ doubtful \subseteq Steps

----------------------------------------------------------------------------
(* Where steps are.                                                        *)

GroupOf(s) == 1 + Cardinality({e \in shape.ends : e < s})
Members(g) == {s \in Steps : GroupOf(s) = g}
FirstOf(g) == CHOOSE s \in Members(g) : \A r \in Members(g) : s <= r

\* trxArray as _prepareTrxArry builds it: a group ends at each updateNextStep.
Prepared ==
  [g \in 1 .. GroupOf(N) |-> [k \in 1 .. Cardinality(Members(g)) |-> FirstOf(g) + k - 1]]

\* The position a step's wrappers were made for.
Index(s) == s - FirstOf(GroupOf(s)) + 1

\* trxArray[i][j]: undefined where nothing is.
At(trxArray, i, j) ==
  IF i \in DOMAIN trxArray /\ j \in DOMAIN trxArray[i] THEN trxArray[i][j] ELSE None

\* The first position from group i, index k on, in the order of the loops.
Following(trxArray, i, k) ==
  LET Nonempty == {g \in i + 1 .. Len(trxArray) : trxArray[g] # <<>>}
  IN  IF i \in DOMAIN trxArray /\ k <= Len(trxArray[i]) THEN <<i, k>>
      ELSE IF Nonempty # {} THEN <<CHOOSE g \in Nonempty : \A h \in Nonempty : g <= h, 1>>
      ELSE None

----------------------------------------------------------------------------
(* The wrapped callbacks.                                                  *)

\* stepsList[stepIndex]: undefined past the end.
Step(n) == IF n \in Steps THEN n ELSE None

\* A step as often as there are wrappers.
Times(e, n) == [k \in 1 .. n |-> e]

\* n onSuccess wrappers that find step e, for an answer with or without an
\* error in it.
Note(b, e, s, ok, n) ==
  CASE n = 0 -> b
    [] n > 0 /\ ok ->
         [b EXCEPT !.completed = @ \o Times(e, n), !.activeStep = Step(e + 1),
                   !.results[e] = s, !.stepState[e] = "done"]
    [] n > 0 /\ ~ok ->
         [b EXCEPT !.FailedSteps = @ \o Times(e, n), !.results[e] = s,
                   !.stepState[e] = "error", !.state = "error"]

\* A wrong variant, to be refuted: the failed step is not listed.
NoteFailureUnlisted(b, e, n) ==
  [b EXCEPT !.activeStep = e, !.stepState[e] = "error", !.state = "error"]

\* n onFail wrappers that find step e.
NoteFailure(b, e, n) ==
  [b EXCEPT !.FailedSteps = @ \o Times(e, n), !.activeStep = e, !.stepState[e] = "error",
            !.state = "error"]

\* What awaiting a callback leaves: the fields, and whether it threw.
Result(b, threw) == [fields |-> b, threw |-> threw]

\* onSuccess(resp) of step s.  The wrappers are asynchronous: the outermost
\* throws when it finds no step; what an inner one throws is lost, and the
\* innermost throws when the step came without a callback of its own.
OnSuccess(b, s, ok) ==
  LET e == At(b.trxArray, GroupOf(s), Index(s))
      own == s \in shape.callbacks
  IN  IF e = None THEN Result(b, TRUE)
      ELSE Result(Note(b, e, s, ok, IF own THEN wraps ELSE wraps - 1), ~own /\ wraps = 1)

\* onFail(resp) of step s: synchronous, so whatever throws inside ends it
\* before anything is noted.
OnFail(b, s) ==
  LET e == At(b.trxArray, GroupOf(s), Index(s))
  IN  IF e = None \/ s \notin shape.callbacks THEN Result(b, TRUE)
      ELSE Result(NoteFailure(b, e, wraps), FALSE)

\* Without a methodName onFail is called twice.
OnNoMethod(b, s) ==
  LET first == OnFail(b, s) IN IF first.threw THEN first ELSE OnFail(first.fields, s)

\* A wrong variant, to be refuted: the first step of the same group is fed.
FedSameGroup(s) ==
  LET e == At(batch.trxArray, GroupOf(s), Index(s))
  IN  IF e \in shape.ends /\ (s \in shape.callbacks \/ wraps > 1)
      THEN At(batch.trxArray, GroupOf(s), 1) ELSE None

\* The step the wrappers of s feed after a success, if any.
Fed(s) ==
  LET e == At(batch.trxArray, GroupOf(s), Index(s))
  IN  IF e \in shape.ends /\ (s \in shape.callbacks \/ wraps > 1)
      THEN At(batch.trxArray, GroupOf(s) + 1, 1) ELSE None

----------------------------------------------------------------------------
Init ==
  /\ shape \in Shapes
  /\ batch = [state |-> "idle", trxArray |-> <<>>, stepState |-> [s \in Steps |-> "idle"],
              completed |-> <<>>, FailedSteps |-> <<>>, activeStep |-> None,
              results |-> [s \in Steps |-> None]]
  /\ cursor = None
  /\ wraps = 0
  /\ fed = [s \in Steps |-> None]
  /\ runs = [s \in Steps |-> 0]
  /\ doubtful = {}
  /\ retries = 0
  /\ failures = 0

\* _processBatch starts over trxArray; without a step to run it ends at once.
Process(b) ==
  LET started == [b EXCEPT !.state = "running", !.FailedSteps = <<>>,
                           !.activeStep = Step(Len(b.completed) + 1)]
      first == Following(b.trxArray, 1, 1)
  IN  /\ cursor' = first
      /\ batch' = IF first = None THEN [started EXCEPT !.state = "done"] ELSE started

\* execute: prepares every step again, whatever it did before.
Execute ==
  /\ batch.state \in {"idle", "error"}
  /\ wraps < MaxPrepares
  /\ wraps' = wraps + 1
  /\ Process([batch EXCEPT !.trxArray = Prepared, !.stepState = [s \in Steps |-> "idle"]])
  /\ UNCHANGED <<shape, fed, runs, doubtful, retries, failures>>

\* A wrong variant, to be refuted: nothing is filtered out before the retry.
RetryAll ==
  /\ batch.state = "error"
  /\ retries < MaxRetries
  /\ retries' = retries + 1
  /\ Process(batch)
  /\ UNCHANGED <<shape, wraps, fed, runs, doubtful, failures>>

\* innerArray.filter: the items of a group that are not done; the k-th is the
\* one with which there are k.
NotDone(group) ==
  LET kept == {i \in DOMAIN group : batch.stepState[group[i]] # "done"}
      Nth(k) == CHOOSE i \in kept : Cardinality({j \in kept : j <= i}) = k
  IN  [k \in 1 .. Cardinality(kept) |-> group[Nth(k)]]

\* retryExecute: only after an error, with the steps that are not done.
RetryExecute ==
  /\ batch.state = "error"
  /\ retries < MaxRetries
  /\ retries' = retries + 1
  /\ Process([batch EXCEPT !.trxArray = [g \in DOMAIN @ |-> NotDone(@[g])]])
  /\ UNCHANGED <<shape, wraps, fed, runs, doubtful, failures>>

\* A wrong variant, to be refuted: the loops go on after an error.
ProceedAnyway(r) ==
  LET next == Following(batch.trxArray, cursor[1], cursor[2] + 1)
  IN  IF r.threw
      THEN cursor' = None /\ batch' = [r.fields EXCEPT !.state = "error"]
      ELSE IF next # None
      THEN cursor' = next /\ batch' = r.fields
      ELSE /\ cursor' = None
           /\ batch' = [r.fields EXCEPT !.state = IF r.fields.FailedSteps = <<>> THEN "done" ELSE "error"]

\* After a step: an exception ends the loops in the state 'error', and so
\* does the state the callbacks set; at the end the failures decide.
Proceed(r) ==
  LET next == Following(batch.trxArray, cursor[1], cursor[2] + 1)
      stops == r.threw \/ r.fields.state = "error" \/ next = None
  IN  /\ cursor' = IF stops THEN None ELSE next
      /\ batch' = CASE ~stops -> r.fields
                    [] r.threw -> [r.fields EXCEPT !.state = "error"]
                    [] OTHER -> [r.fields EXCEPT !.state =
                                   IF r.fields.FailedSteps = <<>> THEN "done" ELSE "error"]

Current == batch.trxArray[cursor[1]][cursor[2]]

\* The canister answers the step under the cursor without an error.
Succeeds ==
  /\ cursor # None
  /\ Current \in shape.methods
  /\ runs' = [runs EXCEPT ![Current] = @ + 1]
  /\ Proceed(OnSuccess(batch, Current, TRUE))
  /\ fed' = IF Fed(Current) # None THEN [fed EXCEPT ![Fed(Current)] = Current] ELSE fed
  /\ UNCHANGED <<shape, wraps, doubtful, retries, failures>>

\* The canister answers with an error in the response.
Errs ==
  /\ cursor # None
  /\ Current \in shape.methods
  /\ failures < MaxFailures
  /\ failures' = failures + 1
  /\ Proceed(OnSuccess(batch, Current, FALSE))
  /\ UNCHANGED <<shape, wraps, fed, runs, doubtful, retries>>

\* The call is rejected before the canister executes it.
Rejected ==
  /\ cursor # None
  /\ Current \in shape.methods
  /\ failures < MaxFailures
  /\ failures' = failures + 1
  /\ Proceed(OnFail(batch, Current))
  /\ UNCHANGED <<shape, wraps, fed, runs, doubtful, retries>>

\* The canister executes the call, and its answer is lost.
AnswerLost ==
  /\ cursor # None
  /\ Current \in shape.methods
  /\ failures < MaxFailures
  /\ failures' = failures + 1
  /\ runs' = [runs EXCEPT ![Current] = @ + 1]
  /\ doubtful' = doubtful \cup {Current}
  /\ Proceed(OnFail(batch, Current))
  /\ UNCHANGED <<shape, wraps, fed, retries>>

\* The step has no methodName.
NoMethod ==
  /\ cursor # None
  /\ Current \notin shape.methods
  /\ Proceed(OnNoMethod(batch, Current))
  /\ UNCHANGED <<shape, wraps, fed, runs, doubtful, retries, failures>>

\* A wrong variant, to be refuted: what getCanisterActor throws is not caught.
NoActorUncaught ==
  /\ cursor # None
  /\ failures < MaxFailures
  /\ failures' = failures + 1
  /\ cursor' = None
  /\ UNCHANGED <<shape, batch, wraps, fed, runs, doubtful, retries>>

\* getCanisterActor throws: the wallet was disconnected meanwhile.
NoActor ==
  /\ cursor # None
  /\ failures < MaxFailures
  /\ failures' = failures + 1
  /\ Proceed(Result(batch, TRUE))
  /\ UNCHANGED <<shape, wraps, fed, runs, doubtful, retries>>

Answer == Succeeds \/ Errs \/ Rejected \/ AnswerLost \/ NoMethod \/ NoActor

Next == Execute \/ RetryExecute \/ Answer

\* The Internet Computer answers every call, if only with a rejection.
Progress == Answer
Spec == Init /\ [][Next]_vars /\ WF_vars(Progress)

----------------------------------------------------------------------------
(* Properties.                                                             *)

\* Whatever fails, is retried or is started over, no step is executed before
\* every step ahead of it has been, except within a group that has been retried
\* twice: in what the first retry leaves of it, wrappers find later steps, which
\* the second takes for done (lines 43 and 79).
InOrder ==
  \A s \in Steps : runs'[s] > runs[s] =>
    \A r \in 1 .. s - 1 : runs[r] > 0 \/ (GroupOf(r) = GroupOf(s) /\ retries > 1)

\* The first step of a group is executed with the arguments its predecessor
\* fed to it, never with those of the initial list.
FedFirst == \A s \in shape.ends : s < N /\ runs'[s + 1] > runs[s + 1] => fed[s + 1] = s

\* The state 'done' is never reported for a batch with a step that has not
\* been executed.
DoneMeansAllRan == batch.state = "done" => \A s \in Steps : runs[s] > 0

\* With one step per group, callbacks given, and no second execute, retrying
\* executes no step twice, except one whose answer was lost.
RetryRunsOnce ==
  1 .. N - 1 \subseteq shape.ends /\ shape.callbacks = Steps /\ wraps = 1 =>
    \A s \in Steps \ doubtful : runs[s] <= 1

\* What comes again and again: the batch is at rest, 'done' or 'error', so that it
\* can be retried.
Settled == batch.state # "running"

============================================================================
