------------------------------- MODULE Retry -------------------------------
(***************************************************************************)
(* FetchManifestWithRetry of pkg/client/http.go: its loop, with the waits  *)
(* it makes.  A time.Duration is a signed integer of Width bits, and the   *)
(* shift and the product wrap around.                                      *)
(***************************************************************************)
EXTENDS Words, Sequences, FiniteSetsExt

CONSTANTS
  Width,   \* 64 in the code
  Second,  \* nanoseconds in the code
  Cap      \* 30 seconds

ASSUME RetryAssumption ==
  /\ Width \in Nat /\ Second \in Nat \ {0} /\ Cap \in Nat /\ Second <= Cap

\* time.Duration(1<<uint(i)) * time.Second; the shift is 0 from Width on.
BaseWait(i) ==
  IF i >= Width THEN 0 ELSE Wrap(Wrap(TwoTo[i], Width) * Second, Width)

\* The part of half the base wait that rand.Float64 picks, in percent, towards 0.
Jitter(base, percent) ==
  IF base < 0 THEN -((-base * percent) \div 200) ELSE (base * percent) \div 200

\* waitTime; a negative one makes Sleep return at once.
Wait(i, percent) ==
  LET wait == Wrap(BaseWait(i) + Jitter(BaseWait(i), percent), Width) IN
  IF wait > Cap THEN Cap ELSE wait

(***************************************************************************)
(* A run of the loop: the first fetch that succeeds (from 1; 0: none), the *)
(* fetch or the wait after it during which the context is cancelled        *)
(* ("fetch" or "wait", after `cancelAt` fetches were made; "never"),    *)
(* the number of retries and the jitter.                                   *)
(***************************************************************************)
\* The context is done when fetch number n returns.
DoneAt(run, n) ==
  \/ run.cancel = "fetch" /\ n >= run.cancelAt
  \/ run.cancel = "wait" /\ n > run.cancelAt

Succeeds(run, n) == n = run.good /\ ~DoneAt(run, n)

\* The fetches made, of which the loop ends with the first in `last`: it sleeps
\* after each other one, the last of all too.
Ended(run, last) ==
  LET fetches == IF last = {} THEN run.maxRetries ELSE Min(last) IN
  [fetches |-> fetches,
   waits   |-> [n \in 1..(IF last = {} THEN fetches ELSE fetches - 1) |->
                  Wait(n - 1, run.percent)],
   result  |-> IF last = {} THEN "failed"
               ELSE IF Succeeds(run, fetches) THEN "manifest" ELSE "cancelled"]

\* A context that is done is not looked at.
LoopOn(run) == Ended(run, {n \in 1..run.maxRetries : Succeeds(run, n)})

Loop(run) ==
  Ended(run, {n \in 1..run.maxRetries : Succeeds(run, n) \/ DoneAt(run, n)})

FetchManifestWithRetry(run) == Loop(run)

\* The wait after this try, jitter included, stays in the integer range.
InRange(i) == 3 * (TwoTo[i] * Second) < TwoTo[Width]
=============================================================================
