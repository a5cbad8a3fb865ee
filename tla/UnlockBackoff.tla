---------------------------- MODULE UnlockBackoff ----------------------------
(***************************************************************************)
(* The throttle of POST /unlock.                                           *)
(*                                                                         *)
(* A request asks once how long to wait, with the failures counted so far; *)
(* it waits, and only then its passphrase is verified and, if wrong,       *)
(* counted.  Requests that arrive together are therefore all told the      *)
(* same delay, and a right passphrase clears the count of everybody.       *)
(*                                                                         *)
(* Time is counted in ticks.  The code keeps the instant of each failure   *)
(* and drops, whenever it is about to count them, those that are Window    *)
(* old; here <<age, r, n>> is the n-th failure of slot r that many ticks   *)
(* ago, and it is gone as soon as it is Window old.  The slot is history.  *)
(***************************************************************************)
EXTENDS Naturals, FiniteSets

CONSTANTS
  Req,       (* slots for requests in flight                               *)
  Window,    (* how long a failure counts                                  *)
  Threshold, (* failures within Window from which on there is a delay      *)
  Step,      (* the first delay and its increment                          *)
  Max        (* the longest delay                                          *)

ASSUME BackoffAssumption == /\ {Window, Threshold, Step} \subseteq Nat \ {0}
                            /\ Max \in Nat /\ Max >= Step
                            /\ IsFiniteSet(Req)

Passphrase == {"right", "wrong", "empty"}

Failure == (0..(Window - 1)) \X Req \X (Nat \ {0})

VARIABLES
  failures, (* those that count                                            *)
  pc,       (* idle, waiting, or in: the KEK is installed                  *)
  pp,       (* the passphrase each request carries                         *)
  left,     (* ticks it still has to wait                                  *)
  prompt,   (* it was told not to wait                                     *)
  quick     (* history: those of them that did not wait                    *)

vars == <<failures, pc, pp, left, prompt, quick>>

Init == /\ failures = {}
        /\ pc = [r \in Req |-> "idle"]
        /\ pp = [r \in Req |-> "empty"]
        /\ left = [r \in Req |-> 0]
        /\ prompt = [r \in Req |-> FALSE]
        /\ quick = {}

-----------------------------------------------------------------------------
(* The delay after n failures.                                             *)
DelayUncapped(n) == IF n < Threshold THEN 0 ELSE (n - Threshold + 1) * Step

DelayLate(n) ==
  IF n <= Threshold THEN 0
  ELSE LET d == (n - Threshold) * Step IN IF d > Max THEN Max ELSE d

Delay(n) ==
  IF n < Threshold THEN 0
  ELSE LET d == (n - Threshold + 1) * Step IN IF d > Max THEN Max ELSE d

(* A request leaves nothing behind.                                        *)
Return(r) == /\ pc' = [pc EXCEPT ![r] = "idle"]
             /\ pp' = [pp EXCEPT ![r] = "empty"]
             /\ left' = [left EXCEPT ![r] = 0]
             /\ prompt' = [prompt EXCEPT ![r] = FALSE]

Arrive(r, x) ==
  LET d == Delay(Cardinality(failures))
  IN /\ pc[r] = "idle"
     /\ pc' = [pc EXCEPT ![r] = "wait"]
     /\ pp' = [pp EXCEPT ![r] = x]
     /\ left' = [left EXCEPT ![r] = d]
     /\ prompt' = [prompt EXCEPT ![r] = (d = 0)]
     /\ UNCHANGED <<failures, quick>>

(* The client hangs up during the wait, which only a delay has.            *)
Leave(r) == /\ pc[r] = "wait" /\ ~prompt[r]
            /\ Return(r)
            /\ UNCHANGED <<failures, quick>>

ReadyUnlessThrottled(r) ==
  pc[r] = "wait" /\ left[r] = 0 /\ Delay(Cardinality(failures)) = 0

ReadyAtOnce(r) == pc[r] = "wait"

Ready(r) == pc[r] = "wait" /\ left[r] = 0

(* A wrong passphrase is counted at the time it has been verified.         *)
Now(r) == {f \in failures : f[1] = 0 /\ f[2] = r}

Reject(r) ==
  LET new == <<0, r, Cardinality(Now(r)) + 1>>
  IN /\ Ready(r) /\ pp[r] = "wrong"
     /\ failures' = failures \cup {new}
     /\ quick' = IF prompt[r] THEN quick \cup {new} ELSE quick
     /\ Return(r)

(* Nothing was typed, or the settings or the verifier cannot be read.      *)
GiveUp(r) == /\ Ready(r)
             /\ Return(r)
             /\ UNCHANGED <<failures, quick>>

Accept(r) == /\ Ready(r) /\ pp[r] = "right"
             /\ pc' = [pc EXCEPT ![r] = "in"]
             /\ UNCHANGED <<failures, pp, left, prompt, quick>>

Reset(r) == /\ pc[r] = "in"
            /\ failures' = {}
            /\ quick' = {}
            /\ Return(r)

(* The KEK is installed but no session cookie can be made.                 *)
NoSession(r) == /\ pc[r] = "in"
                /\ Return(r)
                /\ UNCHANGED <<failures, quick>>

(* A tick may fall between any two steps: timers are never early.          *)
Young(f) == f[1] + 1 < Window

Older(S) == {<<f[1] + 1, f[2], f[3]>> : f \in {g \in S : Young(g)}}

Tick == /\ failures' = Older(failures)
        /\ quick' = Older(quick)
        /\ left' = [r \in Req |-> IF left[r] = 0 THEN 0 ELSE left[r] - 1]
        /\ UNCHANGED <<pc, pp, prompt>>

(* The count is not kept.                                                  *)
Restart == /\ failures' = {}
           /\ quick' = {}
           /\ pc' = [r \in Req |-> "idle"]
           /\ pp' = [r \in Req |-> "empty"]
           /\ left' = [r \in Req |-> 0]
           /\ prompt' = [r \in Req |-> FALSE]

Answer(r) == Reject(r) \/ Accept(r) \/ Reset(r) \/ NoSession(r)
               \/ (pp[r] = "empty" /\ GiveUp(r))

Next == \/ \E r \in Req : \/ \E x \in Passphrase : Arrive(r, x)
                          \/ Leave(r) \/ Answer(r) \/ GiveUp(r)
        \/ Tick \/ Restart

Spec == Init /\ [][Next]_vars

(* Time passes, and a handler that need not wait goes on.                  *)
Fairness == WF_vars(Tick) /\ \A r \in Req : WF_vars(Answer(r))

FairSpec == Spec /\ Fairness

-----------------------------------------------------------------------------
(* Type invariant; no wait is longer than Max, and only a prompt request   *)
(* had nothing to wait for.                                                *)
TypeOK ==
  /\ failures \subseteq Failure
  /\ pc \in [Req -> {"idle", "wait", "in"}]
  /\ pp \in [Req -> Passphrase]
  /\ left \in [Req -> 0..Max]
  /\ prompt \in [Req -> BOOLEAN]
  /\ quick \subseteq failures
  /\ \A r \in Req : /\ pc[r] # "wait" => left[r] = 0
                    /\ prompt[r] => left[r] = 0 /\ pc[r] # "idle"
                    /\ pc[r] = "in" => pp[r] = "right"

(* "After 5 failures within 60s" there is a delay (docs/LIFECYCLE.md,      *)
(* 1.2).  What holds of requests sent at once, all told a delay before any *)
(* of them is counted: within Window at most Threshold - 1 failures more   *)
(* than there can be requests in flight go without one, however arrivals,  *)
(* verifications and successes interleave.                                 *)
QuickFailuresBounded ==
  Cardinality(quick) <= Threshold - 1 + Cardinality(Req)

(* "Making brute-force expensive" (unlock_backoff.go): of the guesses that *)
(* count at most this many were verified within Window, however many were  *)
(* sent and however they interleave.  Those that waited are at least Step  *)
(* ticks apart in each slot, so the rate is bounded for every number of    *)
(* requests at once.                                                       *)
GuessesBounded ==
  Cardinality(failures)
    <= Threshold - 1 + Cardinality(Req) * ((Window - 1) \div Step + 2)

(* "A soft delay, not a rejection: a caller with the right passphrase      *)
(* still gets through", whatever others guess meanwhile.  It stops waiting *)
(* to be let in, or because it hung up, something failed or the process    *)
(* restarted; nothing makes the latter happen.                             *)
NeverLockedOut ==
  \A r \in Req : pc[r] = "wait" /\ pp[r] = "right" ~> pc[r] # "wait"
=============================================================================
