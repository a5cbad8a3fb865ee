------------------------- MODULE UnlockBackoffProofs -------------------------
(***************************************************************************)
(* Proofs about UnlockBackoff, for any number of concurrent attempts and   *)
(* any window, threshold, step and maximum: however attempts interleave,   *)
(* few failures escape the delay, and few fit into the window.             *)
(***************************************************************************)
EXTENDS UnlockBackoff, FiniteSetTheorems, TLAPS

(* Requests that were told not to wait and have not returned.              *)
Prompt == {r \in Req : prompt[r]}

(* Every failure that did not wait was a prompt request before, and each   *)
(* of these saw fewer than Threshold failures when it arrived.             *)
FewQuick == Cardinality(quick) + Cardinality(Prompt)
              <= Threshold - 1 + Cardinality(Req)

(* The failures that waited: two of one slot are at least Step ticks       *)
(* apart, and one that is coming will be that far from the slot's last.    *)
Slow == failures \ quick

Spaced ==
  /\ \A f, g \in Slow : f # g /\ f[2] = g[2]
                          => f[1] >= g[1] + Step \/ g[1] >= f[1] + Step
  /\ \A r \in Req : pc[r] = "wait" /\ ~prompt[r]
                     => \A f \in Slow : f[2] = r => f[1] + left[r] >= Step

IInv == TypeOK /\ IsFiniteSet(failures) /\ FewQuick

-----------------------------------------------------------------------------
(* A delay is at most Max, and there is none only below the threshold.     *)
LEMMA DelayBounds ==
  ASSUME NEW n \in Nat
  PROVE  /\ Delay(n) \in 0..Max
         /\ Delay(n) = 0 <=> n < Threshold
         /\ Delay(n) # 0 => Delay(n) >= Step
<1> DEFINE d == (n - Threshold + 1) * Step
<1>1. Threshold \in Nat /\ Step \in Nat /\ Step >= 1 /\ Max \in Nat /\ Max >= Step
  BY BackoffAssumption
<1>2. CASE n < Threshold
  BY <1>1, <1>2 DEF Delay
<1>3. CASE n >= Threshold
  <2>1. d \in Nat /\ d >= Step
    <3>1. PICK k \in Nat : n - Threshold + 1 = k + 1
      BY <1>1, <1>3
    <3>2. (k + 1) * Step = k * Step + Step /\ k * Step \in Nat
      BY <1>1
    <3> QED
      BY <1>1, <3>1, <3>2
  <2>2. Delay(n) = IF d > Max THEN Max ELSE d
    BY <1>1, <1>3 DEF Delay
  <2> QED
    BY <1>1, <1>3, <2>1, <2>2
<1> QED
  BY <1>1, <1>2, <1>3

(* Time only takes failures away.                                          *)
LEMMA OlderShrinks ==
  ASSUME NEW S, IsFiniteSet(S)
  PROVE  IsFiniteSet(Older(S)) /\ Cardinality(Older(S)) <= Cardinality(S)
<1> DEFINE T == {g \in S : Young(g)}
           f == [g \in T |-> <<g[1] + 1, g[2], g[3]>>]
<1>1. /\ IsFiniteSet(T) /\ Cardinality(T) \in Nat
      /\ Cardinality(S) \in Nat /\ Cardinality(T) <= Cardinality(S)
  BY FS_Subset, FS_CardinalityType
<1>2. f \in Surjection(T, Older(S))
  BY DEF Surjection, Older
<1>3. IsFiniteSet(Older(S)) /\ Cardinality(Older(S)) <= Cardinality(T)
  BY <1>1, <1>2, FS_Surjection
<1>4. Cardinality(Older(S)) \in Nat
  BY <1>3, FS_CardinalityType
<1> QED
  BY <1>1, <1>3, <1>4

(* The sizes that FewQuick adds up.                                        *)
LEMMA Sizes ==
  ASSUME TypeOK, IsFiniteSet(failures)
  PROVE  /\ IsFiniteSet(quick) /\ IsFiniteSet(Prompt)
         /\ Cardinality(quick) \in Nat /\ Cardinality(Prompt) \in Nat
         /\ Cardinality(Req) \in Nat /\ Cardinality(failures) \in Nat
         /\ Cardinality(quick) <= Cardinality(failures)
         /\ Cardinality(Prompt) <= Cardinality(Req)
<1>1. quick \in SUBSET failures /\ Prompt \in SUBSET Req
  BY DEF TypeOK, Prompt
<1> QED
  BY <1>1, FS_Subset, FS_CardinalityType, BackoffAssumption

(* If neither side of FewQuick grows, it stays.                            *)
LEMMA FewQuickKept ==
  ASSUME TypeOK, IsFiniteSet(failures), FewQuick,
         IsFiniteSet(quick'), Cardinality(quick') <= Cardinality(quick),
         Prompt' \subseteq Prompt
  PROVE  FewQuick'
<1>1. IsFiniteSet(Prompt') /\ Cardinality(Prompt') <= Cardinality(Prompt)
  BY Sizes, FS_Subset
<1>2. Cardinality(quick') \in Nat /\ Cardinality(Prompt') \in Nat
  BY <1>1, FS_CardinalityType
<1> QED
  BY <1>1, <1>2, Sizes, BackoffAssumption DEF FewQuick

(* A returning request is not prompt any more.                             *)
LEMMA ReturnTyped ==
  ASSUME TypeOK, NEW r \in Req, Return(r)
  PROVE  /\ pc' \in [Req -> {"idle", "wait", "in"}]
         /\ pp' \in [Req -> Passphrase]
         /\ left' \in [Req -> 0..Max]
         /\ prompt' \in [Req -> BOOLEAN]
         /\ \A q \in Req : /\ pc'[q] # "wait" => left'[q] = 0
                           /\ prompt'[q] => left'[q] = 0 /\ pc'[q] # "idle"
                           /\ pc'[q] = "in" => pp'[q] = "right"
         /\ Prompt' = Prompt \ {r}
  BY BackoffAssumption DEF TypeOK, Return, Passphrase, Prompt

-----------------------------------------------------------------------------
LEMMA InvInit == Init => IInv
<1> SUFFICES ASSUME Init PROVE IInv
  OBVIOUS
<1>1. TypeOK
  BY BackoffAssumption DEF Init, TypeOK, Passphrase
<1>2. IsFiniteSet(failures) /\ Cardinality(quick) = 0
  BY FS_EmptySet DEF Init
<1>3. Prompt = {}
  BY DEF Init, Prompt
<1>4. Cardinality(Prompt) = 0 /\ Cardinality(Req) \in Nat
  BY <1>3, FS_EmptySet, FS_CardinalityType, BackoffAssumption
<1> QED
  BY <1>1, <1>2, <1>4, BackoffAssumption DEF IInv, FewQuick

(* An attempt that is told not to wait has seen few failures.              *)
LEMMA InvArrive ==
  ASSUME IInv, NEW r \in Req, NEW x \in Passphrase, Arrive(r, x)
  PROVE  IInv'
<1> DEFINE n == Cardinality(failures)
<1>1. /\ TypeOK /\ IsFiniteSet(failures) /\ FewQuick
      /\ n \in Nat
  BY Sizes DEF IInv
<1>2. Delay(n) \in 0..Max /\ (Delay(n) = 0 <=> n < Threshold)
  BY <1>1, DelayBounds
<1>3. TypeOK'
  BY <1>1, <1>2, BackoffAssumption DEF TypeOK, Arrive
<1>4. IsFiniteSet(failures') /\ quick' = quick
  BY <1>1 DEF Arrive
<1>5. FewQuick'
  <2>1. CASE Delay(n) = 0
    <3>1. Cardinality(quick') + 1 <= Threshold
      BY <1>1, <1>2, <1>4, <2>1, Sizes, BackoffAssumption
    <3>2. Prompt' \in SUBSET Req
      BY DEF Prompt
    <3>3. Cardinality(Prompt') \in Nat /\ Cardinality(Prompt') <= Cardinality(Req)
      BY <3>2, FS_Subset, FS_CardinalityType, BackoffAssumption
    <3> QED
      BY <1>1, <1>4, <3>1, <3>3, Sizes, BackoffAssumption DEF FewQuick
  <2>2. CASE Delay(n) # 0
    <3>1. Prompt' \subseteq Prompt
      BY <1>1, <2>2 DEF Arrive, Prompt, TypeOK
    <3> QED
      BY <1>1, <1>4, <3>1, Sizes, FewQuickKept
  <2> QED
    BY <2>1, <2>2
<1> QED
  BY <1>3, <1>4, <1>5 DEF IInv

(* A prompt request that fails moves from one side to the other.           *)
LEMMA InvReject ==
  ASSUME IInv, NEW r \in Req, Reject(r)
  PROVE  IInv'
<1> DEFINE new == <<0, r, Cardinality(Now(r)) + 1>>
<1>1. TypeOK /\ IsFiniteSet(failures) /\ FewQuick
  BY DEF IInv
<1>2. new \in Failure
  <2>1. Now(r) \in SUBSET failures
    BY DEF Now
  <2>2. Cardinality(Now(r)) \in Nat
    BY <1>1, <2>1, FS_Subset, FS_CardinalityType
  <2> QED
    BY <2>2, BackoffAssumption DEF Failure
<1>3. /\ failures' = failures \cup {new} /\ Return(r)
      /\ quick' = IF prompt[r] THEN quick \cup {new} ELSE quick
  BY DEF Reject
<1>4. TypeOK'
  BY <1>1, <1>2, <1>3, ReturnTyped DEF TypeOK
<1>5. IsFiniteSet(failures')
  BY <1>1, <1>3, FS_AddElement
<1>6. Prompt' = Prompt \ {r}
  BY <1>1, <1>3, ReturnTyped
<1>7. FewQuick'
  <2>1. CASE prompt[r]
    <3>1. IsFiniteSet(quick) /\ IsFiniteSet(Prompt) /\ r \in Prompt
      BY <1>1, <2>1, Sizes DEF Prompt
    <3>2. Cardinality(Prompt') = Cardinality(Prompt) - 1
      BY <1>6, <3>1, FS_RemoveElement
    <3>3. /\ Cardinality(quick') \in {Cardinality(quick), Cardinality(quick) + 1}
      BY <1>3, <2>1, <3>1, FS_AddElement
    <3> QED
      BY <1>1, <3>2, <3>3, Sizes, BackoffAssumption DEF FewQuick
  <2>2. CASE ~prompt[r]
    BY <1>1, <1>3, <1>6, <2>2, Sizes, FewQuickKept
  <2> QED
    BY <2>1, <2>2
<1> QED
  BY <1>4, <1>5, <1>7 DEF IInv

(* The handler returns and leaves the failures as they are.                *)
LEMMA InvReturn ==
  ASSUME IInv, NEW r \in Req, Return(r), UNCHANGED <<failures, quick>>
  PROVE  IInv'
<1>1. TypeOK /\ IsFiniteSet(failures) /\ FewQuick
  BY DEF IInv
<1>2. TypeOK'
  BY <1>1, ReturnTyped DEF TypeOK
<1>3. FewQuick'
  BY <1>1, ReturnTyped, Sizes, FewQuickKept
<1> QED
  BY <1>1, <1>2, <1>3 DEF IInv

(* The failures are forgotten.                                             *)
LEMMA Cleared ==
  ASSUME IInv, TypeOK', failures' = {}, quick' = {}, Prompt' \subseteq Prompt
  PROVE  IInv'
<1>1. IsFiniteSet(failures') /\ IsFiniteSet(quick') /\ Cardinality(quick') = 0
  BY FS_EmptySet
<1> QED
  BY <1>1, Sizes, FewQuickKept DEF IInv

LEMMA InvTick == ASSUME IInv, Tick PROVE IInv'
<1>1. TypeOK /\ IsFiniteSet(failures) /\ FewQuick
  BY DEF IInv
<1>2. failures' \subseteq Failure
  BY <1>1, BackoffAssumption DEF TypeOK, Tick, Older, Young, Failure
<1>3. quick' \subseteq failures'
  BY <1>1 DEF TypeOK, Tick, Older
<1>4. TypeOK'
  <2>1. left' \in [Req -> 0..Max]
    BY <1>1, BackoffAssumption DEF TypeOK, Tick
  <2>2. \A r \in Req : left[r] = 0 => left'[r] = 0
    BY DEF Tick
  <2> QED
    BY <1>1, <1>2, <1>3, <2>1, <2>2 DEF TypeOK, Tick
<1>5. IsFiniteSet(failures')
  BY <1>1, OlderShrinks DEF Tick
<1>6. IsFiniteSet(quick') /\ Cardinality(quick') <= Cardinality(quick)
  BY <1>1, Sizes, OlderShrinks DEF Tick
<1>7. FewQuick'
  BY <1>1, <1>6, FewQuickKept DEF Tick, Prompt
<1> QED
  BY <1>4, <1>5, <1>7 DEF IInv

LEMMA InvStep == IInv /\ [Next]_vars => IInv'
<1> SUFFICES ASSUME IInv, [Next]_vars PROVE IInv'
  OBVIOUS
<1>0. TypeOK
  BY DEF IInv
<1>1. ASSUME NEW r \in Req, NEW x \in Passphrase, Arrive(r, x) PROVE IInv'
  BY <1>1, InvArrive
<1>2. ASSUME NEW r \in Req, Leave(r) \/ GiveUp(r) \/ NoSession(r) PROVE IInv'
  BY <1>2, InvReturn DEF Leave, GiveUp, NoSession
<1>3. ASSUME NEW r \in Req, Reject(r) PROVE IInv'
  BY <1>3, InvReject
<1>4. ASSUME NEW r \in Req, Accept(r) PROVE IInv'
  <2>1. TypeOK'
    BY <1>0, <1>4 DEF TypeOK, Accept, Ready
  <2>2. UNCHANGED <<failures, quick, prompt>>
    BY <1>4 DEF Accept
  <2> QED
    BY <2>1, <2>2 DEF IInv, FewQuick, Prompt
<1>5. ASSUME NEW r \in Req, Reset(r) PROVE IInv'
  <2>1. failures' = {} /\ quick' = {} /\ Return(r)
    BY <1>5 DEF Reset
  <2>2. TypeOK'
    BY <1>0, <2>1, ReturnTyped DEF TypeOK
  <2> QED
    BY <1>0, <2>1, <2>2, ReturnTyped, Cleared
<1>6. CASE Tick
  BY <1>6, InvTick
<1>7. CASE Restart
  <2>1. TypeOK'
    BY <1>7, BackoffAssumption DEF TypeOK, Restart, Passphrase
  <2>2. Prompt' \subseteq Prompt
    BY <1>7 DEF Restart, Prompt
  <2> QED
    BY <1>7, <2>1, <2>2, Cleared DEF Restart
<1>8. CASE UNCHANGED vars
  <2>1. UNCHANGED <<failures, quick, prompt, pc, pp, left>>
    BY <1>8 DEF vars
  <2> QED
    BY <2>1 DEF IInv, TypeOK, FewQuick, Prompt
<1> QED
  BY <1>1, <1>2, <1>3, <1>4, <1>5, <1>6, <1>7, <1>8 DEF Next, Answer

LEMMA InvAlways == Spec => []IInv
  BY InvInit, InvStep, PTL DEF Spec

-----------------------------------------------------------------------------
(* The type invariant, with it that no attempt waits longer than Max.      *)
THEOREM TypeCorrect == Spec => []TypeOK
<1>1. IInv => TypeOK
  BY DEF IInv
<1> QED
  BY <1>1, InvAlways, PTL

(* However many attempts are sent at once: of the failures that count, at  *)
(* most Threshold - 1 and one for each request in flight did not wait.     *)
THEOREM FewEscapeTheDelay == Spec => []QuickFailuresBounded
<1>1. IInv => QuickFailuresBounded
  BY Sizes, BackoffAssumption DEF IInv, FewQuick, QuickFailuresBounded
<1> QED
  BY <1>1, InvAlways, PTL

-----------------------------------------------------------------------------
(* The failures that waited keep their distance.                           *)

LEMMA SpacedArrive ==
  ASSUME TypeOK, IsFiniteSet(failures), Spaced, NEW r \in Req,
         NEW x \in Passphrase, Arrive(r, x)
  PROVE  Spaced'
<1> DEFINE d == Delay(Cardinality(failures))
<1>1. d \in Nat /\ (d # 0 => d >= Step)
  BY DelayBounds, Sizes, BackoffAssumption
<1>2. Slow' = Slow
  BY DEF Arrive, Slow
<1>3. ASSUME NEW q \in Req, pc'[q] = "wait", ~prompt'[q], NEW f \in Slow, f[2] = q
      PROVE  f[1] + left'[q] >= Step
  <2>1. f[1] \in Nat /\ Step \in Nat
    BY BackoffAssumption DEF TypeOK, Slow, Failure
  <2>2. CASE q = r
    <3>1. left'[q] = d /\ (~prompt'[q] => d # 0)
      BY <2>2 DEF Arrive, TypeOK
    <3>2. left'[q] \in Nat /\ left'[q] >= Step
      BY <1>1, <1>3, <3>1
    <3> QED
      BY <2>1, <3>2
  <2>3. CASE q # r
    BY <1>3, <2>3 DEF Arrive, TypeOK, Spaced
  <2> QED
    BY <2>2, <2>3
<1> QED
  BY <1>2, <1>3 DEF Spaced

LEMMA SpacedReject ==
  ASSUME TypeOK, Spaced, NEW r \in Req, Reject(r)
  PROVE  Spaced'
<1> DEFINE new == <<0, r, Cardinality(Now(r)) + 1>>
<1>1. /\ pc[r] = "wait" /\ left[r] = 0
      /\ failures' = failures \cup {new}
      /\ quick' = IF prompt[r] THEN quick \cup {new} ELSE quick
      /\ \A q \in Req : pc'[q] = "wait"
           => q # r /\ pc[q] = "wait" /\ left'[q] = left[q] /\ prompt'[q] = prompt[q]
  BY DEF Reject, Ready, Return, TypeOK
<1>2. CASE prompt[r]
  <2>1. Slow' \subseteq Slow
    BY <1>1, <1>2 DEF Slow
  <2> QED
    BY <1>1, <2>1 DEF Spaced
<1>3. CASE ~prompt[r]
  <2>1. Slow' \subseteq Slow \cup {new}
    BY <1>1, <1>3 DEF Slow
  <2>2. \A f \in Slow : f[1] \in Nat
    BY BackoffAssumption DEF TypeOK, Slow, Failure
  <2>3. \A f \in Slow : f[2] = r => f[1] >= Step
    BY <1>1, <1>3, <2>2, BackoffAssumption DEF Spaced
  <2>4. new[1] = 0 /\ new[2] = r /\ Step \in Nat
    BY BackoffAssumption
  <2>5. ASSUME NEW f \in Slow', NEW g \in Slow', f # g, f[2] = g[2]
        PROVE  f[1] >= g[1] + Step \/ g[1] >= f[1] + Step
    <3>1. CASE f \in Slow /\ g \in Slow
      BY <2>5, <3>1 DEF Spaced
    <3>2. CASE f = new /\ g \in Slow
      BY <2>3, <2>4, <2>5, <3>2
    <3>3. CASE g = new /\ f \in Slow
      BY <2>3, <2>4, <2>5, <3>3
    <3> QED
      BY <2>1, <2>5, <3>1, <3>2, <3>3
  <2>6. ASSUME NEW q \in Req, pc'[q] = "wait", ~prompt'[q],
               NEW f \in Slow', f[2] = q
        PROVE  f[1] + left'[q] >= Step
    <3>1. f \in Slow
      BY <1>1, <2>1, <2>4, <2>6
    <3> QED
      BY <1>1, <2>6, <3>1 DEF Spaced
  <2> QED
    BY <2>5, <2>6 DEF Spaced
<1> QED
  BY <1>2, <1>3

LEMMA SpacedTick ==
  ASSUME TypeOK, Spaced, Tick
  PROVE  Spaced'
<1>1. \A x \in Slow' : \E f \in Slow : x = <<f[1] + 1, f[2], f[3]>>
  BY DEF Slow, Tick, Older
<1>2. \A f \in Slow : f[1] \in Nat
  BY BackoffAssumption DEF TypeOK, Slow, Failure
<1>3. ASSUME NEW x \in Slow', NEW y \in Slow', x # y, x[2] = y[2]
      PROVE  x[1] >= y[1] + Step \/ y[1] >= x[1] + Step
  <2>1. PICK f \in Slow : x = <<f[1] + 1, f[2], f[3]>>
    BY <1>1
  <2>2. PICK g \in Slow : y = <<g[1] + 1, g[2], g[3]>>
    BY <1>1
  <2>3. f # g /\ f[2] = g[2] /\ x[1] = f[1] + 1 /\ y[1] = g[1] + 1
    BY <1>3, <2>1, <2>2
  <2> QED
    BY <1>2, <2>3, BackoffAssumption DEF Spaced
<1>4. ASSUME NEW r \in Req, pc'[r] = "wait", ~prompt'[r], NEW x \in Slow', x[2] = r
      PROVE  x[1] + left'[r] >= Step
  <2>1. PICK f \in Slow : x = <<f[1] + 1, f[2], f[3]>>
    BY <1>1
  <2>2. f[2] = r /\ x[1] = f[1] + 1 /\ f[1] \in Nat
    BY <1>2, <1>4, <2>1
  <2>3. pc[r] = "wait" /\ ~prompt[r]
    BY <1>4 DEF Tick
  <2>4. left[r] \in Nat /\ left'[r] = IF left[r] = 0 THEN 0 ELSE left[r] - 1
    BY BackoffAssumption DEF Tick, TypeOK
  <2>5. f[1] + left[r] >= Step
    BY <2>2, <2>3 DEF Spaced
  <2> QED
    BY <2>2, <2>4, <2>5, BackoffAssumption
<1> QED
  BY <1>3, <1>4 DEF Spaced

LEMMA SpacedStep == IInv /\ Spaced /\ [Next]_vars => Spaced'
<1> SUFFICES ASSUME IInv, Spaced, [Next]_vars PROVE Spaced'
  OBVIOUS
<1>0. TypeOK /\ IsFiniteSet(failures)
  BY DEF IInv
<1>1. ASSUME NEW r \in Req, NEW x \in Passphrase, Arrive(r, x) PROVE Spaced'
  BY <1>0, <1>1, SpacedArrive
<1>2. ASSUME NEW r \in Req, Leave(r) \/ GiveUp(r) \/ NoSession(r) PROVE Spaced'
  BY <1>0, <1>2 DEF Leave, GiveUp, NoSession, Return, Spaced, Slow, TypeOK
<1>3. ASSUME NEW r \in Req, Reject(r) PROVE Spaced'
  BY <1>0, <1>3, SpacedReject
<1>4. ASSUME NEW r \in Req, Accept(r) PROVE Spaced'
  BY <1>0, <1>4 DEF Accept, Spaced, Slow, TypeOK
<1>5. ASSUME NEW r \in Req, Reset(r) PROVE Spaced'
  BY <1>5 DEF Reset, Spaced, Slow
<1>6. CASE Tick
  BY <1>0, <1>6, SpacedTick
<1>7. CASE Restart
  BY <1>7 DEF Restart, Spaced, Slow
<1>8. CASE UNCHANGED vars
  BY <1>8 DEF vars, Spaced, Slow
<1> QED
  BY <1>1, <1>2, <1>3, <1>4, <1>5, <1>6, <1>7, <1>8 DEF Next, Answer

-----------------------------------------------------------------------------
(* Counting them: a slot has at most one in each Step consecutive ticks.   *)

LEMMA Quotients ==
  ASSUME NEW a \in Nat, NEW b \in Nat
  PROVE  /\ a \div Step \in Nat
         /\ a <= b => a \div Step <= b \div Step
         /\ a >= b + Step => a \div Step # b \div Step
<1>1. Step \in Nat /\ Step >= 1
  BY BackoffAssumption
<1> QED
  BY <1>1

LEMMA FewSlow ==
  ASSUME TypeOK, IsFiniteSet(failures), Spaced
  PROVE  /\ IsFiniteSet(Slow)
         /\ Cardinality(Slow) <= Cardinality(Req) * ((Window - 1) \div Step + 1)
<1> DEFINE K == (Window - 1) \div Step
           h == [f \in Slow |-> <<f[2], f[1] \div Step>>]
<1>1. Window - 1 \in Nat /\ K \in Nat
  BY Quotients, BackoffAssumption
<1>2. \A f \in Slow : f[1] \in Nat /\ f[1] <= Window - 1 /\ f[2] \in Req
  BY <1>1 DEF TypeOK, Slow, Failure
<1>3. \A f \in Slow : f[1] \div Step \in 0..K
  BY <1>1, <1>2, Quotients
<1>4. h \in [Slow -> Req \X (0..K)]
  BY <1>2, <1>3
<1>5. \A f, g \in Slow : h[f] = h[g] => f = g
  BY <1>2, Quotients DEF Spaced
<1>6. h \in Injection(Slow, Req \X (0..K))
  BY <1>4, <1>5 DEF Injection, IsInjective
<1>7. IsFiniteSet(0..K) /\ Cardinality(0..K) = K + 1
  BY <1>1, FS_Interval
<1>8. /\ IsFiniteSet(Req \X (0..K))
      /\ Cardinality(Req \X (0..K)) = Cardinality(Req) * (K + 1)
  BY <1>7, FS_Product, BackoffAssumption
<1> QED
  BY <1>6, <1>8, FS_Injection

(* However many guesses are sent at once, and whatever they overlap, the   *)
(* number of those that count has a bound that depends only on how many    *)
(* are in flight.                                                          *)
THEOREM GuessesAreBounded == Spec => []GuessesBounded
<1>1. Init => Spaced
  BY DEF Init, Spaced, Slow
<1>2. IInv /\ Spaced => GuessesBounded
  <2> SUFFICES ASSUME IInv, Spaced PROVE GuessesBounded
    OBVIOUS
  <2> DEFINE R == Cardinality(Req)
             K == (Window - 1) \div Step
  <2>1. TypeOK /\ IsFiniteSet(failures) /\ FewQuick
    BY DEF IInv
  <2>2. IsFiniteSet(Slow) /\ Cardinality(Slow) <= R * (K + 1)
    BY <2>1, FewSlow
  <2>3. /\ R \in Nat /\ K \in Nat /\ Cardinality(Slow) \in Nat
        /\ Cardinality(quick) \in Nat /\ Cardinality(Prompt) \in Nat
        /\ Cardinality(failures) \in Nat /\ IsFiniteSet(quick)
    <3>1. Window - 1 \in Nat /\ K \in Nat
      BY Quotients, BackoffAssumption
    <3>2. Cardinality(Slow) \in Nat
      BY <2>2, FS_CardinalityType
    <3> QED
      BY <2>1, <3>1, <3>2, Sizes
  <2>4. failures = quick \cup Slow /\ quick \cap Slow = {}
    BY <2>1 DEF TypeOK, Slow
  <2>5. Cardinality(failures) = Cardinality(quick) + Cardinality(Slow)
    <3>1. Cardinality(quick \cup Slow)
            = Cardinality(quick) + Cardinality(Slow) - Cardinality(quick \cap Slow)
      BY <2>2, <2>3, FS_Union
    <3>2. Cardinality(quick \cap Slow) = 0
      BY <2>4, FS_EmptySet
    <3> QED
      BY <2>3, <2>4, <3>1, <3>2
  <2>6. Cardinality(quick) <= Threshold - 1 + R
    BY <2>1, <2>3, BackoffAssumption DEF FewQuick
  <2>7. R * (K + 2) = R * (K + 1) + R
    BY <2>3
  <2>8. R * (K + 1) \in Nat /\ R * (K + 2) \in Nat
    BY <2>3
  <2> QED
    BY <2>2, <2>3, <2>5, <2>6, <2>7, <2>8, BackoffAssumption DEF GuessesBounded
<1> QED
  BY <1>1, <1>2, InvAlways, SpacedStep, PTL DEF Spec
=============================================================================
