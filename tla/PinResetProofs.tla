--------------------------- MODULE PinResetProofs ---------------------------
(***************************************************************************)
(* Proofs about PinReset, for any delay, validity, number of attempts and  *)
(* number of requests: the bound on the attempts, whatever happens; the    *)
(* last text message and the scheduled job, as long as no transaction is   *)
(* rolled back and the batch service is prompt; and the announced time of  *)
(* the code, if no device uses a stale link either.                        *)
(***************************************************************************)
EXTENDS PinReset, TLAPS

(* Each attempt that fails is counted in the code as long as it has the     *)
(* value it was tried for, and a value that is still to come has none.      *)
IInv ==
  /\ TypeOK
  /\ TryLimit
  /\ \A c \in code :
       /\ c.attempts <= MaxAttempts /\ c.value <= codes
       /\ c.value # NoValue => tries[c.value] <= c.attempts
  /\ \A v \in 1..MaxCodes : v > codes => tries[v] = 0

(* The invariant holds initially. *)
LEMMA InitIInv == Init => IInv
  BY PinResetAssumption
     DEF Init, IInv, TypeOK, TryLimit, IsOptional, NoValue

(* The new code of a request or of another text message.                    *)
LEMMA NewCodeIInv ==
  ASSUME IInv, NEW commits \in BOOLEAN, NEW value \in {NoValue, codes + 1},
         SetConfirmationCode({NewCode(value)}, commits),
         codes < MaxCodes,
         codes' = (IF value = NoValue THEN codes ELSE codes + 1),
         trigger' \subseteq Trigger, IsOptional(trigger'),
         UNCHANGED <<now, tries>>
  PROVE  IInv'
<1>1. codes' \in 0..MaxCodes /\ codes' >= codes /\ codes' \in Nat
  BY PinResetAssumption DEF IInv, TypeOK, NoValue
<1>2. \A c \in code' :
        \/ c \in code
        \/ c = [created |-> now, value |-> value, attempts |-> 0]
  BY DEF SetConfirmationCode, NewCode
<1>3. value \in Nat /\ value <= codes'
  BY DEF IInv, TypeOK, NoValue
<1>4. code' \subseteq ConfirmationCode /\ IsOptional(code')
  BY <1>3 DEF IInv, TypeOK, IsOptional, SetConfirmationCode, NewCode,
       ConfirmationCode
<1>5. TypeOK'
  BY <1>1, <1>4 DEF IInv, TypeOK
<1>6. ASSUME NEW c \in code'
      PROVE  /\ c.attempts <= MaxAttempts /\ c.value <= codes'
             /\ c.value # NoValue => tries[c.value] <= c.attempts
  <2>1. CASE c \in code
    <3>1. c \in ConfirmationCode
      BY <2>1 DEF IInv, TypeOK
    <3>2. QED
      BY <1>1, <2>1, <3>1 DEF IInv, TypeOK, ConfirmationCode
  <2>2. CASE c = [created |-> now, value |-> value, attempts |-> 0]
    <3>1. c.attempts = 0 /\ c.value = value
      BY <2>2
    <3>2. value # NoValue => value \in 1..MaxCodes /\ tries[value] = 0
      BY PinResetAssumption DEF IInv, TypeOK, NoValue
    <3>3. QED
      BY <1>3, <3>1, <3>2, PinResetAssumption
  <2>3. QED
    BY <1>2, <2>1, <2>2
<1>7. \A v \in 1..MaxCodes : v > codes' => tries[v] = 0
  BY <1>1 DEF IInv, TypeOK
<1>8. QED
  BY <1>5, <1>6, <1>7 DEF IInv, TryLimit

(* A request replaces the code by one without a value. *)
LEMMA RequestIInv ==
  ASSUME IInv, NEW commits \in BOOLEAN, RequestPinReset(commits)
  PROVE  IInv'
<1>1. Scheduled \subseteq Trigger /\ IsOptional(Scheduled)
  <2>1. now + Delay \in Nat
    BY PinResetAssumption DEF IInv, TypeOK
  <2>2. CASE trigger = {}
    <3>1. Scheduled = {[due |-> now + Delay, ran |-> FALSE]}
      BY <2>2 DEF Scheduled
    <3>2. [due |-> now + Delay, ran |-> FALSE] \in Trigger
      BY <2>1 DEF Trigger
    <3>3. QED
      BY <3>1, <3>2 DEF IsOptional
  <2>3. CASE trigger # {}
    BY <2>3 DEF IInv, TypeOK, Scheduled
  <2>4. QED
    BY <2>2, <2>3
<1>2. codes < MaxCodes /\ UNCHANGED <<now, tries>> /\ codes \in Nat
  BY DEF RequestPinReset, IInv, TypeOK
<1>3. CASE Delay = 0
  <2>1. /\ SetConfirmationCode({NewCode(codes + 1)}, commits)
        /\ codes' = codes + 1 /\ trigger' = trigger
    BY <1>3 DEF RequestPinReset
  <2>2. codes + 1 # NoValue /\ trigger' \subseteq Trigger /\ IsOptional(trigger')
    BY <1>2, <2>1 DEF NoValue, IInv, TypeOK, IsOptional
  <2>3. QED
    BY <1>2, <2>1, <2>2, NewCodeIInv
<1>4. CASE Delay # 0
  <2>1. /\ SetConfirmationCode({NewCode(NoValue)}, commits)
        /\ codes' = codes /\ trigger' = Scheduled
    BY <1>4 DEF RequestPinReset
  <2>2. trigger' \subseteq Trigger /\ IsOptional(trigger')
    BY <1>1, <2>1 DEF IsOptional
  <2>3. QED
    BY <1>2, <2>1, <2>2, NewCodeIInv
<1>5. QED
  BY <1>3, <1>4

(* A resend replaces the code by one with a new value. *)
LEMMA ResendIInv ==
  ASSUME IInv, NEW commits \in BOOLEAN, ResendPinReset(commits)
  PROVE  IInv'
<1>1. /\ SetConfirmationCode({NewCode(codes + 1)}, commits)
      /\ codes < MaxCodes /\ codes' = codes + 1
      /\ UNCHANGED <<now, trigger, tries>>
  BY DEF ResendPinReset
<1>2. codes + 1 # NoValue /\ trigger' \subseteq Trigger /\ IsOptional(trigger')
  BY <1>1 DEF NoValue, IInv, TypeOK, IsOptional
<1>3. QED
  BY <1>1, <1>2, NewCodeIInv

(* An attempt is counted in the code and in the history together.           *)
LEMMA VerifyIInv ==
  ASSUME IInv, NEW provided \in Nat, VerifyPinReset(provided)
  PROVE  IInv'
<1>1. PICK c \in code :
        /\ MaxAttempts - c.attempts > 0
        /\ code' = {WithAttempt(c)}
        /\ tries' = IF c.value = NoValue THEN tries
                    ELSE [tries EXCEPT ![c.value] = @ + 1]
  BY DEF VerifyPinReset
<1>2. /\ c \in ConfirmationCode /\ c.value <= codes /\ c.attempts \in Nat
      /\ c.value \in Nat
      /\ c.value # NoValue => tries[c.value] <= c.attempts
      /\ codes \in Nat /\ codes <= MaxCodes
      /\ tries \in [1..MaxCodes -> Nat]
  BY DEF IInv, TypeOK, ConfirmationCode
<1>3. UNCHANGED <<now, trigger, codes>>
  BY DEF VerifyPinReset
<1>4. /\ WithAttempt(c) \in ConfirmationCode
      /\ WithAttempt(c).value = c.value
      /\ WithAttempt(c).attempts = c.attempts + 1
  BY <1>2 DEF WithAttempt, ConfirmationCode
<1>5. c.attempts + 1 <= MaxAttempts
  BY <1>1, <1>2, PinResetAssumption
<1>6. /\ tries' \in [1..MaxCodes -> Nat]
      /\ \A v \in 1..MaxCodes :
           tries'[v] = IF v = c.value /\ c.value # NoValue THEN tries[v] + 1
                       ELSE tries[v]
  BY <1>1, <1>2, PinResetAssumption, SMTT(30) DEF NoValue
<1>7. TypeOK'
  BY <1>1, <1>3, <1>4, <1>6 DEF IInv, TypeOK, IsOptional
<1>8. TryLimit'
  <2>1. ASSUME NEW v \in 1..MaxCodes
        PROVE  tries'[v] <= MaxAttempts
    <3>1. CASE v = c.value /\ c.value # NoValue
      <4>1. tries'[v] = tries[v] + 1 /\ tries[v] \in Nat
        BY <1>2, <1>6, <3>1
      <4>2. tries[v] <= c.attempts
        BY <1>2, <3>1
      <4>3. QED
        BY <1>2, <1>5, <4>1, <4>2, PinResetAssumption
    <3>2. CASE ~(v = c.value /\ c.value # NoValue)
      BY <1>6, <3>2 DEF IInv, TryLimit
    <3>3. QED
      BY <3>1, <3>2
  <2>2. QED
    BY <2>1 DEF TryLimit
<1>9. \A d \in code' :
        /\ d.attempts <= MaxAttempts /\ d.value <= codes'
        /\ d.value # NoValue => tries'[d.value] <= d.attempts
  <2>1. c.value # NoValue => c.value \in 1..MaxCodes
    BY <1>2, PinResetAssumption DEF NoValue
  <2>2. c.value # NoValue => tries'[c.value] <= c.attempts + 1
    BY <1>2, <1>6, <2>1
  <2>3. QED
    BY <1>1, <1>2, <1>3, <1>4, <1>5, <2>2
<1>10. \A v \in 1..MaxCodes : v > codes' => tries'[v] = 0
  BY <1>2, <1>3, <1>6 DEF IInv
<1>11. QED
  BY <1>7, <1>8, <1>9, <1>10 DEF IInv

(* The job replaces the value of the code, not the attempts.                *)
LEMMA JobIInv ==
  ASSUME IInv, NEW commits \in BOOLEAN, SendPinResetConfirmationCode(commits)
  PROVE  IInv'
<1>1. trigger' \subseteq Trigger /\ IsOptional(trigger')
  BY DEF SendPinResetConfirmationCode, IInv, TypeOK, Trigger, IsOptional
<1>2. UNCHANGED <<now, tries>>
  BY DEF SendPinResetConfirmationCode
<1>3. CASE UNCHANGED <<code, codes>>
  BY <1>1, <1>2, <1>3 DEF IInv, TypeOK, TryLimit, IsOptional
<1>4. CASE /\ codes < MaxCodes /\ codes' = codes + 1
           /\ \E c \in code :
                SetConfirmationCode({[c EXCEPT !.value = codes + 1]}, commits)
  <2>1. PICK c \in code :
          SetConfirmationCode({[c EXCEPT !.value = codes + 1]}, commits)
    BY <1>4
  <2>2. c \in ConfirmationCode /\ codes \in Nat /\ codes + 1 \in 1..MaxCodes
    BY <1>4, PinResetAssumption DEF IInv, TypeOK
  <2>3. tries[codes + 1] = 0
    BY <2>2 DEF IInv
  <2> DEFINE d == [c EXCEPT !.value = codes + 1]
  <2>4. d \in ConfirmationCode /\ d.value = codes + 1 /\ d.attempts = c.attempts
    BY <2>2 DEF ConfirmationCode
  <2>5. code' = {d} \/ code' = code
    BY <2>1 DEF SetConfirmationCode
  <2> HIDE DEF d
  <2>6. code' \subseteq ConfirmationCode /\ IsOptional(code')
    BY <2>4, <2>5 DEF IInv, TypeOK, IsOptional
  <2>7. codes' \in 0..MaxCodes
    BY <1>4, <2>2
  <2>8. TypeOK'
    BY <1>1, <1>2, <2>6, <2>7 DEF IInv, TypeOK
  <2>9. ASSUME NEW e \in code'
        PROVE  /\ e.attempts <= MaxAttempts /\ e.value <= codes'
               /\ e.value # NoValue => tries[e.value] <= e.attempts
    <3>1. CASE e \in code
      <4>1. e.value \in Nat
        BY <3>1 DEF IInv, TypeOK, ConfirmationCode
      <4>2. QED
        BY <1>4, <2>2, <3>1, <4>1 DEF IInv
    <3>2. CASE e = d
      <4>1. c.attempts <= MaxAttempts /\ c.attempts \in Nat
        BY <2>2 DEF IInv, ConfirmationCode
      <4>2. QED
        BY <1>4, <2>2, <2>3, <2>4, <3>2, <4>1
    <3>3. QED
      BY <2>5, <3>1, <3>2
  <2>10. \A v \in 1..MaxCodes : v > codes' => tries[v] = 0
    BY <1>4, <2>2 DEF IInv
  <2>11. QED
    BY <1>2, <2>8, <2>9, <2>10 DEF IInv, TryLimit
<1>5. QED
  BY <1>3, <1>4 DEF SendPinResetConfirmationCode, CurrentCodes

(* The other steps that change neither values nor attempts. *)
LEMMA OtherStepsIInv ==
  ASSUME IInv, ClearPinReset \/ DeleteTrigger \/ Tick \/ UNCHANGED vars
  PROVE  IInv'
<1>1. CASE ClearPinReset
  BY <1>1 DEF ClearPinReset, IInv, TypeOK, TryLimit, IsOptional
<1>2. CASE DeleteTrigger
  BY <1>2 DEF DeleteTrigger, IInv, TypeOK, TryLimit, IsOptional
<1>3. CASE Tick
  BY <1>3 DEF Tick, IInv, TypeOK, TryLimit, IsOptional
<1>4. CASE UNCHANGED vars
  BY <1>4 DEF vars, IInv, TypeOK, TryLimit, IsOptional
<1>5. QED
  BY <1>1, <1>2, <1>3, <1>4

(* A step commits or not. *)
LEMMA OutcomesAreBoolean == Outcomes \subseteq BOOLEAN
  BY DEF Outcomes

(* Every step preserves the invariant. *)
LEMMA NextIInv ==
  ASSUME IInv, [Next]_vars
  PROVE  IInv'
<1>1. CASE \E commits \in Outcomes : RequestPinReset(commits)
  BY <1>1, RequestIInv, OutcomesAreBoolean
<1>2. CASE \E commits \in Outcomes : ResendPinReset(commits)
  BY <1>2, ResendIInv, OutcomesAreBoolean
<1>3. CASE \E provided \in 0..codes : VerifyPinReset(provided)
  <2>1. 0..codes \subseteq Nat
    BY DEF IInv, TypeOK
  <2>2. QED
    BY <1>3, <2>1, VerifyIInv
<1>4. CASE RunJob
  BY <1>4, JobIInv, OutcomesAreBoolean DEF RunJob
<1>5. CASE ClearPinReset \/ DeleteTrigger \/ Tick \/ UNCHANGED vars
  BY <1>5, OtherStepsIInv
<1>6. QED
  BY <1>1, <1>2, <1>3, <1>4, <1>5 DEF Next

(***************************************************************************)
(* The invariant, whatever the devices do and whatever fails.              *)
(***************************************************************************)
THEOREM Invariance == Spec => []IInv
  BY InitIInv, NextIInv, PTL DEF Spec

(***************************************************************************)
(* The types, with one trigger at most.                                    *)
(***************************************************************************)
THEOREM TypeCorrect == Spec => []TypeOK
<1>1. IInv => TypeOK
  BY DEF IInv
<1>2. QED
  BY <1>1, Invariance, PTL

(***************************************************************************)
(* No value is tried more often than MaxAttempts: the transaction of an    *)
(* attempt that fails is not rolled back, and no step gives a value that   *)
(* was tried a code with fewer attempts.                                   *)
(***************************************************************************)
THEOREM TriesAreLimited == Spec => []TryLimit
<1>1. IInv => TryLimit
  BY DEF IInv
<1>2. QED
  BY <1>1, Invariance, PTL
-----------------------------------------------------------------------------
(***************************************************************************)
(* The number of the last text message is the highest one, and every step  *)
(* that sends a text gives that code to the only row there is.             *)
(***************************************************************************)
LEMMA NextLastText ==
  ASSUME "fail" \notin Habits, IInv, LastTextIsAccepted, [Next]_vars
  PROVE  LastTextIsAccepted'
<1>1. Outcomes = {TRUE}
  BY DEF Outcomes
<1>2. /\ codes \in Nat /\ code \subseteq ConfirmationCode
      /\ \A c \in code : c.value \in {NoValue, codes}
  BY PinResetAssumption DEF IInv, TypeOK, LastTextIsAccepted
<1>3. ASSUME RequestPinReset(TRUE)
      PROVE  LastTextIsAccepted'
  <2>1. \/ code' = {NewCode(codes + 1)} /\ codes' = codes + 1
        \/ code' = {NewCode(NoValue)}
    BY <1>3 DEF RequestPinReset, SetConfirmationCode
  <2>2. QED
    BY <2>1 DEF LastTextIsAccepted, NewCode
<1>4. ASSUME ResendPinReset(TRUE)
      PROVE  LastTextIsAccepted'
  BY <1>4 DEF ResendPinReset, SetConfirmationCode, LastTextIsAccepted, NewCode
<1>5. ASSUME NEW provided \in 0..codes, VerifyPinReset(provided)
      PROVE  LastTextIsAccepted'
  <2>1. PICK c \in code : code' = {WithAttempt(c)}
    BY <1>5 DEF VerifyPinReset
  <2>2. WithAttempt(c).value = c.value
    BY <1>2 DEF WithAttempt, ConfirmationCode
  <2>3. codes' = codes
    BY <1>5 DEF VerifyPinReset
  <2>4. QED
    BY <1>2, <2>1, <2>2, <2>3 DEF LastTextIsAccepted
\* The job of an earlier request serves the later one, with a new number.
<1>6. ASSUME SendPinResetConfirmationCode(TRUE)
      PROVE  LastTextIsAccepted'
  <2>1. CASE UNCHANGED <<code, codes>>
    BY <2>1 DEF LastTextIsAccepted
  <2>2. CASE /\ codes' = codes + 1
             /\ \E c \in code :
                  SetConfirmationCode({[c EXCEPT !.value = codes + 1]}, TRUE)
    <3>1. PICK c \in code : code' = {[c EXCEPT !.value = codes + 1]}
      BY <2>2 DEF SetConfirmationCode
    <3>2. [c EXCEPT !.value = codes + 1].value = codes + 1
      BY <1>2 DEF ConfirmationCode
    <3>3. QED
      BY <2>2, <3>1, <3>2 DEF LastTextIsAccepted
  <2>3. QED
    BY <1>6, <2>1, <2>2 DEF SendPinResetConfirmationCode, CurrentCodes
<1>7. CASE ClearPinReset \/ DeleteTrigger \/ Tick \/ UNCHANGED vars
  BY <1>2, <1>7
     DEF ClearPinReset, DeleteTrigger, Tick, vars, LastTextIsAccepted
<1>8. QED
  BY <1>1, <1>3, <1>4, <1>5, <1>6, <1>7 DEF Next, RunJob

(***************************************************************************)
(* Without rollbacks the code in the last text message is the one that is  *)
(* accepted, however late the job of the batch service runs and for        *)
(* whichever request, and whatever stale links the devices use.            *)
(***************************************************************************)
THEOREM LastTextCounts ==
  ASSUME "fail" \notin Habits
  PROVE  Spec => []LastTextIsAccepted
<1>1. Init => LastTextIsAccepted
  BY DEF Init, LastTextIsAccepted
<1>2. IInv /\ LastTextIsAccepted /\ [Next]_vars => LastTextIsAccepted'
  BY NextLastText
<1>3. QED
  BY <1>1, <1>2, Invariance, PTL DEF Spec
-----------------------------------------------------------------------------
(***************************************************************************)
(* The parts that need a prompt batch service and no rollback.  What a     *)
(* trigger that is not deleted yet stands for is over, so a trigger that   *)
(* a new request finds is one of a job that is still to run.               *)
(***************************************************************************)
PromptInv ==
  /\ IInv
  /\ PendingIsScheduled
  /\ \A t \in trigger : (t.ran => t.due <= now) /\ t.due <= now + Delay

(* The invariant of a prompt batch service holds initially. *)
LEMMA InitPromptInv == Init => PromptInv
  BY InitIInv
     DEF Init, PromptInv, PendingIsScheduled

(* Every step preserves it, if the batch service is prompt and nothing fails. *)
LEMMA NextPromptInv ==
  ASSUME "slow" \notin Habits, "fail" \notin Habits, PromptInv, [Next]_vars
  PROVE  PromptInv'
<1>1. IInv /\ IInv' /\ TypeOK /\ TypeOK'
  BY NextIInv DEF PromptInv, IInv
<1>2. Outcomes = {TRUE}
  BY DEF Outcomes
<1>3. /\ now \in Nat /\ codes \in Nat /\ Delay \in Nat /\ Expiry \in Nat
      /\ \A c \in code : c.created \in Nat /\ c.value \in Nat
      /\ \A t \in trigger : t.due \in Nat /\ t.ran \in BOOLEAN
  BY <1>1, PinResetAssumption DEF TypeOK, ConfirmationCode, Trigger
<1>4. ASSUME RequestPinReset(TRUE)
      PROVE  PromptInv'
  <2>1. ~BatchIsBusy /\ now' = now
    BY <1>4 DEF RequestPinReset, MayUse, InTime
  <2>2. CASE Delay = 0
    <3>1. /\ code' = {NewCode(codes + 1)} /\ codes' = codes + 1
          /\ trigger' = trigger
      BY <1>4, <2>2 DEF RequestPinReset, SetConfirmationCode
    <3>2. NewCode(codes + 1).value = codes + 1 /\ codes + 1 # NoValue
      BY <1>3 DEF NewCode, NoValue
    <3>3. QED
      BY <1>1, <2>1, <3>1, <3>2
         DEF PromptInv, PendingIsScheduled, IsPending
  <2>3. CASE Delay # 0
    <3>1. /\ code' = {NewCode(NoValue)} /\ codes' = codes
          /\ trigger' = Scheduled
      BY <1>4, <2>3 DEF RequestPinReset, SetConfirmationCode
    <3>2. NewCode(NoValue).value = NoValue /\ NewCode(NoValue).created = now
      BY DEF NewCode
    <3>3. \E t \in trigger' : ~t.ran /\ t.due <= now + Delay
      <4>1. CASE trigger = {}
        BY <1>3, <3>1, <4>1 DEF Scheduled
      <4>2. CASE trigger # {}
        <5>1. PICK t \in trigger : TRUE
          BY <4>2
        <5>2. t.due > now
          BY <1>3, <2>1, <5>1 DEF BatchIsBusy
        <5>3. ~t.ran
          BY <1>3, <5>1, <5>2 DEF PromptInv
        <5>4. QED
          BY <3>1, <4>2, <5>1, <5>3 DEF Scheduled, PromptInv
      <4>3. QED
        BY <4>1, <4>2
    <3>4. \A t \in trigger' : (t.ran => t.due <= now) /\ t.due <= now + Delay
      <4>1. CASE trigger = {}
        BY <1>3, <3>1, <4>1 DEF Scheduled
      <4>2. CASE trigger # {}
        BY <3>1, <4>2 DEF Scheduled, PromptInv
      <4>3. QED
        BY <4>1, <4>2
    <3>5. QED
      BY <1>1, <2>1, <3>1, <3>2, <3>3, <3>4
         DEF PromptInv, PendingIsScheduled, IsPending
  <2>4. QED
    BY <2>2, <2>3
<1>5. ASSUME ResendPinReset(TRUE)
      PROVE  PromptInv'
  <2>1. /\ code' = {NewCode(codes + 1)} /\ codes' = codes + 1
        /\ UNCHANGED <<now, trigger>>
    BY <1>5 DEF ResendPinReset, SetConfirmationCode
  <2>2. NewCode(codes + 1).value = codes + 1 /\ codes + 1 # NoValue
    BY <1>3 DEF NewCode, NoValue
  <2>3. QED
    BY <1>1, <2>1, <2>2
       DEF PromptInv, PendingIsScheduled, IsPending
<1>6. ASSUME NEW provided \in 0..codes, VerifyPinReset(provided)
      PROVE  PromptInv'
  <2>1. PICK c \in code : code' = {WithAttempt(c)}
    BY <1>6 DEF VerifyPinReset
  <2>2. /\ WithAttempt(c).value = c.value
        /\ WithAttempt(c).created = c.created
    BY <1>1 DEF WithAttempt, TypeOK, ConfirmationCode
  <2>3. UNCHANGED <<now, trigger, codes>>
    BY <1>6 DEF VerifyPinReset
  <2>4. QED
    BY <1>1, <2>1, <2>2, <2>3
       DEF PromptInv, PendingIsScheduled, IsPending,
           IsExpired
<1>7. ASSUME SendPinResetConfirmationCode(TRUE)
      PROVE  PromptInv'
  <2>1. PICK t \in trigger : t.due <= now /\ trigger' = {[t EXCEPT !.ran = TRUE]}
    BY <1>7 DEF SendPinResetConfirmationCode
  <2>2. [t EXCEPT !.ran = TRUE].due = t.due
    BY <1>1 DEF TypeOK, Trigger
  <2>3. now' = now
    BY <1>7 DEF SendPinResetConfirmationCode
  <2>4. \A u \in trigger' : (u.ran => u.due <= now') /\ u.due <= now' + Delay
    BY <2>1, <2>2, <2>3 DEF PromptInv
  <2>5. CASE code = {} /\ UNCHANGED <<code, codes>>
    BY <1>1, <2>4, <2>5
       DEF PromptInv, PendingIsScheduled
  <2>6. CASE /\ codes' = codes + 1
             /\ \E c \in code :
                  SetConfirmationCode({[c EXCEPT !.value = codes + 1]}, TRUE)
    <3>1. PICK c \in code : code' = {[c EXCEPT !.value = codes + 1]}
      BY <2>6 DEF SetConfirmationCode
    <3>2. /\ [c EXCEPT !.value = codes + 1].value = codes + 1
          /\ codes + 1 # NoValue
      BY <1>1, <1>3 DEF TypeOK, ConfirmationCode, NoValue
    <3>3. QED
      BY <1>1, <2>4, <2>6, <3>1, <3>2
         DEF PromptInv, PendingIsScheduled, IsPending
  <2>7. QED
    BY <1>7, <2>5, <2>6 DEF SendPinResetConfirmationCode, CurrentCodes
<1>8. ASSUME ClearPinReset
      PROVE  PromptInv'
  BY <1>1, <1>8
     DEF ClearPinReset, PromptInv, PendingIsScheduled
<1>9. ASSUME DeleteTrigger
      PROVE  PromptInv'
  <2>1. /\ \A t \in trigger : t.ran
        /\ trigger' = {} /\ UNCHANGED <<now, code, codes>>
    BY <1>1, <1>9 DEF DeleteTrigger, TypeOK, IsOptional
  <2>2. \A c \in code : ~IsPending(c)
    BY <2>1 DEF PromptInv, PendingIsScheduled
  <2>3. QED
    BY <1>1, <2>1, <2>2
       DEF PromptInv, PendingIsScheduled, IsPending,
           IsExpired
<1>10. ASSUME Tick
       PROVE  PromptInv'
  <2>1. now' = now + 1 /\ UNCHANGED <<code, trigger, codes>>
    BY <1>10 DEF Tick
  <2>2. \A c \in code : IsPending(c)' => IsPending(c)
    BY <1>3, <2>1 DEF IsPending, IsExpired
  <2>3. \A t \in trigger : (t.ran => t.due <= now') /\ t.due <= now' + Delay
    BY <1>3, <2>1 DEF PromptInv
  <2>4. QED
    BY <1>1, <2>1, <2>2, <2>3
       DEF PromptInv, PendingIsScheduled
<1>11. ASSUME UNCHANGED vars
       PROVE  PromptInv'
  BY <1>1, <1>11
     DEF vars, PromptInv, PendingIsScheduled, IsPending,
         IsExpired
<1>12. QED
  BY <1>2, <1>4, <1>5, <1>6, <1>7, <1>8, <1>9, <1>10, <1>11 DEF Next, RunJob

(***************************************************************************)
(* Without rollbacks and with a prompt batch service, a code that is       *)
(* awaited has a job that will run in time, whatever stale links the       *)
(* devices use.                                                            *)
(***************************************************************************)
THEOREM PendingCodesComeInTime ==
  ASSUME "slow" \notin Habits, "fail" \notin Habits
  PROVE  Spec => []PendingIsScheduled
<1>1. PromptInv => PendingIsScheduled
  BY DEF PromptInv
<1>2. PromptInv /\ [Next]_vars => PromptInv'
  BY NextPromptInv
<1>3. QED
  BY <1>1, <1>2, InitPromptInv, PTL DEF Spec
-----------------------------------------------------------------------------
(***************************************************************************)
(* Without stale links, a trigger waits exactly for the code that was      *)
(* requested when it was scheduled, so a request never finds one.          *)
(***************************************************************************)
OnTimeInv ==
  /\ TypeOK
  /\ \A t \in trigger :
       IF t.ran THEN t.due <= now
       ELSE \E c \in code : c.value = NoValue /\ t.due = c.created + Delay
  /\ \A c \in code :
       c.value = NoValue =>
         /\ now <= c.created + Delay
         /\ \E t \in trigger : ~t.ran /\ t.due = c.created + Delay

(* Every step preserves that a code to come has its job, if no link is stale either. *)
LEMMA NextOnTimeInv ==
  ASSUME Habits = {}, Delay <= Expiry, OnTimeInv, IInv, [Next]_vars
  PROVE  OnTimeInv'
<1>1. TypeOK /\ TypeOK'
  BY NextIInv DEF IInv
<1>2. Outcomes = {TRUE} /\ (InTime <=> ~BatchIsBusy)
      /\ (\A link : MayUse(link) <=> InTime /\ link \in Links)
  BY DEF Outcomes, InTime, MayUse
<1>3. /\ now \in Nat /\ codes \in Nat /\ Delay \in Nat /\ Expiry \in Nat
      /\ \A c \in code : c.created \in Nat /\ c.value \in Nat
      /\ \A t \in trigger : t.due \in Nat /\ t.ran \in BOOLEAN
      /\ \A c, d \in code : c = d
      /\ \A t, u \in trigger : t = u
  BY <1>1, PinResetAssumption
     DEF TypeOK, ConfirmationCode, Trigger, IsOptional
<1>4. ASSUME ~BatchIsBusy
      PROVE  \A t \in trigger : t.due > now /\ ~t.ran
  BY <1>3, <1>4 DEF BatchIsBusy, OnTimeInv
\* With a link to verify, resend or clear, the code has come.
<1>5. ASSUME ~BatchIsBusy, NEW link \in {"verify", "resend", "clear"},
             link \in Links
      PROVE  trigger = {} /\ \A c \in code : c.value # NoValue
  <2>1. \E c \in code : c.value # NoValue
    BY <1>5 DEF Links
  <2>2. \A c \in code : c.value # NoValue
    BY <1>3, <2>1
  <2>3. QED
    BY <1>4, <1>5, <2>2 DEF OnTimeInv
<1>6. ASSUME RequestPinReset(TRUE)
      PROVE  OnTimeInv'
  <2>1. ~BatchIsBusy /\ now' = now /\ ~IsValidConfirmationCode
    BY <1>2, <1>6 DEF RequestPinReset, Links
  <2>2. trigger = {}
    <3>1. SUFFICES ASSUME NEW t \in trigger PROVE FALSE
      OBVIOUS
    <3>2. PICK c \in code : t.due = c.created + Delay
      BY <1>4, <2>1 DEF OnTimeInv
    <3>3. c.created + Expiry < now
      BY <2>1 DEF IsValidConfirmationCode, IsExpired
    <3>4. QED
      BY <1>3, <1>4, <2>1, <3>2, <3>3
  <2>3. CASE Delay = 0
    <3>1. code' = {NewCode(codes + 1)} /\ trigger' = trigger
      BY <1>6, <2>3 DEF RequestPinReset, SetConfirmationCode
    <3>2. NewCode(codes + 1).value # NoValue
      BY <1>3 DEF NewCode, NoValue
    <3>3. QED
      BY <1>1, <2>2, <3>1, <3>2 DEF OnTimeInv
  <2>4. CASE Delay # 0
    <3>1. /\ code' = {NewCode(NoValue)}
          /\ trigger' = {[due |-> now + Delay, ran |-> FALSE]}
      BY <1>6, <2>2, <2>4 DEF RequestPinReset, SetConfirmationCode, Scheduled
    <3>2. NewCode(NoValue).value = NoValue /\ NewCode(NoValue).created = now
      BY DEF NewCode
    <3>3. now <= now + Delay
      BY <1>3
    <3>4. QED
      BY <1>1, <2>1, <3>1, <3>2, <3>3 DEF OnTimeInv
  <2>5. QED
    BY <2>3, <2>4
<1>7. ASSUME ResendPinReset(TRUE)
      PROVE  OnTimeInv'
  <2>1. ~BatchIsBusy /\ "resend" \in Links
    BY <1>2, <1>7 DEF ResendPinReset
  <2>2. code' = {NewCode(codes + 1)} /\ trigger' = {}
    BY <1>5, <1>7, <2>1 DEF ResendPinReset, SetConfirmationCode
  <2>3. NewCode(codes + 1).value # NoValue
    BY <1>3 DEF NewCode, NoValue
  <2>4. QED
    BY <1>1, <2>2, <2>3 DEF OnTimeInv
<1>8. ASSUME NEW provided \in 0..codes, VerifyPinReset(provided)
      PROVE  OnTimeInv'
  <2>1. ~BatchIsBusy /\ "verify" \in Links
    BY <1>2, <1>8 DEF VerifyPinReset
  <2>2. trigger' = {} /\ \E c \in code : code' = {WithAttempt(c)}
    BY <1>5, <1>8, <2>1 DEF VerifyPinReset
  <2>3. \A c \in code : WithAttempt(c).value = c.value /\ c.value # NoValue
    BY <1>1, <1>5, <2>1 DEF WithAttempt, TypeOK, ConfirmationCode
  <2>4. QED
    BY <1>1, <2>2, <2>3 DEF OnTimeInv
<1>9. ASSUME ClearPinReset
      PROVE  OnTimeInv'
  <2>1. ~BatchIsBusy /\ "clear" \in Links
    BY <1>2, <1>9 DEF ClearPinReset
  <2>2. trigger' = {} /\ code' = {}
    BY <1>5, <1>9, <2>1 DEF ClearPinReset
  <2>3. QED
    BY <1>1, <2>2 DEF OnTimeInv
<1>10. ASSUME SendPinResetConfirmationCode(TRUE)
       PROVE  OnTimeInv'
  <2>1. PICK t \in trigger : /\ ~t.ran /\ t.due <= now
                              /\ trigger' = {[t EXCEPT !.ran = TRUE]}
    BY <1>10 DEF SendPinResetConfirmationCode
  <2>2. [t EXCEPT !.ran = TRUE].due = t.due /\ [t EXCEPT !.ran = TRUE].ran
    BY <1>1 DEF TypeOK, Trigger
  <2>3. now' = now
    BY <1>10 DEF SendPinResetConfirmationCode
  <2>4. code # {}
    BY <2>1 DEF OnTimeInv
  <2>5. PICK c \in code : code' = {[c EXCEPT !.value = codes + 1]}
    BY <1>10, <2>4
       DEF SendPinResetConfirmationCode, CurrentCodes, SetConfirmationCode
  <2>6. [c EXCEPT !.value = codes + 1].value # NoValue
    BY <1>1, <1>3 DEF TypeOK, ConfirmationCode, NoValue
  <2>7. QED
    BY <1>1, <2>1, <2>2, <2>3, <2>5, <2>6 DEF OnTimeInv
<1>11. ASSUME DeleteTrigger
       PROVE  OnTimeInv'
  <2>1. trigger' = {} /\ UNCHANGED <<now, code>> /\ \A t \in trigger : t.ran
    BY <1>3, <1>11 DEF DeleteTrigger
  <2>2. \A c \in code : c.value # NoValue
    BY <2>1 DEF OnTimeInv
  <2>3. QED
    BY <1>1, <2>1, <2>2 DEF OnTimeInv
<1>12. ASSUME Tick
       PROVE  OnTimeInv'
  <2>1. now' = now + 1 /\ UNCHANGED <<code, trigger>> /\ ~BatchIsBusy
    BY <1>2, <1>12 DEF Tick
  <2>2. \A c \in code : c.value = NoValue => now' <= c.created + Delay
    BY <1>3, <1>4, <2>1 DEF OnTimeInv
  <2>3. QED
    BY <1>1, <1>4, <2>1, <2>2 DEF OnTimeInv
<1>13. ASSUME UNCHANGED vars
       PROVE  OnTimeInv'
  BY <1>1, <1>13 DEF vars, OnTimeInv
<1>14. QED
  BY <1>2, <1>6, <1>7, <1>8, <1>9, <1>10, <1>11, <1>12, <1>13 DEF Next, RunJob

(***************************************************************************)
(* When every step goes as it should, a code comes exactly when it was     *)
(* announced: the trigger that a clear leaves, or that a request finds, is *)
(* never one that would bring the code early.                              *)
(***************************************************************************)
THEOREM CodesComeOnTime ==
  ASSUME Habits = {}, Delay <= Expiry
  PROVE  Spec => []CodeIsOnTime
<1>1. Init => OnTimeInv
  BY InitIInv DEF Init, OnTimeInv, IInv
<1>2. OnTimeInv => CodeIsOnTime
  BY DEF OnTimeInv, CodeIsOnTime, IsPending
<1>3. OnTimeInv /\ IInv /\ [Next]_vars => OnTimeInv'
  BY NextOnTimeInv
<1>4. QED
  BY <1>1, <1>2, <1>3, Invariance, PTL DEF Spec
=============================================================================
