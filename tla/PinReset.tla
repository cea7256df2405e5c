------------------------------ MODULE PinReset ------------------------------
(***************************************************************************)
(* The request of one user to reset the PIN of the app.                    *)
(*                                                                         *)
(* The application service stores a confirmation code that has no value    *)
(* yet, and asks the batch service, in the middle of its transaction, to   *)
(* schedule a job after a delay.  The job generates the value and texts it *)
(* to the user, who has a number of attempts to enter it, can have another *)
(* one texted, and clears the request.                                     *)
(*                                                                         *)
(* Each transaction holds the lock on the user and is one step.  What it   *)
(* did outside the database (the trigger, the text message) stays when it  *)
(* is rolled back.                                                         *)
(***************************************************************************)
EXTENDS Integers

CONSTANTS
  Delay,         \* pinResetRequestConfirmationCodeDelay
  Expiry,        \* pinResetRequestExpirationTime
  MaxAttempts,   \* confirmationCodeMaxAttempts
  Habits,        \* what may happen, see below
  MaxTime,       \* bound on the clock
  MaxCodes       \* bound on the values generated

\* The code does not rule out any of these.
\*   stale  a device uses a link it fetched before the request changed
\*   slow   the batch service is late with a job or with deleting its trigger
\*   fail   a transaction is rolled back after its calls of other services
ASSUME PinResetAssumption ==
  /\ Delay \in Nat /\ Expiry \in Nat
  /\ MaxAttempts \in Nat
  /\ Habits \subseteq {"stale", "slow", "fail"}
  /\ MaxTime \in Nat /\ MaxCodes \in Nat

VARIABLES
  now,       \* the clock
  code,      \* the confirmation code of the user: none or one
  trigger,   \* the trigger of the job for this user: none or one
  codes,     \* the number of values generated and texted, which are the values
  tries      \* history: tries[v] is how often a wrong value was tried for v

vars == <<now, code, trigger, codes, tries>>

\* The value of a code that is still to be generated (null).
NoValue == 0

ConfirmationCode == [created : Nat, value : Nat, attempts : Nat]

\* The trigger exists till the batch service is done with the job it fired.
Trigger == [due : Nat, ran : BOOLEAN]

\* Optional values are sets of at most one element.
IsOptional(S) == \A x, y \in S : x = y

(***************************************************************************)
(* The types.  There is one trigger per user, whatever is requested.       *)
(***************************************************************************)
TypeOK ==
  /\ now \in Nat
  /\ code \subseteq ConfirmationCode /\ IsOptional(code)
  /\ trigger \subseteq Trigger /\ IsOptional(trigger)
  /\ codes \in 0..MaxCodes
  /\ tries \in [1..MaxCodes -> Nat]

Init ==
  /\ now = 0
  /\ code = {} /\ trigger = {}
  /\ codes = 0
  /\ tries = [v \in 1..MaxCodes |-> 0]

----------------------------------------------------------------------------
(* What the devices can do *)

IsExpired(c) == c.created + Expiry < now

IsValidConfirmationCode == \E c \in code : ~IsExpired(c)

\* The links in the user resource.
Links ==
  IF ~IsValidConfirmationCode
  THEN {"request"}
  ELSE IF \E c \in code : c.value # NoValue
  THEN {"verify", "resend", "clear"}
  ELSE {}

\* The batch service has a job to run or a trigger to delete.
BatchIsBusy == \E t \in trigger : t.due <= now

\* What comes after the batch service did its work, unless it is slow.
InTime == "slow" \in Habits \/ ~BatchIsBusy

MayUse(link) == InTime /\ ("stale" \in Habits \/ link \in Links)

\* Whether the transaction of a step commits.
Outcomes == IF "fail" \in Habits THEN {TRUE, FALSE} ELSE {TRUE}

SetConfirmationCode(c, commits) == code' = IF commits THEN c ELSE code

NewCode(value) == [created |-> now, value |-> value, attempts |-> 0]

----------------------------------------------------------------------------
(* The application service *)

\* Mutant: the trigger of an earlier request is not looked up.
ScheduledAnyway == trigger \union {[due |-> now + Delay, ran |-> FALSE]}

\* Mutant: the job is due after the delay has passed.
ScheduledLate ==
  IF trigger # {} THEN trigger
  ELSE {[due |-> now + Delay + 1, ran |-> FALSE]}

\* A trigger that exists already is kept, and no other one is added.
Scheduled ==
  IF trigger # {} THEN trigger
  ELSE {[due |-> now + Delay, ran |-> FALSE]}

\* Without a delay the code is generated and texted at once.
RequestPinReset(commits) ==
  /\ MayUse("request")
  /\ now + Delay <= MaxTime /\ codes < MaxCodes
  /\ IF Delay = 0
     THEN /\ codes' = codes + 1
          /\ SetConfirmationCode({NewCode(codes + 1)}, commits)
          /\ UNCHANGED trigger
     ELSE /\ SetConfirmationCode({NewCode(NoValue)}, commits)
          /\ trigger' = Scheduled
          /\ UNCHANGED codes
  /\ UNCHANGED <<now, tries>>

\* Mutant: the exception for a mismatch rolls the attempt back.
RolledBack(c) == c

WithAttempt(c) == [c EXCEPT !.attempts = @ + 1]

\* A code without a value equals none.  An attempt that fails is counted in a
\* transaction that the exception does not roll back.  One that succeeds
\* changes nothing.
VerifyPinReset(provided) ==
  /\ MayUse("verify")
  /\ \E c \in code :
       /\ ~IsExpired(c)
       /\ MaxAttempts - c.attempts > 0
       /\ c.value = NoValue \/ provided # c.value
       /\ code' = {WithAttempt(c)}
       /\ tries' = IF c.value = NoValue THEN tries
                   ELSE [tries EXCEPT ![c.value] = @ + 1]
  /\ UNCHANGED <<now, trigger, codes>>

\* Mutant: a code is texted that is not stored.
ResendUnstored(commits) ==
  /\ MayUse("resend")
  /\ \E c \in code : ~IsExpired(c) /\ c.value # NoValue
  /\ codes < MaxCodes
  /\ codes' = codes + 1
  /\ UNCHANGED <<now, code, trigger, tries>>

\* The text message has a new code, with attempts and a validity of its own.
ResendPinReset(commits) ==
  /\ MayUse("resend")
  /\ \E c \in code : ~IsExpired(c) /\ c.value # NoValue
  /\ codes < MaxCodes
  /\ codes' = codes + 1
  /\ SetConfirmationCode({NewCode(codes + 1)}, commits)
  /\ UNCHANGED <<now, trigger, tries>>

\* The trigger is left alone.
ClearPinReset ==
  /\ MayUse("clear")
  /\ code # {}
  /\ code' = {}
  /\ UNCHANGED <<now, trigger, codes, tries>>

----------------------------------------------------------------------------
(* The batch service *)

\* Mutant: a job that comes before its time leaves the code as it is.
AwaitedCodes == {c \in code : c.created + Delay <= now}

\* The job takes the code there is, whichever request it was scheduled for.
CurrentCodes == code

\* The job fails when there is no code.
SendPinResetConfirmationCode(commits) ==
  /\ \E t \in trigger :
       /\ ~t.ran /\ t.due <= now
       /\ trigger' = {[t EXCEPT !.ran = TRUE]}
  /\ \/ /\ CurrentCodes = {}
        /\ UNCHANGED <<code, codes>>
     \/ /\ codes < MaxCodes
        /\ codes' = codes + 1
        /\ \E c \in CurrentCodes :
             SetConfirmationCode({[c EXCEPT !.value = codes + 1]}, commits)
  /\ UNCHANGED <<now, tries>>

\* The trigger, which fires once, is deleted after its job, failed or not.
DeleteTrigger ==
  /\ \E t \in trigger : t.ran
  /\ trigger' = {}
  /\ UNCHANGED <<now, code, codes, tries>>

Tick ==
  /\ InTime
  /\ now < MaxTime
  /\ now' = now + 1
  /\ UNCHANGED <<code, trigger, codes, tries>>

RunJob == \E commits \in Outcomes : SendPinResetConfirmationCode(commits)

Next ==
  \/ \E commits \in Outcomes :
       RequestPinReset(commits) \/ ResendPinReset(commits)
  \/ \E provided \in 0..codes : VerifyPinReset(provided)
  \/ ClearPinReset
  \/ RunJob
  \/ DeleteTrigger
  \/ Tick

Spec == Init /\ [][Next]_vars

\* Time passes, and the scheduler fires triggers that are due.
Fairness == WF_vars(Tick) /\ WF_vars(RunJob) /\ WF_vars(DeleteTrigger)

FairSpec == Spec /\ Fairness

----------------------------------------------------------------------------
(* Properties *)

(***************************************************************************)
(* A value is tried with at most MaxAttempts wrong ones, also when the job *)
(* replaces the value of a code, and when steps fail.                      *)
(***************************************************************************)
TryLimit == \A v \in 1..MaxCodes : tries[v] <= MaxAttempts

IsPending(c) == c.value = NoValue /\ ~IsExpired(c)

(***************************************************************************)
(* While the code has no value the user has no link to do anything: a job  *)
(* for it, that will run in time, must be scheduled, though the trigger    *)
(* may be of an earlier request.                                           *)
(***************************************************************************)
PendingIsScheduled ==
  \A c \in code :
    IsPending(c) =>
      \E t \in trigger : ~t.ran /\ t.due <= c.created + Delay

(***************************************************************************)
(* The code of the last text message is the one that is accepted.          *)
(***************************************************************************)
LastTextIsAccepted == \A c \in code : c.value \in {NoValue, codes}

(***************************************************************************)
(* The code comes when it was announced (ConfirmationCodeDelayDto), not    *)
(* earlier or later.                                                       *)
(***************************************************************************)
CodeIsOnTime ==
  \A c \in code :
    IsPending(c) =>
      /\ now <= c.created + Delay
      /\ \E t \in trigger : ~t.ran /\ t.due = c.created + Delay

(***************************************************************************)
(* A request gets its code unless it is cleared.                           *)
(***************************************************************************)
CodeComes ==
  (\E c \in code : IsPending(c)) ~> (\A c \in code : c.value # NoValue)
=============================================================================
