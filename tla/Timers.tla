------------------------------- MODULE Timers -------------------------------
(***************************************************************************)
(* What a timer manager promises its callers, without wheels or slots: a   *)
(* timer that was set for a tick is called in exactly that tick, never     *)
(* early, late or twice, unless it is cancelled first.                     *)
(***************************************************************************)
EXTENDS Naturals

CONSTANTS Timer, None   \* None is not a timer and not a tick

VARIABLES
  clock,     \* the tick being worked on
  deadline,  \* the tick each pending timer is set for
  running,   \* the timer whose callback runs
  revoked    \* whether the running timer was cancelled by its callback

vars == <<clock, deadline, running, revoked>>

Pending == {t \in Timer : deadline[t] # None}

Init ==
  /\ clock = 0
  /\ deadline = [t \in Timer |-> None]
  /\ running = None
  /\ revoked = FALSE

SetAfter(t, now) ==
  /\ deadline'[t] \in Nat
  /\ deadline'[t] > now
  /\ deadline' = [deadline EXCEPT ![t] = deadline'[t]]

(* A timer is set for a later tick; with none pending the clock may jump. *)
Set(t) ==
  /\ deadline[t] = None
  /\ running # t
  /\ \/ clock' = clock
     \/ Pending = {} /\ running = None /\ clock' \in Nat
  /\ SetAfter(t, clock')
  /\ UNCHANGED <<running, revoked>>

(* Cancelling is final: a pending timer is forgotten, a running one ends. *)
Cancel(t) ==
  /\ UNCHANGED <<clock, running>>
  /\ \/ /\ deadline[t] # None
        /\ deadline' = [deadline EXCEPT ![t] = None]
        /\ UNCHANGED revoked
     \/ /\ running = t
        /\ revoked' = TRUE
        /\ UNCHANGED deadline

CancelAll ==
  /\ running = None
  /\ deadline' = [t \in Timer |-> None]
  /\ UNCHANGED <<clock, running, revoked>>

Call(t) ==
  /\ running = None
  /\ deadline[t] = clock
  /\ running' = t
  /\ deadline' = [deadline EXCEPT ![t] = None]
  /\ revoked' = FALSE
  /\ UNCHANGED clock

(* The callback ends; only a timer that was not cancelled is set again. *)
Return(t) ==
  /\ running = t
  /\ running' = None
  /\ \/ UNCHANGED deadline
     \/ ~revoked /\ SetAfter(t, clock)
  /\ revoked' = FALSE
  /\ UNCHANGED clock

(* A tick is left only when everything that was due in it has been called. *)
Advance ==
  /\ running = None
  /\ \A t \in Pending : deadline[t] > clock
  /\ clock' = clock + 1
  /\ UNCHANGED <<deadline, running, revoked>>

Next ==
  \/ Advance
  \/ CancelAll
  \/ \E t \in Timer : Set(t) \/ Cancel(t) \/ Call(t) \/ Return(t)

Spec == Init /\ [][Next]_vars
=============================================================================
