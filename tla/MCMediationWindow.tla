-------------------------- MODULE MCMediationWindow --------------------------
(* Instances of MediationWindow for TLC.  Customer 1 has two requests that    *)
(* arrive on the first day and a third on the second, customer 2 has one; a   *)
(* contact blocks a customer for three days.                                  *)
EXTENDS MediationWindow, TLC

Two == <<1, 1>>
Owners == <<1, 1, 1, 2>>
OneEach == <<1, 0, 1, 1>>
FirstDays == <<0, 0, 1, 0>>
Items == <<1, 2, 3, 4>>

-----------------------------------------------------------------------------
(* The hard rules and the policy compiler as functions.  Candidates on every   *)
(* channel, at hours on both sides of every boundary, of a customer with and   *)
(* without a slot, contacts, a dispute and an opt-out.                         *)

Policy == INSTANCE PolicyCompiler

Hours == {0, 8, 9, 12, 20, 21, 23}
Candidates ==
  [channel : Policy!Channels, intent : {"payment_retry", "cart_recovery"},
   incentive : {0, 100}, at : Hours, optouts : {{}, {"sms"}}, disputed : BOOLEAN,
   claimed : BOOLEAN, c24 : {0, 1}, c7 : {1, 2}]

\* What can be sent in the daytime, and is decided by the hour and the counts.
Sendable == {f \in Candidates : f.incentive = 0 /\ f.optouts = {} /\ ~f.disputed}

Proposal(family) ==
  [id |-> "p", family |-> family, fact |-> Policy!None, window |-> "24h", max |-> 0,
   channel |-> "sms", before |-> Policy!NoHour, after |-> Policy!NoHour, intent |-> "*"]

Caps == {[Proposal("contact_frequency_cap") EXCEPT !.window = w, !.max = n, !.channel = c] :
           w \in {"24h", "7d", "other"}, n \in -1..3, c \in {Policy!None, "sms", "other"}}
TimesOfDay == {[Proposal("time_of_day_window") EXCEPT !.before = b, !.after = a] :
                 b \in Hours \cup {Policy!NoHour, -1}, a \in Hours \cup {Policy!NoHour}}
Others == {[Proposal(y) EXCEPT !.intent = i, !.fact = t] :
             y \in {"incentive_prohibition", "intent_suppression", "channel_restriction"},
             i \in {"*", "cart_recovery", "other"}, t \in Policy!Facts \cup {Policy!None}}

ASSUME HardPolicyHolds ==
  /\ Policy!PermanenceFirst(Candidates)
  /\ Policy!DeferralsLandInTheOpen(Candidates)

ASSUME CompiledPolicyHolds ==
  /\ Policy!OnlyRestricts(Caps \cup TimesOfDay \cup Others, Sendable)
  /\ Policy!RedundantIffInert(Caps, Sendable)
  /\ Policy!DeferralEndsIffOpen(TimesOfDay, Sendable)

=============================================================================
