----------------------------- MODULE HardPolicy -----------------------------
(***************************************************************************)
(* The hard policy, sampark/policy/hard: eleven rules in a fixed order,    *)
(* each of which admits a candidate, denies it for good, defers it to an   *)
(* instant, or says that the fact it needs is not available.  The first    *)
(* denial or deferral decides; an unavailable fact decides nothing.        *)
(*                                                                         *)
(* MediationWindow uses what this chain does to a candidate from day to    *)
(* day; here it is the function of the candidate and of the facts that     *)
(* the code has.  Instants are hours; a candidate is a record of what the  *)
(* rules read of the request and of the ledger.                            *)
(***************************************************************************)
EXTENDS Integers, Sequences, FiniteSets, FiniteSetsExt

Channels == {"sms", "whatsapp", "voice"}
Intents == {"payment_retry", "cart_recovery", "mandate_retry", "receivables_followup"}

\* REGISTERED_TEMPLATES: what each of the four agents sends.
Templates == {<<"payment_retry", "sms">>, <<"cart_recovery", "whatsapp">>,
              <<"mandate_retry", "whatsapp">>, <<"receivables_followup", "voice">>}
Retries == {"payment_retry", "mandate_retry"}

QuietEnd == 9
QuietStart == 21
ContactCap24H == 1
ContactCap7D == 2

HourOf(t) == t % 24
DayOf(t) == t \div 24
WindowStart(d) == 24 * d + QuietEnd
NextWindowStart(t) == WindowStart(DayOf(t) + 1)

IsQuiet(t) == HourOf(t) >= QuietStart \/ HourOf(t) < QuietEnd
QuietBoundary(t) == IF HourOf(t) < QuietEnd THEN WindowStart(DayOf(t))
                    ELSE NextWindowStart(t)

\* HardVerdict: a denial that names no instant is for good.
Never == -1
Admissible == [verdict |-> "ADMISSIBLE", next |-> Never]
FactUnavailable == [verdict |-> "FACT_UNAVAILABLE", next |-> Never]
Deny == [verdict |-> "INADMISSIBLE", next |-> Never]
Defer(t) == [verdict |-> "INADMISSIBLE", next |-> t]

Rule(applies, verdict) == IF applies THEN verdict ELSE Admissible

\* HARD_RULES, in their order, for candidate f: the request's channel, intent and
\* incentive, the proposed instant, and the ledger's facts about the customer.
HardRules(f) ==
  <<Rule(f.channel \in f.optouts, Deny),
    FactUnavailable,                                             \* consent_scope
    Rule(<<f.intent, f.channel>> \notin Templates, Deny),
    Rule(f.incentive > 0 /\ f.disputed, Deny),
    Rule(f.intent = "cart_recovery", FactUnavailable),           \* rto_flag
    Rule(f.intent \in Retries, FactUnavailable),                 \* refund_in_flight
    Rule(f.incentive > 0, FactUnavailable),                      \* fraud_review
    Rule(f.intent = "mandate_retry", FactUnavailable),           \* mandate_cancellation
    Rule(f.claimed, Defer(NextWindowStart(f.at))),
    Rule(IsQuiet(f.at), Defer(QuietBoundary(f.at))),
    Rule(f.c24 >= ContactCap24H \/ f.c7 >= ContactCap7D, Defer(NextWindowStart(f.at)))>>

\* evaluate_all over any sequence of verdicts.
Deciding(verdicts) == {i \in DOMAIN verdicts : verdicts[i].verdict = "INADMISSIBLE"}

EvaluateAll(verdicts) ==
  IF Deciding(verdicts) = {} THEN Admissible ELSE verdicts[Min(Deciding(verdicts))]

\* How many unavailable facts a decision reports: those met on the way to it.
UnavailableFacts(verdicts) ==
  Cardinality({i \in DOMAIN verdicts :
                 /\ verdicts[i].verdict = "FACT_UNAVAILABLE"
                 /\ \A j \in Deciding(verdicts) : i < j})

IsDeny(v) == v.verdict = "INADMISSIBLE" /\ v.next = Never
IsDefer(v) == v.verdict = "INADMISSIBLE" /\ v.next # Never

=============================================================================
