--------------------------- MODULE PolicyCompiler ---------------------------
(***************************************************************************)
(* sampark/policy/compiler and sampark/policy/compiled: a proposed rule of *)
(* one of five families is parsed, validated and turned into a hard rule;  *)
(* the rules that the owner activated are appended to HARD_RULES.          *)
(*                                                                         *)
(* A proposal is a record with a field for every parameter of every        *)
(* family; "none" (NoHour for an hour) stands for a parameter or condition *)
(* that is missing, "other" for a value outside its enumeration.           *)
(***************************************************************************)
EXTENDS HardPolicy

None == "none"
Families == {"contact_frequency_cap", "time_of_day_window", "incentive_prohibition",
             "intent_suppression", "channel_restriction"}

\* FactRef and FACT_AVAILABILITY.
Available == {"contacts_24h", "contacts_7d"}
Facts == Available \cup {"chargeback_90d", "rto_flagged", "consent_scope"}

\* parse_ir raises for anything else.
Parses(p) == p.id # "" /\ p.family \in Families /\ p.fact \in Facts \cup {None}

\* _is_valid_hhmm, with hours for HH:MM and -1 for anything else.
NoHour == 24
ValidHour(h) == h \in 0..NoHour

\* _validate_bounds finds nothing.
InBounds(p) ==
  CASE p.family = "contact_frequency_cap" ->
         p.window \in {"24h", "7d"} /\ p.max >= 0 /\ p.channel \in Channels \cup {None}
    [] p.family = "time_of_day_window" ->
         /\ p.channel \in Channels
         /\ p.before # NoHour \/ p.after # NoHour
         /\ ValidHour(p.before) /\ ValidHour(p.after)
    [] p.family = "intent_suppression" -> p.intent \in Intents \cup {"*"}
    [] p.family = "channel_restriction" -> p.channel \in Channels
    [] p.family = "incentive_prohibition" -> TRUE

\* _validate_conflict: a cap that is no stricter than the system's own.
Redundant(p) ==
  /\ p.family = "contact_frequency_cap"
  /\ p.max >= (IF p.window = "24h" THEN ContactCap24H ELSE ContactCap7D)

Validate(p) ==
  CASE p.fact \in Facts \ Available -> "FACT_UNAVAILABLE"
    [] p.fact \notin Facts \ Available /\ (~InBounds(p) \/ Redundant(p)) -> "REJECTED"
    [] OTHER -> "ACCEPTED"

\* Accepted proposals are the only ones that generate_rule_function does not refuse.
Generable(p) == Parses(p) /\ Validate(p) = "ACCEPTED"

ForbiddenHour(p, h) == \/ p.before # NoHour /\ h < p.before
                       \/ p.after # NoHour /\ h >= p.after

\* The generated rule.  It does not look at the condition.
Compiled(p, f) ==
  CASE p.family = "contact_frequency_cap" ->
         Rule(/\ p.channel \in {None, f.channel}
              /\ (IF p.window = "24h" THEN f.c24 ELSE f.c7) >= p.max,
              Defer(NextWindowStart(f.at)))
    [] p.family = "time_of_day_window" ->
         Rule(f.channel = p.channel /\ ForbiddenHour(p, HourOf(f.at)),
              Defer(NextWindowStart(f.at)))
    [] p.family = "incentive_prohibition" -> Rule(f.incentive > 0, Deny)
    [] p.family = "intent_suppression" -> Rule(p.intent \in {"*", f.intent}, Deny)
    [] p.family = "channel_restriction" -> Rule(f.channel = p.channel, Deny)

\* composed_hard_rules: the eleven, then the activated ones in their order.  One
\* activated proposal that is not accepted makes the whole composition raise.
Composable(activated) == \A i \in DOMAIN activated : Generable(activated[i])

ComposedRules(activated, f) ==
  HardRules(f) \o [i \in DOMAIN activated |-> Compiled(activated[i], f)]

-----------------------------------------------------------------------------
(* What is checked of it, over the proposals P and the candidates F. *)

Decision(activated, f) == EvaluateAll(ComposedRules(activated, f))

\* A rule that denies for good is reported before one that defers: "Ordered by
\* DESCENDING PERMANENCE" (hard/__init__.py:3-4).
PermanenceFirst(F) ==
  \A f \in F : (\E i \in DOMAIN HardRules(f) : IsDeny(HardRules(f)[i]))
                 => IsDeny(EvaluateAll(HardRules(f)))

\* The instant a deferral names is in the future and outside the quiet hours.
DeferralsLandInTheOpen(F) ==
  \A f \in F : LET v == EvaluateAll(HardRules(f))
               IN  IsDefer(v) => v.next > f.at /\ ~IsQuiet(v.next)

\* Activated rules only restrict: what the eleven decide stays as it is.
OnlyRestricts(P, F) ==
  \A p \in P, f \in F :
    Generable(p) /\ EvaluateAll(HardRules(f)) # Admissible
      => Decision(<<p>>, f) = EvaluateAll(HardRules(f))

\* A cap is refused as redundant exactly if it could never decide anything.
RedundantIffInert(P, F) ==
  \A p \in P :
    p.family = "contact_frequency_cap" /\ p.fact = None /\ InBounds(p)
      => (Redundant(p) <=> \A f \in F : Decision(<<p>>, f) = EvaluateAll(HardRules(f)))

\* A time-of-day rule is the one kind whose deferral may never end.  It defers to
\* 09:00, although HardVerdict.defer promises "admissible again at next_eligible_at"
\* (types.py:66), and a rule that forbids that hour defers the candidate again
\* until it is exhausted.
AdmitsAtOpening(p) == ~ForbiddenHour(p, QuietEnd)

DeferralEndsIffOpen(P, F) ==
  \A p \in P : p.family = "time_of_day_window" /\ Generable(p) =>
    (AdmitsAtOpening(p) <=>
       \A f \in F : IsDefer(Compiled(p, f))
                      => Compiled(p, [f EXCEPT !.at = Compiled(p, f).next]) = Admissible)

=============================================================================
