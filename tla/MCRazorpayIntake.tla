-------------------------- MODULE MCRazorpayIntake --------------------------
(* Instances of RazorpayIntake for TLC.                                       *)
EXTENDS RazorpayIntake

\* The check is of no interest for a token of the REST key's own account.
SameOrOther ==
  {[token |-> "same", unchecked |-> FALSE]} \cup [token : {"other"}, unchecked : BOOLEAN]

TwoLinks == 1..2
ThreePayments == 1..3
FirstAndThird == <<1, 2, 1>>

\* One person, if all three payments are seen together: the first two share an
\* email address, the last two a phone number.
Phone(n) == <<"phone", n>>
Email(n) == <<"email", n>>
SharedInTurn == <<{Phone(1), Email(1)}, {Phone(2), Email(1)}, {Phone(2)}>>

\* The first is due in the afternoon, the second in the evening of the same day, so
\* that it is deferred to the next, and the third in the afternoon of that.
AfternoonEveningNext == <<1, 2, 4>>

\* resolve_customer_ids finds the persons, for every assignment of two phone
\* numbers and two email addresses, or neither, to three signals.
Contacts2 == {p \cup e : p \in {{}, {Phone(1)}, {Phone(2)}},
                         e \in {{}, {Email(1)}, {Email(2)}}}
ASSUME ResolutionFindsPersons ==
  \A hashes \in [1..3 -> Contacts2] :
    LET id == CustomerIds(hashes)
    IN  \A s, t \in 1..3 : id[s] = id[t] <=> OnePerson(hashes, s, t)

\* One at a time, nobody gets a row that was made of another person's payment.
ASSUME OneByOneMixesNobody ==
  \A hashes \in [1..3 -> Contacts2] :
    \A row \in RowsPossible(hashes), s, t \in 1..3 :
      row[s] = row[t] => OnePerson(hashes, s, t)

\* But "one human is one row, incrementally" (RAZORPAY_INTEGRATION.md, section 9) and
\* "two payments from the same phone hash resolve to the SAME customer_id"
\* (normalize.py) do not hold of all orders: in that of SharedInTurn the row of the
\* first two never learns the second one's number, and the third gets another row.
\* Had the second come first, they would all have one.
SharedInAnotherOrder == <<SharedInTurn[2], SharedInTurn[1], SharedInTurn[3]>>
ASSUME OneByOneMaySplit ==
  /\ RowsPossible(SharedInTurn) = {<<1, 1, 3>>}
  /\ SharedInTurn[2] \cap SharedInTurn[3] # {}
  /\ RowsPossible(SharedInAnotherOrder) = {<<1, 1, 1>>}

\* And if the second comes last, it has two rows to choose from, and the order of their
\* digests decides.
ASSUME DigestsMayDecide ==
  RowsPossible(<<SharedInTurn[1], SharedInTurn[3], SharedInTurn[2]>>) =
    {<<1, 2, 1>>, <<1, 2, 2>>}

=============================================================================
