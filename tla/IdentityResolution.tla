------------------------- MODULE IdentityResolution -------------------------
(***************************************************************************)
(* Whose signals are one customer's: sampark/identity/resolution.py.  A    *)
(* signal is known by an id and carries the hashes of a phone number and   *)
(* of an email address, or one of them, or none.  What the hashes are made *)
(* of is left out: two that are equal are the same member of a set.        *)
(* The payment adapter meets signals one at a time and matches each with   *)
(* the rows there are (sampark/demo/razorpay_product.py).                  *)
(***************************************************************************)
EXTENDS Integers, FiniteSets, Folds

(* A union-find structure is what it tells: a partition of its nodes.      *)

\* find, of the nodes of A, and union, of all of them.
Union(P, A) ==
  {c \in P : c \cap A = {}} \cup {A \cup UNION {c \in P : c \cap A # {}}}

\* A node for every signal, united with the nodes of its hashes.  `hashes' is a
\* function from the signals to sets of hashes.
Nodes(hashes, s) == {<<"signal", s>>} \cup {<<"hash", h>> : h \in hashes[s]}

ClassesOf(hashes) ==
  MapThenFoldSet(LAMBDA A, P : Union(P, A), {}, LAMBDA s : Nodes(hashes, s),
                 LAMBDA S : CHOOSE s \in S : TRUE, DOMAIN hashes)

\* resolve_customer_ids: an id is made of the hashes of the class or, if it has
\* none, of its signals.
CustomerIds(hashes) ==
  [s \in DOMAIN hashes |->
     LET class == CHOOSE c \in ClassesOf(hashes) : <<"signal", s>> \in c
         keys == {n \in class : n[1] = "hash"}
     IN  IF keys # {} THEN keys ELSE class]

\* What it is meant to compute: two signals are one person's exactly when no set
\* that is closed under sharing a hash tells them apart.
ClosedUnderSharing(hashes, S) ==
  \A s \in S, t \in DOMAIN hashes : hashes[s] \cap hashes[t] # {} => t \in S

OnePerson(hashes, s, t) ==
  \A S \in SUBSET DOMAIN hashes :
    s \in S /\ ClosedUnderSharing(hashes, S) => t \in S

-----------------------------------------------------------------------------
(* One signal at a time, in the order of the sequence `hashes'.  A row is known  *)
(* by the signal that it was made of, whose hashes it keeps for good.            *)

\* The row that each signal gets: one of those that share a hash with it, or else one
\* of its own.  Of several, the code takes the one whose id, a digest, sorts first.
RowsOneByOne(hashes, row) ==
  \A s \in DOMAIN hashes :
    LET matching == {t \in 1..(s - 1) : row[t] = t /\ hashes[t] \cap hashes[s] # {}}
    IN  row[s] \in IF matching = {} THEN {s} ELSE matching

RowsPossible(hashes) ==
  {row \in [DOMAIN hashes -> DOMAIN hashes] : RowsOneByOne(hashes, row)}

=============================================================================
