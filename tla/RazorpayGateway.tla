-------------------------- MODULE RazorpayGateway --------------------------
(***************************************************************************)
(* The two ways to Razorpay (sampark/integrations/gateway.py over          *)
(* razorpay_mcp.py and razorpay_rest.py) and, outside this repository, the *)
(* merchant's account behind them: its payment links and the attempts at   *)
(* paying them.  A call may be answered, refused, not be answered, or be   *)
(* carried out and its answer lost.                                        *)
(***************************************************************************)
EXTENDS Integers, FiniteSets

CONSTANTS
  Credentials, \* what MCP may be given: the account that its token opens, that of
               \* the REST key in test mode ("same") or another, or none; and whether
               \* RAZORPAY_MCP_SKIP_LEDGER_CHECK switches the check of it off
  References,  \* 1..n: the reference ids, in the order they are made up
  Payments     \* 1..n: the attempts at paying, in the order of created_at

ASSUME GatewayAssumption ==
  /\ Credentials \subseteq [token : {"none", "same", "other"}, unchecked : BOOLEAN]
  /\ References \subseteq Nat \ {0} /\ Payments \subseteq Nat \ {0}

VARIABLES
  mcp,       \* the credential that this process has
  nonEmpty,  \* the ledgers with payment links in them: the test ledger, others
  proven,    \* _LEDGER_CHECK_PASSED
  attempts   \* per payment: its status, and the reference of the link it is for

gateway == <<mcp, nonEmpty, proven, attempts>>

Link == [ref : References, via : {"mcp", "rest"}]
NoAttempt == [status |-> "none", ref |-> 0]

\* The ledger a link is created in.  A REST key that is not of test mode is
\* refused by RazorpayConfig.from_env.
McpLedger == IF mcp.token = "same" THEN "test" ELSE "other"

GatewayInit ==
  /\ mcp \in Credentials
  /\ nonEmpty \in {{}, {"test"}}
  /\ proven = FALSE
  /\ attempts = [p \in Payments |-> NoAttempt]

-----------------------------------------------------------------------------
(* Writing: MCP only if it is known to be the account of the REST key, or if  *)
(* the operator does not want to know.                                        *)

\* Mistake: an empty ledger has nothing that speaks against the credential.
NothingAgainst == "test" \in nonEmpty => McpLedger = "test"

\* The check of assert_same_test_ledger when both ledgers can be read: the two
\* lists of links share one.
LedgersOverlap == "test" \in nonEmpty /\ McpLedger = "test"

\* _mcp_write_blocked_reason.  Only a pass of the check is remembered, and a ledger
\* that cannot be read withholds MCP from this one write.  A check that is switched
\* off withholds nothing, and proves nothing.
Withheld ==
  /\ mcp.token = "none" \/ (~mcp.unchecked /\ ~proven)
  /\ UNCHANGED proven
NotWithheld ==
  /\ mcp.token # "none"
  /\ IF mcp.unchecked THEN UNCHANGED proven
     ELSE (proven \/ LedgersOverlap) /\ proven' = TRUE

\* create_demo_payment_link.  MCP's refusal and MCP's silence both lead to REST,
\* and a silent server may have created the link; `used' are the ledgers written.
CreatedViaMcp == NotWithheld /\ nonEmpty' = nonEmpty \cup {McpLedger}

TriedMcp(used) ==
  \/ Withheld /\ used = {}
  \/ NotWithheld /\ used \in {{}, {McpLedger}}

CreatedViaRest ==
  \E used \in SUBSET {McpLedger} :
    TriedMcp(used) /\ nonEmpty' = nonEmpty \cup used \cup {"test"}

\* GatewayUnavailable: neither transport answered, whatever they did.
NoTransport ==
  \E used \in SUBSET {McpLedger}, more \in SUBSET {"test"} :
    TriedMcp(used) /\ nonEmpty' = nonEmpty \cup used \cup more

-----------------------------------------------------------------------------
(* Reading, and what a payer does. *)

\* Someone tries to pay a link.  A link that was paid takes no further attempt.
TryToPay(p, ref) ==
  /\ attempts[p] = NoAttempt
  /\ \A q \in Payments : q < p => attempts[q] # NoAttempt
  /\ \A q \in Payments : attempts[q] # [status |-> "captured", ref |-> ref]
  /\ \E status \in {"failed", "captured"} :
       attempts' = [attempts EXCEPT ![p] = [status |-> status, ref |-> ref]]
  /\ UNCHANGED <<mcp, nonEmpty, proven>>

FailedOn(ref) == {p \in Payments : attempts[p] = [status |-> "failed", ref |-> ref]}

\* find_failed_payment: the newest failed attempt the link lists or, if it lists
\* none, the newest whose notes carry the reference.  Notes are copied from a link
\* that has them, one made over MCP.  The link's own status is not asked.
Found(link, listed) ==
  IF listed \/ link.via = "mcp"
  THEN {p \in FailedOn(link.ref) : \A q \in FailedOn(link.ref) : q <= p}
  ELSE {}

-----------------------------------------------------------------------------
\* Whatever account the MCP token turns out to open, and whichever reads and writes
\* failed on the way, links are created in the test ledger only, unless the operator
\* has switched the check off.  And what is remembered as proven is true also then: a
\* write that went unchecked does not vouch for the token.
TestModeOnly ==
  /\ mcp.unchecked \/ nonEmpty \subseteq {"test"}
  /\ proven => McpLedger = "test"

=============================================================================
