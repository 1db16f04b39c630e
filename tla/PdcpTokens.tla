----------------------------- MODULE PdcpTokens -----------------------------
(***************************************************************************)
(* The crypto token manager (lib/pdcp/pdcp_crypto_token.h).  A token rides *)
(* on every PDU that is on its way through the crypto workers, and one     *)
(* more belongs to the manager while the entity processes PDUs: whoever    *)
(* returns the last one sets the event that the reconfigurations await.    *)
(***************************************************************************)
EXTENDS Integers

VARIABLES
  tokens,         \* PDUs in flight (UINT32_MAX, after stop(), is -1)
  pending_crypto  \* the event: everything was returned

mngrVars == <<tokens, pending_crypto>>

MngrTypeOK == tokens \in Int /\ pending_crypto \in BOOLEAN

ReturnToken_NewValue ==
  /\ tokens' = tokens - 1
  /\ pending_crypto' = (pending_crypto \/ tokens - 1 = 0)

\* A token comes back, or stop() gives back the one of the manager.
ReturnToken ==
  /\ tokens' = tokens - 1
  /\ pending_crypto' = (pending_crypto \/ tokens = 0)

\* start(): the manager takes its own token again.
StartTokens ==
  /\ tokens' = tokens + 1
  /\ pending_crypto' = FALSE

Drained_NotAwaited == TRUE
\* The await of crypto_awaitable() is over.
Drained == pending_crypto

=============================================================================
