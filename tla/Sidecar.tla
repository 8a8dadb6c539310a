------------------------------ MODULE Sidecar ------------------------------
(***************************************************************************)
(* A sidecar that starts and then answers: Startup fills the registry, and *)
(* what the registry holds decides whether a request with useRcBlock=true  *)
(* reaches the handler of RcBlock.  The relay chain's node is the first    *)
(* instance of the first chain of type relay (getApiByType).               *)
(*                                                                         *)
(* The node is observed from the first request on, and what it did before  *)
(* is left out; so is the refusal of a request, which changes nothing.     *)
(***************************************************************************)
EXTENDS Startup, RcBlock

sidecarVars == <<startVars, vars>>

SidecarInit == StartInit /\ Init

Boot == StartNext /\ UNCHANGED vars

\* validateUseRcBlockMiddleware lets useRcBlock=true through.
ServesRelayBlocks ==
  main = "serving" /\ assetHubInfo.isAssetHub /\ HasRelay

Request == ServesRelayBlocks /\ Arrive /\ UNCHANGED startVars

Answer == /\ \/ AskHead \/ ReadEvents \/ ReadLabel \/ Process \/ ReadInfo \/ Fail
          /\ UNCHANGED startVars

Relay == ServesRelayBlocks /\ Node /\ UNCHANGED startVars

SidecarNext == Boot \/ Request \/ Answer \/ Relay

\* Fairness is that of the start; a request may be suspended for good.
SidecarSpec == SidecarInit /\ [][SidecarNext]_sidecarVars /\ Fairness
=============================================================================
