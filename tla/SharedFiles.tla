---------------------------- MODULE SharedFiles ----------------------------
(***************************************************************************)
(* The two parts of niyantra that write files of a provider's own program: *)
(* the tokens of Codex, and the settings of Claude Code.                   *)
(***************************************************************************)
EXTENDS ProviderPolling, ClaudeBridge

\* What is shared with a provider's own program: the token file that is rotated
\* while polls use it (module ProviderPolling), and the settings of Claude Code.
SharedFilesHold == PollingHolds /\ BridgeHolds
=============================================================================
