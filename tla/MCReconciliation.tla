-------------------------- MODULE MCReconciliation --------------------------
(* What a session knows of its thread, for TLC: its history (a thread of two items and a
   descendant of one) or, in other behaviours, its settings (one that an answer to a
   resume covers and one that only notifications tell). *)
EXTENDS HistoryReplay, SettingsSync, TLC

CONSTANTS root, child, i1, i2, c1
ReplayThreads == <<root, child>>
ItemThread == (i1 :> root) @@ (i2 :> root) @@ (c1 :> child)

VARIABLE part  \* which of the two a behaviour is of

\* What has no part in it is still: of its initial states one will do.
MCInit ==
  /\ Init /\ SettingsInit /\ part \in {"history", "settings"}
  /\ part = "history" => effective = CHOOSE settings \in Settings : TRUE
  /\ part = "settings" => negotiated
MCNext ==
  \/ part = "history" /\ Next /\ UNCHANGED <<settingsVars, part>>
  \/ part = "settings" /\ SettingsNext /\ UNCHANGED <<vars, part>>
MCSpec == MCInit /\ [][MCNext]_<<vars, settingsVars, part>>
=============================================================================
