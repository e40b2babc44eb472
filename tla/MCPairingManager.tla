--------------------------- MODULE MCPairingManager ---------------------------
(* A small live tab for TLC: two launches, and one controller tab that was   *)
(* reloaded, so that two sessions share its launch.                          *)
EXTENDS PairingManager, TLC

CONSTANTS tab, reloaded, other, l1, l2

MCSessions == {tab, reloaded, other}
MCLaunches == {l1, l2}
MCLaunchOf == (tab :> l1) @@ (reloaded :> l1) @@ (other :> l2)

=============================================================================
