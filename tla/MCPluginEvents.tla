---------------------------- MODULE MCPluginEvents ----------------------------
\* Instances of PluginEvents for TLC.
EXTENDS PluginEvents, TLC

CONSTANTS p1, p2

\* The coordinator sees a plugin restart, the list follower sees its log.
Sessions == "list" :> 1 @@ "coordinator" :> 2
Logs == "list" :> 2 @@ "coordinator" :> 0

=============================================================================
