----------------------------- MODULE MCDesktopApp -----------------------------
\* Instances of DesktopApp for TLC.
EXTENDS DesktopApp, TLC

CONSTANTS k1, k2, c1, c2, p1, p2, s1

Quietly == [driver |-> "root", commands |-> {}, cmds |-> {c1}, savers |-> {}, changes |-> 0, errors |-> FALSE, shown |-> {}]

\* The application alone; plugins that are enabled; telemetry and a repeated
\* command; saves and errors; configurations, one after the other.
Scenarios ==
    { [Quietly EXCEPT !.driver = "direct"],
      [Quietly EXCEPT !.commands = {"enable"}, !.shown = {"plugins"}],
      [Quietly EXCEPT !.commands = {"disable"}, !.changes = 1, !.shown = {"plugins"}],
      [Quietly EXCEPT !.savers = Saver, !.errors = TRUE, !.shown = {"runtime", "settings"}],
      [Quietly EXCEPT !.commands = {"config"}, !.cmds = {c1, c2}] }

=============================================================================
