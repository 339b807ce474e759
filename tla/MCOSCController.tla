--------------------------- MODULE MCOSCController ---------------------------
\* Instances of OSCController for TLC.
EXTENDS OSCController, TLC

CONSTANTS s1, s2, c1, c2

Values == {-3, 0, 1, 3}

\* A catalog with one address, and one where the sign and a bit of the value
\* have addresses too, and no datagram holds them all.
Float == [op |-> "float", weight |-> 0, large |-> FALSE]
Catalogs == << <<Float>>, <<Float>>,
               << Float, [op |-> "negative", weight |-> 0, large |-> FALSE], [op |-> "bit", weight |-> 1, large |-> TRUE],
                  [op |-> "bit", weight |-> 2, large |-> FALSE] >> >>

\* OSCQuery's catalog; an external catalog with two services to choose from,
\* with one service and changes of avatar, and with a manual target alone.
Configs ==
    { [catalog |-> "query", target |-> "auto", preferred |-> s1, services |-> {s1}, values |-> {3}, avatars |-> 1, hash |-> 1,
       closes |-> TRUE],
      [catalog |-> "external", target |-> "auto", preferred |-> None, services |-> {s1, s2}, values |-> {3}, avatars |-> 0, hash |-> 1,
       closes |-> TRUE],
      [catalog |-> "external", target |-> "auto", preferred |-> s1, services |-> {s1}, values |-> {}, avatars |-> 2, hash |-> 1,
       closes |-> FALSE],
      [catalog |-> "external", target |-> s2, preferred |-> None, services |-> {}, values |-> {0, 1, -3, Invalid},
       avatars |-> 1, hash |-> 3, closes |-> TRUE] }

=============================================================================
