---------------------------- MODULE MCSwitchTest ----------------------------
(* The seven ports of the switch, and devices with at most one defect.      *)
EXTENDS SwitchTest

MCPorts == <<0, 1, 2, 3, 4, 5, 6>>

Good == [eeprom |-> TRUE, engine |-> TRUE, link |-> [p \in Ports |-> 0],
         at |-> <<"flow", "1000M", 0>>, lost |-> 0]

Points ==
  ({"flow"} \X {"10M", "100M", "1000M"} \X (0 .. 6))
    \cup ({"perf"} \X {"10M", "100M", "1000M"} \X (0 .. 4))
    \cup {<<"p5", "1000M", 0>>, <<"p5", "1000M", 4>>,
          <<"p6 slow", "1000M", 6>>, <<"p6 fast", "1000M", 6>>}

MCDevices ==
  {Good, [Good EXCEPT !.eeprom = FALSE], [Good EXCEPT !.engine = FALSE],
   [Good EXCEPT !.link = [p \in Ports |-> IF p = 4 THEN MaxTries - 1 ELSE 1]],
   [Good EXCEPT !.link[6] = MaxTries]}
    \cup {[Good EXCEPT !.link[p] = MaxTries] : p \in 0 .. 4}
    \cup {[Good EXCEPT !.at = pt, !.lost = n] : pt \in Points, n \in 1 .. TestPkt}
=============================================================================
