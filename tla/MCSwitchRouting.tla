--------------------------- MODULE MCSwitchRouting ---------------------------
(* Small instances of SwitchRouting.                                         *)
EXTENDS SwitchRouting, FiniteSets

\* Switches of both types, the first with two doors and the others with one.
MCSwitches == {1, 2, 3}
MCNbChannels == [s \in MCSwitches |-> IF s = 1 THEN 2 ELSE 1]
MCTypes == [s \in MCSwitches |->
    IF s = 1 THEN "DIRECT_CONTROL_SWITCH" ELSE "INDIRECT_CONTROL_SWITCH"]

\* A behaviour uses either the second door of switch 1 or switch 3.
MCDoors ==
    3 \in handlers => mqtt.channel # 2 /\ \A s \in MCSwitches : 2 \notin controllers[s]

\* One worker at a time is kept or has been ended by a report, of switch 1, whose
\* timer is the only one a report can meet while it ends.  Switch 3 is connected by
\* connect() only and loses no close command.
Held == UNION {{<<s, c>> : c \in reporting[s] \cup ended[s]} : s \in Switches}
MCReports ==
    /\ Cardinality(Held) <= 1
    /\ \A s \in Switches \ {1} : reporting[s] \cup ended[s] = {}
    /\ missed \subseteq {1}
    /\ \A s \in Switches : s > 2 => retry[s] # "ending" /\ excused[s] = {}

\* No exception ends the program here.
MCSpec == Init /\ [][Next /\ MCDoors' /\ MCReports' /\ ~aborted']_vars

\* One switch with three doors, of which the first alone loses close commands and
\* followers, and one that cannot be reached.
MCTwoSwitches == {1, 2}
MCThreeDoors == [s \in MCTwoSwitches |-> IF s = 1 THEN 3 ELSE 1]
MCBadIp == {2}
MCTwoTypes == [s \in MCTwoSwitches |-> "INDIRECT_CONTROL_SWITCH"]
MCFairSpec ==
    /\ Init /\ [][Next /\ MCReports' /\ excused'[1] \subseteq {1}]_vars
    /\ \A s \in Switches, c \in Channels : WF_vars(Runs(Work(s, c)))
=============================================================================
