------------------------------- MODULE MCSrmCore -------------------------------
(* SrmCore for TLC: a device with a clock and a regulator, and one with a     *)
(* regulator; requests by name, by a name that both have, by one that none    *)
(* has, and of every kind.                                                    *)
EXTENDS SrmCore

CONSTANTS d1, d2, c1, r1, r2

MCDevices == {d1, d2}
MCClks == [d \in MCDevices |-> IF d = d1 THEN <<c1>> ELSE <<>>]
MCRegus == [d \in MCDevices |-> IF d = d1 THEN <<r1>> ELSE <<r2>>]
MCOrder == <<d1, d2>>

SrmRequest(who, type, rsc, index, enable, volts) ==
    [who |-> who, type |-> type, rsc |-> rsc, index |-> index, enable |-> enable, volts |-> volts]
MCRequests ==
    {SrmRequest({d1}, "set", "regu", 1, enable, TRUE) : enable \in BOOLEAN}
        \cup {SrmRequest({d1, d2}, "set", "regu", 1, TRUE, FALSE)}
        \cup {SrmRequest({}, "get", "regu", 1, FALSE, FALSE), SrmRequest({d2}, "get", "regu", 1, FALSE, FALSE),
              SrmRequest({d1}, "set", "clock", 1, FALSE, FALSE), SrmRequest({d2}, "set", "clock", 1, FALSE, FALSE),
              SrmRequest({d1}, "bad", "regu", 1, FALSE, FALSE)}
================================================================================
