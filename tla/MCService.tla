----------------------------- MODULE MCService -----------------------------
(* Instances of PrintService. *)
EXTENDS PrintService

Plain(c)   == [cmd |-> c, wait |-> {}]
HeadAndWait == [cmd |-> "headOn", wait |-> {"head"}]

HeatedBody     == {"G280", "M109", "M117"}
ThermalFault   == {{"thermal"}, {"serial", "recoverable"}}
CoolingGcode   == {<<Plain("headOff")>>}
WaitingGcode   == {<<HeadAndWait>>}
NoGcode        == {}
NoMacros       == {}
Releases       == {<<Plain("release")>>}
WaitingMacro   == {<<HeadAndWait>>}
NoTargets      == {{}}
HeadOnly       == {{"head"}}
=============================================================================
