------------------------------ MODULE MCDrivers -----------------------------
(* Instances of the drivers for TLC. *)
EXTENDS Drivers

Host(name, scheme) == [name |-> name, scheme |-> scheme]

Driver(kind, host, port, secure) == [kind |-> kind, host |-> host, port |-> port, secure |-> secure]

MCConfigurations ==
    {Driver("web", Host("a", Absent), "8080", Absent), Driver("web", Host("a", "http"), Absent, "yes"),
     Driver("web", Host(Absent, Absent), Absent, "yes"),
     Driver("native", Host(Absent, Absent), Absent, Absent),
     Driver("native", Host("a", Absent), Absent, "no")}

Record(key, value) == [key |-> key, value |-> value]

(* A snapshot has each key once, a change may have one twice.              *)
MCSnapshots == {<< >>, <<Record("k", "v"), Record("j", "v")>>}
MCDeltas ==
    {<<Record("k", v)>> : v \in {"v", "w", Absent}} \cup
    {<<Record("j", "w"), Record("k", "w")>>, <<Record("j", "w"), Record("j", Absent)>>,
     <<Record("k", Absent), Record("j", "v"), Record("k", "v")>>}
=============================================================================
