---------------------------- MODULE MCProbeRequests ----------------------------
(***************************************************************************)
(* ProbeRequests for TLC: a handful of destinations of two classes, places *)
(* of one country, and pools that share hosts, repeat a name, miss a class *)
(* or have nothing for a place.                                            *)
(***************************************************************************)
EXTENDS ProbeRequests

Site(name, class, host, incompatible, canary) ==
  [name |-> name, class |-> class, host |-> host, incompatible |-> incompatible,
   canary |-> canary, sound |-> TRUE]

Country == [country |-> "xx", region |-> ""]
North   == [country |-> "xx", region |-> "north"]

Gen    == Site("gen", "connectivity", "a", {}, FALSE)
Portal == Site("portal", "connectivity", "b", {Country}, TRUE)
News   == Site("news", "site", "B", {North}, FALSE)
Shop   == Site("shop", "site", "a", {}, TRUE)
Mail   == Site("mail", "site", "c", {North}, TRUE)
Twin   == Site("gen", "site", "c", {North}, TRUE)

Seed   == <<Gen, Shop>>
Pools  == {<<Gen, Portal, News, Mail>>, <<Portal, Shop>>, <<Gen, Shop, Twin>>, <<Gen, Portal>>}
Sizes  == [connectivity |-> 1, site |-> 1]
AllOf  == {"connectivity", "site"}
Abroad == {[country |-> "", region |-> ""], Country, North}
Pins   == {[x \in {"b", "B:443"} |->
             IF x = "b" THEN [leaf |-> "old", intermediate |-> "ca1"]
             ELSE [leaf |-> "new", intermediate |-> "ca2"]],
           [x \in {"other"} |-> [leaf |-> "", intermediate |-> "ca1"]]}
Spelled == [s \in {"a", "b", "B", "B:443", "c", "other", "echo"} |->
             IF s \in {"B", "B:443"} THEN "b" ELSE s]
Presented == {{"old", "ca1"}, {"new", "ca3"}, {"rogue"}}
NoHosts == {}
================================================================================
