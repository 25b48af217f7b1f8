------------------------------- MODULE MCNet -------------------------------
(* An instance of Net for TLC: two DHCP servers, the first of which offers *)
(* an address that a printer uses; the router is gateway, server and way   *)
(* to the only web host.                                                   *)
EXTENDS Net, TLC

MCSubnet == {"gw", "used", "free"}
MCHolder == ("gw" :> "router") @@ ("used" :> "printer")
MCOfferOf == ("s1" :> "used") @@ ("s2" :> "free")
MCOptionsOf ==
    [s \in {"s1", "s2"} |->
        [netmask |-> IF s = "s1" THEN None ELSE "mask", router |-> IF s = "s1" THEN None ELSE "gw", dns |-> "gw"]]
MCHostOf == ("site" :> "far") @@ ("alias" :> "other")
MCStrangers == {[from |-> "far", port |-> 22, flags |-> {"fin"}, seq |-> 3, ack |-> 0, len |-> 0]}
=============================================================================
