---------------------------- MODULE MCAdmission ----------------------------
(* Two gateways share an address, two have their own; one file bans the shared
   address and another's. *)
EXTENDS Admission, TLC

CONSTANTS c1, c2, g1, g2, g3, g4, ip1, ip2, ip3

MCContents == {c1, c2}
MCConns == {g1, g2, g3, g4}
MCIps == {ip1, ip2, ip3}
MCIpOf == (g1 :> ip1) @@ (g2 :> ip1) @@ (g3 :> ip2) @@ (g4 :> ip3)
MCBannedBy == (c1 :> {ip1, ip2}) @@ (c2 :> {})
=============================================================================
