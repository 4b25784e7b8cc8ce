------------------------------ MODULE MCBootcli ------------------------------
(***************************************************************************)
(* Seed lists for Bootcli: a seed without IPs, a seed with a good and an   *)
(* unparsable IP and ports above 65535, a seed whose pubkey does not       *)
(* decode, and an extra port key the switch ignores.                       *)
(***************************************************************************)
EXTENDS Bootcli

SeedNoIP  == [pub |-> "0x01", ips |-> << >>, ports |-> [p \in {} |-> 0]]
SeedTwoIP == [pub |-> "0x02", ips |-> << "10.0.0.2", "10.0.0.x" >>,
              ports |-> ("udp" :> 30303 @@ "tcp" :> 65536 + 26656 @@ "ws" :> 8)]
SeedBadPK == [pub |-> "0xzz", ips |-> << "10.0.0.3" >>, ports |-> ("tcp" :> 7)]

MCSeedLists ==
  { << >>, << SeedNoIP >>, << SeedBadPK, SeedTwoIP >>,
    << SeedTwoIP, SeedNoIP, SeedBadPK, SeedNoIP >> }
=============================================================================
