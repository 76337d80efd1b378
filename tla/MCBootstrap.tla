----------------------------- MODULE MCBootstrap -----------------------------
(* Hosts for checking Bootstrap with TLC: two interfaces, one gateway.      *)
EXTENDS Bootstrap

CONSTANTS i1, i2, g1

MCIfaces == {i1, i2}
MCGateways == {g1}

\* The replies route_lookup may give: a route through g1 on either
\* interface, or a failure.
MCRoutedReplies == {[if_index |-> i, gateway |-> g1] : i \in MCIfaces} \cup {RouteFail}

\* A reply without RTA_GATEWAY: the destination is on the link of i1.
MCOnLinkReplies == {[if_index |-> i1, gateway |-> NoGateway]}
=============================================================================
