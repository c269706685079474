-------------------------- MODULE MCProxyExchange --------------------------
(* Values of the constants for the runs of ProxyExchange.                      *)
EXTENDS ProxyExchange

NoIps == {}
AllTargets == Targets
BothRoutes == BOOLEAN
OnlyKeepalive == {TRUE}
EveryAnswer == Responses \ {"none"}
OnlyPoolable == {"poolable"}
=============================================================================
