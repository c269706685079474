----------------------------- MODULE MCConnTable -----------------------------
(* Values for ConnTable's constants that a .cfg cannot write.                 *)
EXTENDS ConnTable

CONSTANT a1

OneIp == {a1}
IpAndUnix == {a1, NoIp}
BothOutcomes == {TRUE, FALSE}
HttpAndForward == {"http", "forward"}
=============================================================================
