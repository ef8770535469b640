---------------------------- MODULE MCDeployment ----------------------------
(***************************************************************************)
(* Configurations for TLC: two good ones with different secrets and ticket *)
(* keys, and every way of spoiling one field of the first.                 *)
(***************************************************************************)
EXTENDS Deployment, TLC

Good == [network |-> "tcp", addr |-> ":9000", timeout |-> 5,
         issuer |-> "centre", kid |-> "kid1", pem |-> "key1",
         secret |-> "first"]
Other == [Good EXCEPT !.kid = "kid2", !.pem = "key2", !.secret = "second"]

MCConfigs ==
    {Good, Other, [Good EXCEPT !.network = ""], [Good EXCEPT !.addr = ""],
     [Good EXCEPT !.timeout = 0], [Good EXCEPT !.timeout = -1],
     [Good EXCEPT !.issuer = ""], [Good EXCEPT !.kid = ""],
     [Good EXCEPT !.pem = ""], [Good EXCEPT !.pem = "rsa"],
     [Good EXCEPT !.secret = "short"]}

MCSecrets == {"first", "second", "short"}
MCSecretLength == [s \in MCSecrets |-> IF s = "short" THEN 31 ELSE 32]
MCPublicKeys == {"key1", "key2"}
MCTickets == [issuer : {"centre", "else"}, kid : {"", "kid1", "kid2"},
              signer : {"key1", "key2"}]

DeploymentSymmetry == Permutations(Requests) \cup Permutations(Processes)
=============================================================================
