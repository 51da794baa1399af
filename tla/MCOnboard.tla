----------------------------- MODULE MCOnboard ------------------------------
(* One operator who onboards two hosts, one of which the agent's key opens, *)
(* and one who works on the same key with all the other commands.           *)
EXTENDS Onboard

C(op, path, execute, hosts) == [op |-> op, path |-> path, execute |-> execute, hosts |-> hosts]
MCInputs ==
  [p \in Operators |->
     IF p = "o1"
       THEN {C("onboard", "main", TRUE, <<"h1", "h2", "h1">>)}
       ELSE {C("ensure", "main", TRUE, <<>>), C("copy", "main", TRUE, <<"h1">>), C("check", "main", FALSE, <<>>),
             C("ensure", "main", FALSE, <<>>), C("onboard", "main", FALSE, <<>>), C("copy", "main", FALSE, <<"h2">>)}]
=============================================================================
