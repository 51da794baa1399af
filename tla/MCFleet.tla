------------------------------ MODULE MCFleet -------------------------------
(* A fleet of a few hosts under command lines that reach every rounding and *)
(* default of --serial and --max-fail.                                      *)
EXTENDS Fleet

None == [unit |-> "none", n |-> 0]
N(n) == [unit |-> "hosts", n |-> n]
Pct(n) == [unit |-> "percent", n |-> n]

MCConfigs ==
  {[forks |-> f, serial |-> s, maxFail |-> m] :
     f \in {0, 1, 2, 5},
     s \in {None, N(0), N(1), N(2), N(7), Pct(0), Pct(50)},
     m \in {None, N(-1), N(1), N(2), Pct(0), Pct(50), Pct(100)}}
=============================================================================
