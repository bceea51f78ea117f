------------------------------ MODULE MCInfra -------------------------------
EXTENDS Infra, TLC

\* One or two masters, up to one worker, two sizes of instances.
MCWants ==
  {[count |-> [Master |-> m, Node |-> n], size |-> [Master |-> s, Node |-> "small"]] :
     m \in 1 .. 2, n \in 0 .. 1, s \in {"small", "large"}}

\* No address is treated differently from another.
MCSymmetry == Permutations(Addresses)
=============================================================================
