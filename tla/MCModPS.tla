------------------------------ MODULE MCModPS ------------------------------
(* Small instances of ModPS for TLC.                                         *)
EXTENDS ModPS, TLC

CONSTANTS c1, c2, ch1, short, m1

\* Every key is whole; or one channel comes from a packet cut two bytes short.
WholeKeys == [ch \in Channel |-> 16]
ShortKeys == [ch \in Channel |-> IF ch = short THEN 14 ELSE 16]

\* One configuration, which lists every master and allows every channel.
OneConf == {[masters |-> Master, limit |-> {}]}

\* The masters are removed and put back, and a limit is set and lifted.
ThreeConfs == OneConf \cup [masters : {{}, Master}, limit : {{ch1}}]

Symmetry == Permutations(Client)
=============================================================================
