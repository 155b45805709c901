------------------------------ MODULE MCEndToEnd ------------------------------
(* Small instances of EndToEnd for TLC.                                     *)
EXTENDS EndToEnd, TLC

\* At each cap and just over it, and one no decoder reads.
AtCaps   == [bytes |-> 3, pixels |-> 2]
TooBig   == [bytes |-> 4, pixels |-> 0]
TooLarge == [bytes |-> 1, pixels |-> 3]

CONSTANTS s1, s2
TwoAndOne == s1 :> <<TooBig, AtCaps>> @@ s2 :> <<TooLarge>>

OnePick == [s \in Sessions |-> <<AtCaps>>]

SmallBodies == {[bytes |-> 2, keys |-> 1, parses |-> TRUE],
                [bytes |-> 3, keys |-> 1, parses |-> TRUE],
                [bytes |-> 2, keys |-> 2, parses |-> TRUE]}
===============================================================================
