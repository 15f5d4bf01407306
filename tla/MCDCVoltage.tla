------------------------------ MODULE MCDCVoltage ------------------------------
EXTENDS DCVoltage

CONSTANTS c1, c2

MCChannels == {c1, c2}
MCReset == [c \in MCChannels |-> 0]
MCIdle == [c \in MCChannels |-> IF c = c1 THEN 1 ELSE 0]
MCSelections == {<<c1>>, <<c1, c2>>, <<c2, c1>>}
MCRequests == {<<<<c1>>, [c \in MCChannels |-> 5]>>, <<<<c1>>, [c \in MCChannels |-> 3]>>,
               <<<<c2, c1>>, [c \in MCChannels |-> IF c = c1 THEN 4 ELSE 3]>>}
================================================================================
