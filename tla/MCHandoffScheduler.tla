------------------------- MODULE MCHandoffScheduler -------------------------
EXTENDS HandoffScheduler
Corners == [c \in Causes |-> IF c = 1 THEN 0 ELSE Width * Height - 1]
=============================================================================
