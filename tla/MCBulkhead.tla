----------------------------- MODULE MCBulkhead -----------------------------
EXTENDS Bulkhead

CONSTANTS light, heavy, other, fourth

Weigh == [c \in Callers |-> IF c = heavy THEN 2 ELSE 1]
=============================================================================
