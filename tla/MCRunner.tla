------------------------------ MODULE MCRunner ------------------------------
EXTENDS Runner

\* Two releases with the same file name and a third with another one
MCBinName == [r \in Releases |-> IF r = 3 THEN "vault-next" ELSE "vault"]
=============================================================================
