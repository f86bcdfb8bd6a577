-------------------------- MODULE MCSecureStore --------------------------
(* The secure store on a small instance: a process of each protocol, a     *)
(* critical credential and another one.                                    *)
EXTENDS SecureStore, TLC

CONSTANTS desktop, mcp, oauth, apiKey, v1, v2

MCProcs == {desktop, mcp}
MCCreds == {oauth, apiKey}
MCCritical == {oauth}
MCVals == {v1, v2}
ValsAlike == Permutations(MCVals)
\* The migration host has the new protocol before the other processes do.
MCProtocol == [p \in MCProcs |-> IF p = desktop THEN 2 ELSE 1]
=============================================================================
