------------------------ MODULE MC_CredentialCache -------------------------
EXTENDS CredentialCache, TLC

CONSTANTS r1, r2, a1, a2, s1, s2, t1, t2, none, nocred

MCReqs == {r1, r2}
MCOneReq == {r1}
MCAddrs == {a1, a2}
MCOneAddr == {a1}
MCSecrets == {s1, s2}
MCOneSecret == {s1}
MCTokens == {t1, t2}
\* The cluster was registered with credentials a1/s1.
MCInitCred == [addr |-> a1, secret |-> s1]
\* A caller with the wrong token t2 submits credentials a2/s2 that no
\* holder of t1 submits.
MCEvil == [addr |-> a2, secret |-> s2]
MCForms(A, S) ==
    {f \in [valid : BOOLEAN, rtoken : MCTokens, cred : [addr : A, secret : S]] :
        f.rtoken = t2 <=> f.cred = MCEvil}
MCAllForms == MCForms(MCAddrs, MCSecrets)
\* For the authorization run, validate.Struct depends on the credential:
\* a1 with s2 stands for a form with an empty or malformed field.
MCMalformed == [addr |-> a1, secret |-> s2]
MCCheckedForms == {f \in MCAllForms : f.valid <=> f.cred # MCMalformed}
MCOneAddrForms == MCForms(MCOneAddr, MCSecrets)
MCOneSecretForms == MCForms(MCAddrs, MCOneSecret)
=============================================================================
