----------------------- MODULE CredentialCacheProofs -----------------------
(***************************************************************************)
(* Proofs, for every value of the constants, that the credentials API is   *)
(* well typed and stores or serves only authorized credentials.            *)
(***************************************************************************)
EXTENDS CredentialCache, TLAPS

USE CredAssumption

\* A request that passed the token check carries the cluster's token.
SavingAuthorized == \A r \in Reqs : upc[r] = "save" => form[r].rtoken = RegToken

CCInv == TypeOK /\ AuthorizedOnly /\ SavingAuthorized

\* The initial form is one of the forms.
LEMMA InitForm == (CHOOSE f \in Forms : TRUE) \in Forms
BY CredAssumption

\* Every action of the credentials API keeps the types.
LEMMA CCNextType == TypeOK /\ [CCNext]_ccVars => TypeOK'
<1> SUFFICES ASSUME TypeOK, [CCNext]_ccVars PROVE TypeOK'
    OBVIOUS
<1>1. ASSUME NEW r \in Reqs, NEW f \in Forms, CheckCredentials(r, f) PROVE TypeOK'
      BY <1>1 DEF TypeOK, CheckCredentials
<1>2. ASSUME NEW r \in Reqs, NEW f \in Forms, RejectCredentials(r, f) PROVE TypeOK'
      BY <1>2 DEF TypeOK, RejectCredentials, ccVars
<1>3. ASSUME NEW r \in Reqs, SaveCredentials(r) PROVE TypeOK'
      BY <1>3 DEF TypeOK, SaveCredentials, Creds
<1>4. ASSUME NEW r \in Reqs, SaveFails(r) PROVE TypeOK'
      BY <1>4 DEF TypeOK, SaveFails
<1>5. CASE Rebuild
      BY <1>5 DEF TypeOK, Rebuild
<1>6. CASE SyncStartFails \/ SyncStart \/ LBBinds \/ PollFails \/ SyncCredentials
      BY <1>6 DEF TypeOK, SyncStartFails, SyncStart, LBBinds, PollFails,
                  SyncCredentials, ccVars
<1>7. CASE Poll
      BY <1>7 DEF TypeOK, Poll
<1>8. CASE UNCHANGED ccVars
      BY <1>8 DEF TypeOK, ccVars
<1>9. QED
      BY <1>1, <1>2, <1>3, <1>4, <1>5, <1>6, <1>7, <1>8 DEF CCNext

\* TypeCorrect: the credentials API is well typed in every reachable state.
THEOREM CCTypeCorrect == CCSpec => []TypeOK
<1>1. Init => TypeOK
      BY InitForm DEF Init, TypeOK
<1>2. QED
      BY <1>1, CCNextType, PTL DEF CCSpec

\* Every action keeps the strengthened invariant.
LEMMA CCNextInv == CCInv /\ [CCNext]_ccVars => CCInv'
<1> SUFFICES ASSUME CCInv, [CCNext]_ccVars PROVE CCInv'
    OBVIOUS
<1>0. TypeOK'
      BY CCNextType DEF CCInv
<1>1. ASSUME NEW r \in Reqs, NEW f \in Forms, CheckCredentials(r, f)
      PROVE AuthorizedOnly' /\ SavingAuthorized'
      BY <1>1 DEF CCInv, TypeOK, CheckCredentials, AuthorizedOnly,
                  SavingAuthorized, Authorized
<1>2. ASSUME NEW r \in Reqs, NEW f \in Forms, RejectCredentials(r, f)
      PROVE AuthorizedOnly' /\ SavingAuthorized'
      BY <1>2 DEF CCInv, RejectCredentials, ccVars, AuthorizedOnly,
                  SavingAuthorized, Authorized
<1>3. ASSUME NEW r \in Reqs, SaveCredentials(r)
      PROVE AuthorizedOnly' /\ SavingAuthorized'
  <2>1. db' \in Authorized
        BY <1>3 DEF CCInv, TypeOK, SaveCredentials, SavingAuthorized, Authorized
  <2>2. QED
        BY <1>3, <2>1 DEF CCInv, TypeOK, SaveCredentials, AuthorizedOnly,
                          SavingAuthorized
<1>4. ASSUME NEW r \in Reqs, SaveFails(r)
      PROVE AuthorizedOnly' /\ SavingAuthorized'
      BY <1>4 DEF CCInv, TypeOK, SaveFails, AuthorizedOnly, SavingAuthorized
<1>5. CASE Rebuild
      BY <1>0, <1>5 DEF CCInv, Rebuild, AuthorizedOnly, SavingAuthorized
<1>6. CASE SyncStartFails \/ SyncStart \/ LBBinds \/ Poll \/ PollFails
           \/ SyncCredentials
      BY <1>0, <1>6 DEF CCInv, SyncStartFails, SyncStart, LBBinds, Poll, PollFails,
                  SyncCredentials, ccVars, AuthorizedOnly, SavingAuthorized
<1>7. CASE UNCHANGED ccVars
      BY <1>0, <1>7 DEF CCInv, ccVars, AuthorizedOnly, SavingAuthorized
<1>8. QED
      BY <1>0, <1>1, <1>2, <1>3, <1>4, <1>5, <1>6, <1>7 DEF CCNext, CCInv

\* AuthorizedOnlyHolds: for every set of forms, tokens and credentials, the
\* credentials row and the proxy handler only ever hold credentials that
\* were there at start or came with the register token (lines 57-67 of
\* UpdateCredentials guard SaveCredentials).
THEOREM AuthorizedOnlyHolds == CCSpec => []AuthorizedOnly
<1>1. Init => CCInv
      BY InitForm DEF Init, CCInv, TypeOK, AuthorizedOnly, SavingAuthorized,
                      Authorized
<1>2. CCInv => AuthorizedOnly
      BY DEF CCInv
<1>3. QED
      BY <1>1, <1>2, CCNextInv, PTL DEF CCSpec
-----------------------------------------------------------------------------
(***************************************************************************)
(* The refinement of CredentialRegistry.                                   *)
(***************************************************************************)
\* A request between its checks and its save holds a valid form with the
\* cluster's register token.
SavingAllowed ==
    \A r \in Reqs : upc[r] = "save" => form[r].valid /\ form[r].rtoken = RegToken

RegInv == TypeOK /\ SavingAllowed

\* Every action keeps RegInv: only CheckCredentials starts a save, and it
\* has passed validate.Struct and the token comparison.
LEMMA RegInvStep == RegInv /\ [CCNext]_ccVars => RegInv'
<1> SUFFICES ASSUME RegInv, [CCNext]_ccVars PROVE RegInv'
    OBVIOUS
<1>0. TypeOK'
      BY CCNextType DEF RegInv
<1>1. ASSUME NEW r \in Reqs, NEW f \in Forms, CheckCredentials(r, f)
      PROVE SavingAllowed'
      BY <1>1 DEF RegInv, TypeOK, CheckCredentials, SavingAllowed
<1>2. ASSUME NEW r \in Reqs, SaveCredentials(r) \/ SaveFails(r)
      PROVE SavingAllowed'
      BY <1>2 DEF RegInv, TypeOK, SaveCredentials, SaveFails, SavingAllowed
<1>3. CASE \/ \E r \in Reqs, f \in Forms : RejectCredentials(r, f)
           \/ Rebuild \/ SyncStartFails \/ SyncStart \/ LBBinds \/ Poll
           \/ PollFails \/ SyncCredentials \/ UNCHANGED ccVars
      BY <1>0, <1>3 DEF RegInv, RejectCredentials, Rebuild, SyncStartFails, SyncStart,
                  LBBinds, Poll, PollFails, SyncCredentials, ccVars, SavingAllowed
<1>4. QED
      BY <1>0, <1>1, <1>2, <1>3 DEF CCNext, RegInv

\* Each step of the API is a step of CredentialRegistry or leaves the row
\* and the handler as they are.
LEMMA CCStepRefines ==
    RegInv /\ [CCNext]_ccVars => [Registry!RegNext]_Registry!regVars
<1> SUFFICES ASSUME RegInv, [CCNext]_ccVars
             PROVE  [Registry!RegNext]_Registry!regVars
    OBVIOUS
<1>1. ASSUME NEW r \in Reqs, NEW f \in Forms, CheckCredentials(r, f)
      PROVE  [Registry!RegNext]_Registry!regVars
  <2>1. CASE db # NoCred /\ db.secret # f.cred.secret
        BY <1>1, <2>1 DEF CheckCredentials, Registry!RegNext, Registry!Drop
  <2>2. CASE ~(db # NoCred /\ db.secret # f.cred.secret)
        BY <1>1, <2>2 DEF CheckCredentials, Registry!regVars
  <2>3. QED
        BY <2>1, <2>2
<1>2. ASSUME NEW r \in Reqs, SaveCredentials(r)
      PROVE  [Registry!RegNext]_Registry!regVars
  <2>1. form[r].cred \in Allowed
        BY <1>2 DEF RegInv, TypeOK, SaveCredentials, SavingAllowed, Allowed
  <2>2. \E c \in Allowed : db' = c /\ cache' = cache
        BY <1>2, <2>1 DEF SaveCredentials
  <2>3. QED
        BY <2>2 DEF Registry!RegNext, Registry!Register
<1>3. CASE Rebuild
      BY <1>3 DEF Rebuild, Registry!RegNext, Registry!Build
<1>4. CASE \/ \E r \in Reqs, f \in Forms : RejectCredentials(r, f)
           \/ \E r \in Reqs : SaveFails(r)
           \/ SyncStartFails \/ SyncStart \/ LBBinds \/ Poll
           \/ PollFails \/ SyncCredentials \/ UNCHANGED ccVars
      BY <1>4 DEF RejectCredentials, SaveFails, SyncStartFails, SyncStart, LBBinds,
                  Poll, PollFails, SyncCredentials, ccVars, Registry!regVars
<1>5. QED
      BY <1>1, <1>2, <1>3, <1>4 DEF CCNext

\* RegistryRefinedHolds: for every set of requests, forms and credentials,
\* the credentials API implements CredentialRegistry: the row changes only
\* to credentials of a valid form with the register token, however the
\* requests interleave, and the proxy handler is only dropped or rebuilt
\* from the row.
THEOREM RegistryRefinedHolds == CCSpec => RegistryRefined
<1>1. Init => RegInv
      BY InitForm DEF Init, RegInv, TypeOK, SavingAllowed
<1>2. Init => Registry!RegInit
      BY DEF Init, Registry!RegInit
<1>3. QED
      BY <1>1, <1>2, RegInvStep, CCStepRefines, PTL
         DEF CCSpec, RegistryRefined, Registry!RegSpec
=============================================================================
