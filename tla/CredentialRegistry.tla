------------------------ MODULE CredentialRegistry -------------------------
(***************************************************************************)
(* What the credentials API promises about one cluster: its credentials   *)
(* row changes only to credentials a caller holding the register token    *)
(* submitted in a valid form, and the reverse-proxy handler is either      *)
(* absent or was built from the row as it was at that moment.  It does    *)
(* not promise when a stale handler is dropped.                           *)
(***************************************************************************)
CONSTANTS
    Allowed,    \* credentials a valid form with the register token carries
    NoCred,     \* no row / no handler
    InitCred    \* the row at start

VARIABLES
    row,        \* the stored credentials
    handler     \* the credential the cached proxy handler was built from

regVars == <<row, handler>>

RegInit ==
    /\ row = InitCred
    /\ handler = NoCred

\* The row is overwritten with allowed credentials.
Register(c) ==
    /\ c \in Allowed
    /\ row' = c
    /\ UNCHANGED handler

\* The cached handler is dropped.
Drop ==
    /\ handler' = NoCred
    /\ UNCHANGED row

\* A handler is built from the stored row.
Build ==
    /\ row # NoCred
    /\ handler' = row
    /\ UNCHANGED row

RegNext == (\E c \in Allowed : Register(c)) \/ Drop \/ Build

RegSpec == RegInit /\ [][RegNext]_regVars
=============================================================================
