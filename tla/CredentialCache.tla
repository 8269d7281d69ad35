-------------------------- MODULE CredentialCache ---------------------------
(***************************************************************************)
(* The credentials API of bcs-api (pkg/server/resthdrs/credentials.go) for *)
(* one cluster.                                                            *)
(*                                                                         *)
(* UpdateCredentials runs on one goroutine per HTTP request.  It checks    *)
(* the register token, reads the stored credentials and, when the CA or   *)
(* the user token differ from the form, drops the reverse-proxy handler    *)
(* cached for the cluster (DelHandlerStoreByClusterId); it then saves the *)
(* form (SaveCredentials).  The proxy (not in the repository) rebuilds a   *)
(* dropped handler from the stored credentials on the next proxied call.   *)
(*                                                                         *)
(* SyncTkeClusterCredentials binds the cluster's load balancer and polls   *)
(* GetMasterVip at most six times, 15 s apart, before syncing.             *)
(*                                                                         *)
(* Data abstraction.  A credential is its server address and its secret    *)
(* (the CA data and user token, compared together at line 72).  A form is *)
(* whether it passes validate.Struct, its register token and a credential. *)
(***************************************************************************)
EXTENDS Naturals

CONSTANTS
    Reqs,           \* goroutines serving UpdateCredentials
    Addrs,          \* server addresses
    Secrets,        \* CA data / user token pairs
    Tokens,         \* register tokens a form may carry
    Forms,          \* the forms requests carry
    RegToken,       \* the cluster's register token, or NoToken
    NoToken,
    NoCred,         \* no credentials stored / no handler cached
    InitCred,       \* the credentials stored at start, or NoCred
    PollTries       \* the 6 of the GetMasterVip loop

Creds == [addr : Addrs, secret : Secrets]

ASSUME CredAssumption ==
    /\ NoCred \notin Creds
    /\ InitCred \in Creds \cup {NoCred}
    /\ RegToken \in Tokens \cup {NoToken}
    /\ NoToken \notin Tokens
    /\ PollTries \in Nat \ {0}
    /\ Forms \subseteq [valid : BOOLEAN, rtoken : Tokens, cred : Creds]
    /\ Forms # {}

VARIABLES
    db,         \* the cluster's row in the credentials table
    cache,      \* the proxy handler cached for the cluster: the credential
                \* it was built from, or NoCred
    upc,        \* upc[r]: "idle", or "save" between line 75 and line 77
    form,       \* form[r]: the form request r is saving
    tpc,        \* SyncTke handler: "idle", "poll" (the loop), "sync"
    tries,      \* iterations of the poll loop done
    lb          \* the TKE master LB: "none", "binding", "bound"

ccVars == <<db, cache, upc, form, tpc, tries, lb>>

TypeOK ==
    /\ db \in Creds \cup {NoCred}
    /\ cache \in Creds \cup {NoCred}
    /\ upc \in [Reqs -> {"idle", "save"}]
    /\ form \in [Reqs -> Forms]
    /\ tpc \in {"idle", "poll", "sync"}
    /\ tries \in 0..PollTries
    /\ lb \in {"none", "binding", "bound"}

Init ==
    /\ db = InitCred
    /\ cache = NoCred
    /\ upc = [r \in Reqs |-> "idle"]
    /\ form = [r \in Reqs |-> CHOOSE f \in Forms : TRUE]
    /\ tpc = "idle"
    /\ tries = 0
    /\ lb = "none"

\* Faulty variant: the register token is not compared with the form's.
CheckCredentialsNoToken(r, f) ==
    /\ upc[r] = "idle"
    /\ f.valid
    /\ RegToken # NoToken
    /\ IF db # NoCred /\ db.secret # f.cred.secret
       THEN cache' = NoCred ELSE UNCHANGED cache
    /\ upc' = [upc EXCEPT ![r] = "save"]
    /\ form' = [form EXCEPT ![r] = f]
    /\ UNCHANGED <<db, tpc, tries, lb>>

\* Faulty variant: the form is not validated.
CheckCredentialsNoValidate(r, f) ==
    /\ upc[r] = "idle"
    /\ RegToken # NoToken
    /\ f.rtoken = RegToken
    /\ IF db # NoCred /\ db.secret # f.cred.secret
       THEN cache' = NoCred ELSE UNCHANGED cache
    /\ upc' = [upc EXCEPT ![r] = "save"]
    /\ form' = [form EXCEPT ![r] = f]
    /\ UNCHANGED <<db, tpc, tries, lb>>

\* UpdateCredentials up to line 75: a request with form f is validated, its
\* register token compared, the stored credentials read and, if the secret
\* changed, the cached handler dropped.
CheckCredentials(r, f) ==
    /\ upc[r] = "idle"
    /\ f.valid
    /\ RegToken # NoToken
    /\ f.rtoken = RegToken
    /\ IF db # NoCred /\ db.secret # f.cred.secret
       THEN cache' = NoCred ELSE UNCHANGED cache
    /\ upc' = [upc EXCEPT ![r] = "save"]
    /\ form' = [form EXCEPT ![r] = f]
    /\ UNCHANGED <<db, tpc, tries, lb>>

\* A request rejected at line 48, 60 or 65 returns with nothing changed.
RejectCredentials(r, f) ==
    /\ upc[r] = "idle"
    /\ ~f.valid \/ RegToken = NoToken \/ f.rtoken # RegToken
    /\ UNCHANGED ccVars

\* SaveCredentials, and the response; a database error leaves the row.
SaveCredentials(r) ==
    /\ upc[r] = "save"
    /\ db' = form[r].cred
    /\ upc' = [upc EXCEPT ![r] = "idle"]
    /\ UNCHANGED <<cache, form, tpc, tries, lb>>
SaveFails(r) ==
    /\ upc[r] = "save"
    /\ upc' = [upc EXCEPT ![r] = "idle"]
    /\ UNCHANGED <<db, cache, form, tpc, tries, lb>>

\* A proxied call finds no handler and builds one from the stored row.
Rebuild ==
    /\ cache = NoCred
    /\ db # NoCred
    /\ cache' = db
    /\ UNCHANGED <<db, upc, form, tpc, tries, lb>>

\* SyncTkeClusterCredentials up to line 161: the cluster is not a known TKE
\* cluster or BindClusterLb fails (return), or the bind is requested.
SyncStartFails ==
    /\ tpc = "idle"
    /\ UNCHANGED ccVars
SyncStart ==
    /\ tpc = "idle"
    /\ tpc' = "poll"
    /\ tries' = 0
    /\ lb' = IF lb = "none" THEN "binding" ELSE lb
    /\ UNCHANGED <<db, cache, upc, form>>

\* The cloud finishes binding the master VIP to the LB.
LBBinds ==
    /\ lb = "binding"
    /\ lb' = "bound"
    /\ UNCHANGED <<db, cache, upc, form, tpc, tries>>

\* Faulty variant: the loop gives up one iteration late.
PollOffByOne ==
    /\ tpc = "poll"
    /\ tries' = tries + 1
    /\ tpc' = CASE lb = "bound"              -> "sync"
                [] tries = PollTries         -> "idle"
                [] OTHER                     -> "poll"
    /\ UNCHANGED <<db, cache, upc, form, lb>>

\* One iteration of the loop of lines 165-176 and, after the last, the
\* check of line 178: sleep, GetMasterVip, break when bound.
Poll ==
    /\ tpc = "poll"
    /\ tries < PollTries
    /\ tries' = tries + 1
    /\ tpc' = CASE lb = "bound"              -> "sync"
                [] tries + 1 = PollTries     -> "idle"
                [] OTHER                     -> "poll"
    /\ UNCHANGED <<db, cache, upc, form, lb>>

\* GetMasterVip returns an error: the handler returns.
PollFails ==
    /\ tpc = "poll"
    /\ tpc' = "idle"
    /\ UNCHANGED <<db, cache, upc, form, tries, lb>>

\* SyncClusterCredentials (tke package) and the response.
SyncCredentials ==
    /\ tpc = "sync"
    /\ tpc' = "idle"
    /\ UNCHANGED <<db, cache, upc, form, tries, lb>>

CCNext ==
    \/ \E r \in Reqs, f \in Forms :
          CheckCredentials(r, f) \/ RejectCredentials(r, f)
    \/ \E r \in Reqs : SaveCredentials(r) \/ SaveFails(r)
    \/ Rebuild
    \/ SyncStartFails \/ SyncStart \/ LBBinds \/ Poll \/ PollFails
    \/ SyncCredentials

CCSpec == Init /\ [][CCNext]_ccVars
-----------------------------------------------------------------------------
\* The credentials present at start or submitted with the register token.
Authorized == {NoCred, InitCred} \cup
              {f.cred : f \in {g \in Forms : g.rtoken = RegToken}}

\* AuthorizedOnly: neither the credentials row nor the handler the proxy
\* builds from it ever holds credentials of a form without the cluster's
\* register token (the checks of lines 57-67 before SaveCredentials).
AuthorizedOnly == db \in Authorized /\ cache \in Authorized

\* CacheCoherent: when no UpdateCredentials is in progress, the cached
\* proxy handler, if any, is built from the stored credentials (the
\* invalidation of line 73 before the save of line 77).
CacheCoherent ==
    (\A r \in Reqs : upc[r] = "idle") => cache \in {NoCred, db}

\* The credentials a valid form carrying the register token may store.
Allowed == {f.cred : f \in {g \in Forms : g.valid /\ g.rtoken = RegToken}}

Registry == INSTANCE CredentialRegistry WITH row <- db, handler <- cache

\* RegistryRefined: the API implements CredentialRegistry: every change of
\* the row is the save of a valid form that passed the token check, even
\* when concurrent requests interleave between check and save, and the
\* cached handler only changes by being dropped (line 73) or rebuilt by
\* the proxy from the row.
RegistryRefined == Registry!RegSpec
=============================================================================
