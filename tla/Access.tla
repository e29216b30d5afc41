-------------------------------- MODULE Access --------------------------------
(***************************************************************************)
(* Signing in (pkg/apiserver/user, sso, code): sessions by SQL user, by    *)
(* sharing code and by single sign-on, what they may do and for how long;  *)
(* and the SQL user that single sign-on impersonates: its record in the    *)
(* local database and the key file it is encrypted with.                   *)
(***************************************************************************)
EXTENDS Integers, FiniteSets

CONSTANTS
    Browsers, SQLUsers, Admins,
    Grants,        \* the sets of privileges that a SQL user may have
    TokenLife,     \* how long a token is valid (24 h)
    MaxShareLife,  \* MaxSessionShareExpiry (30 days)
    FixedSecret,   \* DASHBOARD_SESSION_SECRET is set, and 32 bytes long
    MaxAccNow,     \* bound: the time
    MaxAccEvents   \* bound: restarts, and changes of SQL users and of the key file

ASSUME AccessAssumption == TokenLife \in Nat /\ MaxShareLife \in Nat

VARIABLES
    accNow,     \* the time
    accRun,     \* how often the process was started
    accSQL,     \* the SQL users: their password, their privileges
    accSEM,     \* TiDB runs with enable-sem
    accToken,   \* the session each browser has a token of, or NoSession
    accLogin,   \* a browser that signs in by SSO: where it is
    accCode,    \* the last sharing code, or NoCode
    accSSO,     \* the configuration: enabled, read-only
    accKey,     \* the key file: 0 for none, Broken, or which key
    accKeys,    \* keys ever made
    accRows,    \* sso_impersonation
    accAdmin,   \* a handler of createImpersonation or setConfig: where it is
    accEvents,
    accDamaged  \* history: somebody damaged the key file
accSessionVars == <<accToken, accLogin, accCode>>
accStoreVars == <<accKey, accKeys, accRows, accAdmin>>
accVars == <<accNow, accRun, accSQL, accSEM, accSessionVars, accSSO, accStoreVars, accDamaged, accEvents>>

Broken == -1
NoSession == [from |-> "none"]
NoCode == [session |-> NoSession]
NoAdmin == [at |-> "idle"]

AccInit ==
    /\ accNow = 0 /\ accRun = 1 /\ accEvents = 0 /\ accDamaged = FALSE
    /\ accSQL \in [SQLUsers -> [password : {1}, grants : Grants]]
    /\ accSEM \in BOOLEAN
    /\ accToken = [b \in Browsers |-> NoSession]
    /\ accLogin = [b \in Browsers |-> "no"]
    /\ accCode = NoCode
    /\ \/ /\ accSSO = [enabled |-> FALSE, readOnly |-> FALSE]
          /\ accKey = 0 /\ accKeys = 0 /\ accRows = {}
       \/ /\ accSSO \in [enabled : {TRUE}, readOnly : BOOLEAN] \* set up by an earlier process
          /\ accKey = 1 /\ accKeys = 1
          /\ \E u \in SQLUsers :
                accRows = {[user |-> u, password |-> 1, key |-> 1, status |-> "none"]}
    /\ accAdmin = [a \in Admins |-> NoAdmin]

-----------------------------------------------------------------------------
\* VerifySQLUser: whether a user may use the dashboard, and whether it may write.
checkDashboardPriv(privs, sem) ==
    /\ sem => {"RESTRICTED_VARIABLES_ADMIN", "RESTRICTED_TABLES_ADMIN", "RESTRICTED_STATUS_ADMIN"}
                \subseteq privs
    /\ \/ "ALL PRIVILEGES" \in privs
       \/ /\ {"PROCESS", "SHOW DATABASES", "CONFIG"} \subseteq privs
          /\ {"SUPER", "DASHBOARD_CLIENT"} \cap privs # {}
checkWriteablePriv(privs) ==
    {"ALL PRIVILEGES", "SUPER", "SYSTEM_VARIABLES_ADMIN"} \cap privs # {}
Verified(user, password) ==
    /\ accSQL[user].password = password
    /\ checkDashboardPriv(accSQL[user].grants, accSEM)

\* A session remembers who signed in, and whether it may share and write; roots and
\* until are history: with which right it began, and how long it may be used at most.
Session(from, user, password, share, write, root, until) ==
    [from |-> from, user |-> user, password |-> password, share |-> share, write |-> write,
     made |-> accNow, run |-> accRun, root |-> root, until |-> until, expireAt |-> until]

\* A token is accepted: its key is that of this process, it is young enough, and the
\* authenticator agrees (ProcessSession; a shared session ends when its code does).
ProcessSession(s) == s.from = "code" => accNow <= s.expireAt
Accepted(s) ==
    /\ s # NoSession
    /\ FixedSecret \/ s.run = accRun
    /\ accNow < s.made + TokenLife
    /\ ProcessSession(s)

SignIn(b, s) == accToken' = [accToken EXCEPT ![b] = s]
LoginSQL(b, user) ==
    /\ accLogin[b] = "no"
    /\ Verified(user, accSQL[user].password)
    /\ LET write == checkWriteablePriv(accSQL[user].grants) IN
       SignIn(b, Session("sql", user, accSQL[user].password, TRUE, write, write, accNow + TokenLife))
    /\ UNCHANGED <<accNow, accRun, accSQL, accSEM, accLogin, accCode, accSSO, accStoreVars, accEvents, accDamaged>>

\* shareHandler, behind MWRequireSharePriv.
Share(b, life, revoke) ==
    /\ Accepted(accToken[b]) /\ accToken[b].share
    /\ life <= MaxShareLife
    /\ accCode' = [session |-> accToken[b], expireAt |-> accNow + life, revoke |-> revoke, run |-> accRun]
    /\ UNCHANGED <<accNow, accRun, accSQL, accSEM, accToken, accLogin, accSSO, accStoreVars, accEvents, accDamaged>>

\* Mutant: the shared session is the session.
AsShared(s) == [s EXCEPT !.from = "code", !.made = accNow, !.run = accRun]
NewSessionFromSharingCode(s) ==
    [from |-> "code", user |-> s.user, password |-> s.password, share |-> FALSE,
     write |-> s.write /\ ~accCode.revoke, made |-> accNow, run |-> accRun, root |-> s.root,
     until |-> accCode.expireAt, expireAt |-> accCode.expireAt]
LoginCode(b) ==
    /\ accLogin[b] = "no"
    /\ accCode # NoCode /\ accCode.run = accRun /\ accNow <= accCode.expireAt
    /\ SignIn(b, NewSessionFromSharingCode(accCode.session))
    /\ UNCHANGED <<accNow, accRun, accSQL, accSEM, accLogin, accCode, accSSO, accStoreVars, accEvents, accDamaged>>

\* NewSessionFromOAuthExchange reads the configuration three times: for the exchange,
\* for the user's name, and for the session.
LoginSSO(b, from, to) ==
    /\ accLogin[b] = from
    /\ accSSO.enabled
    /\ accLogin' = [accLogin EXCEPT ![b] = to]
    /\ UNCHANGED <<accNow, accRun, accSQL, accSEM, accToken, accCode, accSSO, accStoreVars, accEvents, accDamaged>>
Readable(row) == accKey \notin {0, Broken} /\ row.key = accKey
newSessionFromImpersonation(b) ==
    /\ accLogin[b] = "user known"
    /\ accLogin' = [accLogin EXCEPT ![b] = "no"]
    /\ \/ UNCHANGED <<accToken, accRows>> \* no record, or any error before the verification
       \/ \E row \in accRows :
             /\ Readable(row)
             /\ LET user == accSQL[row.user]
                    write == checkWriteablePriv(user.grants)
                    status == CASE user.password # row.password -> "auth_fail"
                                [] user.password = row.password /\ ~Verified(row.user, row.password) ->
                                     "insufficient_privileges"
                                [] OTHER -> "success"
                IN  /\ accRows' = {[r EXCEPT !.status = status] : r \in accRows}
                    /\ IF status = "success"
                       THEN SignIn(b, Session("sso", row.user, row.password, TRUE,
                                              write /\ ~accSSO.readOnly, write, accNow + TokenLife))
                       ELSE UNCHANGED accToken
    /\ UNCHANGED <<accNow, accRun, accSQL, accSEM, accCode, accSSO, accKey, accKeys, accAdmin, accEvents, accDamaged>>
LoginFails(b) ==
    /\ accLogin[b] # "no"
    /\ accLogin' = [accLogin EXCEPT ![b] = "no"]
    /\ UNCHANGED <<accNow, accRun, accSQL, accSEM, accToken, accCode, accSSO, accStoreVars, accEvents, accDamaged>>

-----------------------------------------------------------------------------
\* createImpersonation, statement by statement; the last two under a lock.
To(a, here, there) == /\ accAdmin[a].at = here
                      /\ accAdmin' = [accAdmin EXCEPT ![a] = there]
VerifyImpersonation(a, user) ==
    /\ Verified(user, accSQL[user].password)
    /\ To(a, "idle", [at |-> "key", user |-> user, password |-> accSQL[user].password])
    /\ UNCHANGED <<accKey, accKeys, accRows, accSSO>>
\* A key that is there is used; one that is missing or broken is made, or the file cannot
\* be written, or not as a whole.
WithKey(a, key) ==
    To(a, "key", [at |-> "wait", user |-> accAdmin[a].user, password |-> accAdmin[a].password, key |-> key])
getOrCreateMasterEncKey(a) ==
    \/ /\ accKey \notin {0, Broken}
       /\ WithKey(a, accKey)
       /\ UNCHANGED <<accKey, accKeys>>
    \/ /\ accKey \in {0, Broken}
       /\ accKey' = accKeys + 1 /\ accKeys' = accKeys + 1
       /\ WithKey(a, accKeys + 1)
    \/ /\ accKey \in {0, Broken}
       /\ To(a, "key", NoAdmin)
       /\ accKey' \in {accKey, Broken}
       /\ UNCHANGED accKeys
MakeKey(a) == accAdmin[a].at = "key" /\ getOrCreateMasterEncKey(a) /\ UNCHANGED <<accRows, accSSO>>
\* Mutant: without the lock.
NotLocked == TRUE
Unlocked == \A a \in Admins : accAdmin[a].at # "create"
\* revokeAllImpersonations, then the new record; either may fail, and the second does if
\* there is a record of that user (its key is the user).
Replace(a) ==
    /\ Unlocked
    /\ \/ /\ To(a, "wait", [accAdmin[a] EXCEPT !.at = "create"])
          /\ accRows' = {}
       \/ To(a, "wait", NoAdmin) /\ UNCHANGED accRows
    /\ UNCHANGED <<accKey, accKeys, accSSO>>
CreateRow(a) ==
    /\ To(a, "create", NoAdmin)
    /\ \/ UNCHANGED accRows
       \/ /\ \A row \in accRows : row.user # accAdmin[a].user
          /\ accRows' = accRows \cup {[user |-> accAdmin[a].user, password |-> accAdmin[a].password,
                                       key |-> accAdmin[a].key, status |-> "none"]}
    /\ UNCHANGED <<accKey, accKeys, accSSO>>
\* setConfig: discoverOIDC if SSO is enabled, else all records go; then Modify, which
\* may fail when the records have gone.
SetConfig(a, enabled, readOnly) ==
    /\ To(a, "idle", [at |-> "modify", enabled |-> enabled, readOnly |-> readOnly])
    /\ accRows' = IF enabled THEN accRows ELSE {}
    /\ UNCHANGED <<accKey, accKeys, accSSO>>
Modify(a) ==
    /\ To(a, "modify", NoAdmin)
    /\ accSSO' \in {accSSO, [enabled |-> accAdmin[a].enabled, readOnly |-> accAdmin[a].readOnly]}
    /\ UNCHANGED <<accKey, accKeys, accRows>>
ImpersonationStep ==
    /\ \E a \in Admins : \/ \E u \in SQLUsers : VerifyImpersonation(a, u)
                        \/ MakeKey(a) \/ Replace(a) \/ CreateRow(a)
    /\ UNCHANGED <<accNow, accRun, accSQL, accSEM, accSessionVars, accEvents, accDamaged>>
ConfigStep ==
    /\ \E a \in Admins :
          Modify(a) \/ \E enabled, readOnly \in BOOLEAN : SetConfig(a, enabled, readOnly)
    /\ UNCHANGED <<accNow, accRun, accSQL, accSEM, accSessionVars, accEvents, accDamaged>>

-----------------------------------------------------------------------------
\* Surroundings: time, the process, the SQL users, the key file.
Later ==
    /\ accNow < MaxAccNow /\ accNow' = accNow + 1
    /\ UNCHANGED <<accRun, accSQL, accSEM, accSessionVars, accSSO, accStoreVars, accEvents, accDamaged>>
Happens == accEvents < MaxAccEvents /\ accEvents' = accEvents + 1
Restart ==
    /\ Happens
    /\ accRun' = accRun + 1
    /\ accLogin' = [b \in Browsers |-> "no"]
    /\ accAdmin' = [a \in Admins |-> NoAdmin]
    /\ UNCHANGED <<accNow, accSQL, accSEM, accToken, accCode, accSSO, accKey, accKeys, accRows, accDamaged>>
UserChanges(u) ==
    /\ Happens
    /\ \/ \E g \in Grants : accSQL' = [accSQL EXCEPT ![u].grants = g]
       \/ accSQL' = [accSQL EXCEPT ![u].password = @ + 1]
    /\ UNCHANGED <<accNow, accRun, accSEM, accSessionVars, accSSO, accStoreVars, accDamaged>>
KeyLost ==
    /\ Happens
    /\ accKey' \in {0, Broken} /\ accDamaged' = TRUE
    /\ UNCHANGED <<accNow, accRun, accSQL, accSEM, accSessionVars, accSSO, accKeys, accRows, accAdmin>>

BrowserStep ==
    \E b \in Browsers :
       \/ \E u \in SQLUsers : LoginSQL(b, u)
       \/ \E life \in 0 .. MaxShareLife + 1, revoke \in BOOLEAN : Share(b, life, revoke)
       \/ LoginCode(b) \/ newSessionFromImpersonation(b) \/ LoginFails(b)
       \/ LoginSSO(b, "no", "exchanged") \/ LoginSSO(b, "exchanged", "user known")
Surroundings == Restart \/ KeyLost \/ \E u \in SQLUsers : UserChanges(u)
AccNext == BrowserStep \/ ImpersonationStep \/ ConfigStep \/ Later \/ Surroundings
AccSpec == AccInit /\ [][AccNext]_accVars

-----------------------------------------------------------------------------
\* A session that the dashboard accepts began with a sign-in that had the right to
\* write if it has, and is used no longer than it may be: for the life of a token,
\* and if it was shared, until its code expires at the latest (which is not later
\* than the longest share from when it was made); a shared session is not shared on.
SessionsBounded ==
    \A b \in Browsers :
        LET s == accToken[b] IN
        Accepted(s) =>
            /\ s.write => s.root
            /\ accNow - s.made < TokenLife
            /\ s.from = "code" => accNow <= s.until /\ ~s.share

\* SSO impersonates one SQL user: there is never more than one record, whoever else
\* makes one or turns SSO off at the same time; and as long as nobody damages the
\* key file, the record can be read with the key in it.
OneImpersonation ==
    /\ Cardinality(accRows) <= 1
    /\ ~accDamaged => \A row \in accRows : Readable(row)
=============================================================================
