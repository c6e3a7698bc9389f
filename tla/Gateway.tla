------------------------------ MODULE Gateway ------------------------------
(***************************************************************************)
(* The front of the REST server: the middleware chain that NewRouter       *)
(* builds, the user database, the JWT service and the authentication       *)
(* handlers.                                                               *)
(*                                                                         *)
(* A request is checked by the chain when it arrives, by its handler       *)
(* later, and takes effect later still; other requests, the expiry of      *)
(* tokens and a restart of the controller come in between.  The signing    *)
(* key survives a restart only when a secret is configured, the revoked    *)
(* tokens never do, the user database always does.  A start that cannot    *)
(* open the database goes on without it and without the handlers below.    *)
(***************************************************************************)
EXTENDS FiniteSets, Api

CONSTANTS Requesters,     \* requests in flight
          UserNames,          \* user names, "admin" among them
          NewRoles,       \* roles a created user may be given
          MaxTokens, MaxBoots   \* bounds

ASSUME GatewayConstants ==
    /\ "admin" \in UserNames
    /\ {MaxTokens, MaxBoots} \subseteq Nat

VARIABLES conf,           \* rbac: HCV_RBAC_USERS is set; secret: HCV_JWT_SECRET is;
                          \* db: this start opened the user database
          accounts,       \* users table: name -> password and role
          issued,         \* issued[jti]: claims and signing key of a token
          expired,        \* tokens past their expiry
          signingKey, blacklist,
          loggedOut,      \* history: tokens logged out since the last start
          boots, desk     \* starts so far; desk[c]: the request with its handler

authVars == <<accounts, issued, expired, signingKey, blacklist, loggedOut>>
gwVars == <<conf, authVars, boots, desk, answer>>

Tokens == DOMAIN issued

\* ParseUsers: the plain-text users of HCV_RBAC_USERS.
legacyUsers == IF conf.rbac THEN [n \in {"ops"} |-> [pw |-> "ops", role |-> "operator"]] ELSE Empty

\* NewJWTService: without a secret every start draws a fresh key.
NewJWTService(boot) == IF conf.secret THEN 0 ELSE boot

\* migrate and SeedDefaultAdmin: an empty table gets admin/admin.
SeedDefaultAdmin(db) ==
    IF db = Empty THEN Put(db, "admin", [pw |-> "admin", role |-> "admin"]) ELSE db

GwInit ==
    /\ conf \in [rbac : BOOLEAN, secret : BOOLEAN, db : BOOLEAN]
    /\ accounts = IF conf.db THEN SeedDefaultAdmin(Empty) ELSE Empty
    /\ issued = Empty /\ expired = {}
    /\ signingKey = NewJWTService(1) /\ blacklist = {}
    /\ loggedOut = {} /\ boots = 1
    /\ desk = Empty /\ answer = Pending

-----------------------------------------------------------------------------
(* What a request carries, and what it proves.                             *)

NoCred == [kind |-> "none"]

Bearer(t) == [kind |-> "bearer", jti |-> t]

Basic(n, p) == [kind |-> "basic", user |-> n, pw |-> p]

IsRevoked(t) == t \in blacklist

ValidateToken(t) ==
    /\ issued[t].key = signingKey
    /\ t \notin expired
    /\ ~IsRevoked(t)

VerifyPassword(n, p) == n \in DOMAIN accounts /\ accounts[n].pw = p

HasPermission(role, method) ==
    \/ role = "admin"
    \/ role = "operator" /\ method \in {"GET", "POST", "PUT", "DELETE"}
    \/ role = "viewer" /\ method = "GET"

\* The role RBACMiddleware takes from the credentials, or "nobody".
RoleOf(cred) ==
    CASE cred.kind = "bearer" ->
            IF conf.db /\ ValidateToken(cred.jti) THEN issued[cred.jti].role ELSE "nobody"
      [] cred.kind = "basic" ->
            IF conf.db /\ VerifyPassword(cred.user, cred.pw) THEN accounts[cred.user].role
            ELSE IF cred.user \in DOMAIN legacyUsers /\ legacyUsers[cred.user].pw = cred.pw
                 THEN legacyUsers[cred.user].role ELSE "nobody"
      [] OTHER -> "nobody"

Open == {"health", "login", "docs", "oauth2"}

\* 0 lets the request through, anything else is the answer.
RBACMiddleware(path, method, cred) ==
    CASE ~conf.rbac \/ path \in Open -> 0
      [] RoleOf(cred) = "nobody" -> 401
      [] OTHER -> IF HasPermission(RoleOf(cred), method) THEN 0 ELSE 403

corsMiddleware(method) == IF method = "OPTIONS" THEN 204 ELSE 0

\* The bucket is module RateLimiter's; here it may be empty or not.
Limited(path, empty) == IF path # "health" /\ empty THEN 429 ELSE 0

\* Handlers that look at the credentials, or at those of the body, themselves.
Checked == {"login", "refresh", "logout", "users"}

\* They are registered only by a start with a user database.
Registered(path) == IF path \in Checked /\ ~conf.db THEN 404 ELSE 0

\* RBAC runs before CORS, CORS before the rate limit, and that before the mux.
middleware(path, method, cred, empty) ==
    LET rbac == RBACMiddleware(path, method, cred)
        cors == corsMiddleware(method)
        limit == Limited(path, empty)
    IN  IF rbac # 0 THEN rbac
        ELSE IF cors # 0 THEN cors
        ELSE IF limit # 0 THEN limit
        ELSE Registered(path)

requireAdminFromRequest(cred) ==
    CASE cred.kind = "bearer" ->
            IF ~ValidateToken(cred.jti) THEN 401
            ELSE IF issued[cred.jti].role # "admin" THEN 403 ELSE 0
      [] cred.kind = "basic" ->
            IF ~VerifyPassword(cred.user, cred.pw) THEN 401
            ELSE IF accounts[cred.user].role # "admin" THEN 403 ELSE 0
      [] OTHER -> 401

-----------------------------------------------------------------------------
(* A request arrives; the chain answers it or hands it to its handler.     *)

\* The routes of NewRouter by the way they are guarded; "vms" stands for
\* every route of another module.
Routes ==
    {<<"health", "GET">>, <<"docs", "GET">>, <<"login", "POST">>,
     <<"refresh", "POST">>, <<"logout", "POST">>, <<"users", "GET">>,
     <<"users", "POST">>, <<"users", "DELETE">>, <<"oauth2", "GET">>,
     <<"vms", "GET">>, <<"vms", "POST">>, <<"vms", "OPTIONS">>}

\* The token was no good when the request came in.
Spent(cred) ==
    cred.kind = "bearer" /\ (\/ cred.jti \in loggedOut \cup expired
                             \/ issued[cred.jti].key # signingKey)

Arrive(c, path, method, cred) ==
    /\ c \notin DOMAIN desk
    /\ \E empty \in BOOLEAN :
          LET code == middleware(path, method, cred, empty) IN
          /\ Reply(code)
          /\ desk' = IF code # 0 THEN desk
                     ELSE Put(desk, c, [at |-> "handler", path |-> path, method |-> method,
                                        cred |-> IF path \in Checked THEN cred ELSE NoCred,
                                        spent |-> Spent(cred)])
    /\ UNCHANGED <<conf, authVars, boots>>

At(c, path, stage) == c \in DOMAIN desk /\ desk[c].path = path /\ desk[c].at = stage

Answered(c, code) == Reply(code) /\ desk' = Del(desk, c)

Proceed(c) == Reply(Pending) /\ desk' = [desk EXCEPT ![c].at = "checked"]

\* Any other route: it succeeds, refuses its input, or panics and
\* recoveryMiddleware answers 500.
recoveryMiddleware(c) ==
    /\ \E p \in {"health", "docs", "oauth2", "vms"} : At(c, p, "handler")
    /\ \E code \in {200, 400, 500} : Answered(c, code)
    /\ UNCHANGED <<conf, authVars, boots>>

-----------------------------------------------------------------------------
(* Login, refresh and logout: the check, then the effect.                  *)

\* The login limiter is shared by all clients; a body without name and
\* password is a 400.
LoginCheck(c) ==
    /\ At(c, "login", "handler")
    /\ \/ Answered(c, 429)
       \/ /\ desk[c].cred.kind # "basic"
          /\ Answered(c, 400)
       \/ /\ desk[c].cred.kind = "basic"
          /\ LET body == desk[c].cred IN
             IF VerifyPassword(body.user, body.pw)
             THEN /\ Reply(Pending)
                  /\ desk' = [desk EXCEPT ![c].at = "checked",
                                ![c].cred = [user |-> body.user, role |-> accounts[body.user].role]]
             ELSE Answered(c, 401)
    /\ UNCHANGED <<conf, authVars, boots>>

TokenCheck(c, path) ==
    /\ At(c, path, "handler")
    /\ IF desk[c].cred.kind = "bearer" /\ ValidateToken(desk[c].cred.jti)
       THEN Proceed(c) ELSE Answered(c, 401)
    /\ UNCHANGED <<conf, authVars, boots>>

\* The claims of a token are copied from the account or from the old token.
GenerateToken(user, role) ==
    LET jti == Cardinality(Tokens) + 1 IN
    /\ jti <= MaxTokens
    /\ issued' = Put(issued, jti, [user |-> user, role |-> role, key |-> signingKey])

handleAuthLogin(c) ==
    /\ At(c, "login", "checked")
    /\ GenerateToken(desk[c].cred.user, desk[c].cred.role)
    /\ Answered(c, 200)
    /\ UNCHANGED <<conf, accounts, expired, signingKey, blacklist, loggedOut, boots>>

handleAuthRefresh(c) ==
    /\ At(c, "refresh", "checked")
    /\ LET old == issued[desk[c].cred.jti] IN GenerateToken(old.user, old.role)
    /\ Answered(c, 200)
    /\ UNCHANGED <<conf, accounts, expired, signingKey, blacklist, loggedOut, boots>>

RevokeTokenOnly(t) == blacklist' = {t}

RevokeToken(t) == blacklist' = blacklist \cup {t}

handleAuthLogout(c) ==
    /\ At(c, "logout", "checked")
    /\ RevokeToken(desk[c].cred.jti)
    /\ loggedOut' = loggedOut \cup {desk[c].cred.jti}
    /\ Answered(c, 200)
    /\ UNCHANGED <<conf, accounts, issued, expired, signingKey, boots>>

-----------------------------------------------------------------------------
(* User management: requireAdminFromRequest, then one SQL statement.       *)

AdminCheck(c) ==
    /\ At(c, "users", "handler")
    /\ LET code == requireAdminFromRequest(desk[c].cred) IN
       IF code = 0 THEN Proceed(c) ELSE Answered(c, code)
    /\ UNCHANGED <<conf, authVars, boots>>

handleAuthListUsers(c) ==
    /\ At(c, "users", "checked") /\ desk[c].method = "GET"
    /\ Answered(c, 200)
    /\ UNCHANGED <<conf, authVars, boots>>

\* The UNIQUE column refuses a second row for a name.
CreateUser(n, role) ==
    /\ n \notin DOMAIN accounts
    /\ accounts' = Put(accounts, n, [pw |-> "pw", role |-> role])

handleAuthCreateUser(c) ==
    /\ At(c, "users", "checked") /\ desk[c].method = "POST"
    /\ \/ Answered(c, 400) /\ UNCHANGED accounts
       \/ \E n \in UserNames, role \in NewRoles : CreateUser(n, role) /\ Answered(c, 201)
       \/ DOMAIN accounts # {} /\ Answered(c, 409) /\ UNCHANGED accounts
    /\ UNCHANGED <<conf, issued, expired, signingKey, blacklist, loggedOut, boots>>

handleAuthDeleteUser(c) ==
    /\ At(c, "users", "checked") /\ desk[c].method = "DELETE"
    /\ \E n \in UserNames :
          IF n \in DOMAIN accounts
          THEN accounts' = Del(accounts, n) /\ Answered(c, 204)
          ELSE UNCHANGED accounts /\ Answered(c, 404)
    /\ UNCHANGED <<conf, issued, expired, signingKey, blacklist, loggedOut, boots>>

-----------------------------------------------------------------------------
(* The environment.                                                        *)

\* 24 hours go by.
TokenExpires(t) ==
    /\ t \in Tokens \ expired
    /\ expired' = expired \cup {t}
    /\ Reply(Pending)
    /\ UNCHANGED <<conf, accounts, issued, signingKey, blacklist, loggedOut, boots, desk>>

\* The controller stops, and starts again over the same database file.
GwRestart ==
    /\ boots < MaxBoots
    /\ boots' = boots + 1
    /\ \E db \in BOOLEAN :
          /\ conf' = [conf EXCEPT !.db = db]
          /\ accounts' = IF db THEN SeedDefaultAdmin(accounts) ELSE accounts
    /\ signingKey' = NewJWTService(boots + 1)
    /\ blacklist' = {} /\ loggedOut' = {}
    /\ desk' = Empty /\ Reply(Pending)
    /\ UNCHANGED <<issued, expired>>

Credentials ==
    {NoCred, Basic("ops", "ops")} \cup {Bearer(t) : t \in Tokens}
        \cup {Basic(n, p) : n \in UserNames, p \in {"admin", "pw"}}

GwNext ==
    \/ \E c \in Requesters :
          \/ \E r \in Routes, cred \in Credentials : Arrive(c, r[1], r[2], cred)
          \/ recoveryMiddleware(c)
          \/ LoginCheck(c) \/ handleAuthLogin(c)
          \/ TokenCheck(c, "refresh") \/ handleAuthRefresh(c)
          \/ TokenCheck(c, "logout") \/ handleAuthLogout(c)
          \/ AdminCheck(c) \/ handleAuthListUsers(c)
          \/ handleAuthCreateUser(c) \/ handleAuthDeleteUser(c)
    \/ \E t \in Tokens : TokenExpires(t)
    \/ GwRestart

GwSpec == GwInit /\ [][GwNext]_gwVars

-----------------------------------------------------------------------------
(* Properties.                                                             *)

\* A request whose token had been logged out, had expired or was signed with
\* another key when it arrived is never served, whichever of the two checks
\* sees the token and whatever happens to it between them.
SpentTokenRefused ==
    [][\A c \in DOMAIN desk \ DOMAIN desk' :
          /\ desk[c].spent /\ boots' = boots
          /\ conf.rbac \/ desk[c].path # "vms"
          => desk[c].path \in Open \/ answer' = 401]_gwVars
=============================================================================
