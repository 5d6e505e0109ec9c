--------------------------- MODULE Configuration ---------------------------
(***************************************************************************)
(* How a client comes by its configuration (src/config.go), its key        *)
(* (src/auth.go) and its errors (src/errors.go).  None of it keeps state.  *)
(***************************************************************************)
EXTENDS Integers

Environments == {"demo", "prod"}
KeyFiles == {"missing", "text", "garbage", "pkcs8_rsa", "pkcs8_other", "pkcs1"}

\* The environment of the process: KALSHI_ENVIRONMENT in capitals; for each
\* environment the key ID and what its key file holds ("unset": no variable);
\* whether the two base URLs are overridden.
Settings == [env : {"", "DEMO", "PROD", "STAGING"},
             keyID : [Environments -> BOOLEAN],
             keyFile : [Environments -> KeyFiles \cup {"unset"}],
             httpURL : BOOLEAN, wsURL : BOOLEAN]

\* A key given as PEM: decode the block, parse it as PKCS8 and then as PKCS1, and
\* accept an RSA key only.  A key in a file is read first.
LoadCredentialsFromPEM(pem) ==
    LET decoded == pem # "text"
        parsed == pem \in {"pkcs8_rsa", "pkcs8_other", "pkcs1"}
    IN  decoded /\ parsed /\ pem # "pkcs8_other"
LoadCredentials(file) == file # "missing" /\ LoadCredentialsFromPEM(file)

\* The base URL that belongs to an environment; any other has none.
BaseForEnv(env) == IF env \in Environments THEN env ELSE ""

Failed == [ok |-> FALSE]

\* NewClientConfig.  A base URL is known by the environment it is of.
NewClientConfig(s) ==
    LET env == IF s.env = "PROD" THEN "prod" ELSE "demo"
    IN  IF \/ s.env \notin {"PROD", "DEMO", ""}
           \/ ~s.keyID[env] \/ s.keyFile[env] = "unset"
           \/ ~LoadCredentials(s.keyFile[env])
        THEN Failed
        ELSE [ok |-> TRUE, env |-> env, key |-> env,
              http |-> IF s.httpURL THEN "override" ELSE BaseForEnv(env),
              ws |-> IF s.wsURL THEN "override" ELSE BaseForEnv(env)]

\* A configuration that the program writes itself, with a key given as PEM.  Nothing ties
\* the environment that the key is of to the one that is configured.
HandMade == [env : Environments \cup {"unknown"}, key : Environments,
             pem : KeyFiles \ {"missing"}, http : {"", "override"}]
Written(h) == IF LoadCredentialsFromPEM(h.pem)
              THEN [ok |-> TRUE, env |-> h.env, key |-> h.key, http |-> h.http, ws |-> ""]
              ELSE Failed

\* The host that NewClient talks to.
BaseURL(config) == IF config.http = "" THEN BaseForEnv(config.env) ELSE config.http

\* The headers name the key and sign the method and the path, never the query.
RequestHeaders(config, method, path) == [key |-> config.key, signed |-> <<method, path>>]

-----------------------------------------------------------------------------
(* Errors.  The body of a failed answer names its code and its message in  *)
(* an "error" object, at the top, or not at all; "" is an empty one.       *)

Bodies == [form : {"nested", "flat", "other"}, code : {"", "code"}, message : {"", "message"}]

\* Mutated: the nested form only.
newAPIError_Nested(body) ==
    IF body.form = "nested" THEN [code |-> body.code, message |-> body.message]
    ELSE [code |-> "", message |-> ""]
newAPIError(body) ==
    IF body.form = "nested" /\ body.code # "" THEN [code |-> body.code, message |-> body.message]
    ELSE IF body.form = "flat" THEN [code |-> body.code, message |-> body.message]
    ELSE [code |-> "", message |-> ""]

\* What APIError.Error prints: the message, or else the whole body.
Printed(err) == IF err.message # "" THEN {"code", "message"} ELSE {"body"}
=============================================================================
