-------------------------------- MODULE Auth --------------------------------
(***************************************************************************)
(* kube-client/src/client/auth: the credentials of a Client.  Auth is made *)
(* once from an AuthInfo; every request then passes the auth layer, where  *)
(* a refreshable token is checked and, when it is about to expire, renewed *)
(* under a lock that all requests share: by the exec plugin or the gcp     *)
(* command, from the token file, from Google's OAuth or from an OpenID     *)
(* provider, which may give out a new refresh token with each answer.      *)
(*                                                                         *)
(* Tokens are told apart by their expiry (File: by their version).  The    *)
(* plugin, the file system and the providers are external.                 *)
(***************************************************************************)
EXTENDS Naturals, FiniteSets, TLC

CONSTANTS Task,             \* tasks that share the client
          Nobody,
          MaxTime,          \* bound on the clock
          Life,             \* the longest life of a token that is issued
          ExecMargin,       \* to_header: 60 s before the expiry
          OidcMargin,       \* EXPIRY_DELTA_SECONDS: 10 s
          FileLife,         \* TokenFile: 60 s ...
          FileMargin,       \* ... less 10 s
          MaxRotations,     \* bound on the changes of token file and refresh token
          GcpCacheOnly      \* whether a gcp provider has a cached token and no cmd-path

ASSUME AuthAssumption ==
    /\ {MaxTime, Life, ExecMargin, OidcMargin, FileLife, FileMargin, MaxRotations} \subseteq Nat
    /\ Nobody \notin Task /\ FileMargin < FileLife /\ GcpCacheOnly \in BOOLEAN

VARIABLES now,
          auth,       \* the Auth of the client
          identity,   \* whether its TLS identity is the exec plugin's certificate
          lock,       \* the mutex or RwLock around a refreshable token
          tasks,      \* where the request of each task stands
          header,     \* the token in the header of the request
          disk,       \* the token file
          idp         \* the OpenID provider

authVars == <<now, auth, identity, lock, tasks, header, disk, idp>>

Unlocked == [writer |-> Nobody, readers |-> {}]
NoHeader == [fresh |-> TRUE, expires |-> 0, token |-> 0]
Type(type) == [type |-> type]
Failed == Type("Error")

AuthInit ==
    /\ now = 0
    /\ auth = Type("unset")
    /\ identity = FALSE
    /\ lock = Unlocked
    /\ tasks = [t \in Task |-> "idle"]
    /\ header = [t \in Task |-> NoHeader]
    /\ disk = [token |-> 1, present |-> TRUE, written |-> 0]
    /\ idp = [style |-> "Header", refresh |-> 0, reply |-> Failed, cut |-> FALSE]

-----------------------------------------------------------------------------
(* Auth::try_from                                                          *)

Blank == [provider |-> Type("none"), basic |-> FALSE, token |-> FALSE, token_file |-> FALSE, exec |-> FALSE]
OidcProvider(refresher) == [type |-> "oidc", refresher |-> refresher]
GcpProvider(id_token, cached, cmd) == [type |-> "gcp", id_token |-> id_token, cached |-> cached, cmd |-> cmd]

\* What an AuthInfo may hold; what has precedence is put beside what has not.
Providers ==
    {OidcProvider(b) : b \in BOOLEAN} \cup {Type("azure")}
    \cup {GcpProvider(TRUE, {}, "none"), GcpProvider(FALSE, {}, "none"), GcpProvider(FALSE, {}, "plain")}
    \cup {GcpProvider(FALSE, c, "expiring") : c \in {{}, {Life}}}
    \cup IF GcpCacheOnly THEN {GcpProvider(FALSE, {Life}, "none")} ELSE {}

ExecInfo == [Blank EXCEPT !.exec = TRUE]
FileInfo == [Blank EXCEPT !.token_file = TRUE]
AuthInfos ==
    {Blank, ExecInfo, [ExecInfo EXCEPT !.token_file = TRUE], [FileInfo EXCEPT !.token = TRUE],
     [ExecInfo EXCEPT !.basic = TRUE, !.token = TRUE]}
    \cup {[ExecInfo EXCEPT !.provider = p] : p \in Providers}

Expiries == (now + 1)..(now + Life)
Exec(expires, info) == [type |-> "Exec", expires |-> expires, info |-> info]

\* GcpCommand with an expiry: both are kept for the next look at the provider.
GcpExec(expires, info) == Exec(expires, [info EXCEPT !.provider.cached = {expires}])

token_from_gcp_provider(info) ==
    LET p == info.provider
        valid == {e \in p.cached : now + ExecMargin < e}
    IN  CASE p.id_token -> {Type("Bearer")}
          [] ~p.id_token /\ valid # {} -> {GcpExec(e, info) : e \in valid}
          [] ~p.id_token /\ valid = {} /\ p.cmd = "plain" -> {Type("Bearer"), Failed}
          [] ~p.id_token /\ valid = {} /\ p.cmd = "expiring" -> {GcpExec(e, info) : e \in Expiries} \cup {Failed}
          [] OTHER -> {Type("GcpOauth"), Failed}

\* Oidc::from_config: the id-token of the config may have expired long ago.
token_from_oidc_provider(info) ==
    {[type |-> "Oidc", expires |-> e, refresher |-> info.provider.refresher,
      endpoint |-> FALSE, style |-> "unknown", refresh |-> 0] : e \in 0..Life}

\* A certificate, a token with or without expiry, or neither
auth_exec(info) == {Failed, Type("Certificate"), Type("Bearer"), Type("None")} \cup {Exec(e, info) : e \in Expiries}

TokenFile == [type |-> "File", token |-> disk.token, expires |-> now + FileLife, missed |-> FALSE]

try_from(info) ==
    CASE info.provider.type = "oidc" -> token_from_oidc_provider(info)
      [] info.provider.type = "gcp" -> token_from_gcp_provider(info)
      [] info.provider.type = "azure" -> {Failed}
      [] info.provider.type = "none" ->
           IF info.basic THEN {Type("Basic")}
           ELSE IF info.token THEN {Type("Bearer")}
           ELSE IF info.token_file THEN {IF disk.present THEN TokenFile ELSE Failed}
           ELSE IF info.exec THEN auth_exec(info)
           ELSE {Type("None")}

\* The TLS identity: the certificate of the plugin, if it gives one
exec_identity_pem(a) == a.type = "Certificate"

\* ClientBuilder::try_from: the TLS connector and the auth layer each make an Auth, so a
\* plugin runs twice; the first time nothing but a certificate is of interest.
Build(info, first, second) ==
    /\ first \in try_from(info)
    /\ second \in try_from(info)
    /\ identity' = exec_identity_pem(first)
    /\ auth' = second
    /\ idp' \in {[idp EXCEPT !.style = s] : s \in {"Header", "Params"}}
    /\ UNCHANGED <<now, lock, tasks, header, disk>>

-----------------------------------------------------------------------------
(* to_header                                                               *)

Free == lock = Unlocked
Take(t) == lock' = [lock EXCEPT !.writer = t]
Release == lock' = Unlocked
At(t, state) == tasks' = [tasks EXCEPT ![t] = state]

Sent(t, token) == /\ At(t, "sent")
                  /\ header' = [header EXCEPT ![t] = token]

Expiring(expires, fresh) == [fresh |-> fresh, expires |-> expires, token |-> 0]
Refuse(t) == At(t, "error") /\ Release /\ UNCHANGED header
Outside == <<now, identity, disk>>

Call(t) ==
    /\ auth.type # "unset"
    /\ tasks[t] = "idle"
    /\ At(t, "waiting")
    /\ UNCHANGED <<Outside, auth, lock, header, idp>>

\* AddAuthorizationLayer, or no layer at all
AddAuthorization(t) ==
    /\ tasks[t] = "waiting"
    /\ auth.type \in {"None", "Basic", "Bearer", "Certificate"}
    /\ Sent(t, NoHeader)
    /\ UNCHANGED <<Outside, auth, lock, idp>>

ExecExpiring_NoMargin(expires) == now > expires
ExecExpiring(expires) == now + ExecMargin >= expires

CheckExec(t) ==
    /\ tasks[t] = "waiting" /\ auth.type = "Exec" /\ Free
    /\ IF ExecExpiring(auth.expires)
       THEN At(t, "refreshing") /\ Take(t) /\ UNCHANGED header
       ELSE Sent(t, Expiring(auth.expires, FALSE)) /\ UNCHANGED lock
    /\ UNCHANGED <<Outside, auth, idp>>

\* Auth::try_from again, which may run the plugin and take its time
RefreshExec(t) ==
    /\ tasks[t] = "refreshing"
    /\ \E new \in try_from(auth.info) :
         \/ /\ new.type = "Exec"
            /\ auth' = new
            /\ Sent(t, Expiring(new.expires, TRUE)) /\ Release
         \/ /\ new.type \in {"Error", "None", "Basic", "Bearer", "Certificate"}
            /\ Refuse(t) /\ UNCHANGED auth
         \/ /\ new.type \in {"File", "GcpOauth", "Oidc"}     \* unreachable!()
            /\ At(t, "panicked") /\ Release /\ UNCHANGED <<auth, header>>
    /\ UNCHANGED <<Outside, idp>>

FileToken(token) == [fresh |-> FALSE, expires |-> MaxTime + 1, token |-> token]
is_expiring == now + FileMargin > auth.expires

cached_token_KeepsGuard(t) ==
    /\ tasks[t] = "waiting" /\ auth.type = "File" /\ lock.writer = Nobody
    /\ IF is_expiring
       THEN At(t, "writing") /\ lock' = [lock EXCEPT !.readers = @ \cup {t}] /\ UNCHANGED header
       ELSE Sent(t, FileToken(auth.token)) /\ UNCHANGED lock
    /\ UNCHANGED <<Outside, auth, idp>>

\* Under the read lock, which is dropped before the write lock is asked for
cached_token(t) ==
    /\ tasks[t] = "waiting" /\ auth.type = "File" /\ lock.writer = Nobody
    /\ IF is_expiring
       THEN At(t, "writing") /\ UNCHANGED header
       ELSE Sent(t, FileToken(auth.token))
    /\ UNCHANGED <<Outside, auth, lock, idp>>

Reload_OnlyExpiry == [auth EXCEPT !.expires = now + FileLife]

Reload == [auth EXCEPT !.expires = now + FileLife, !.missed = ~disk.present,
                       !.token = IF disk.present THEN disk.token ELSE @]

\* Under the write lock: another task may have reloaded the token meanwhile.
token(t) ==
    /\ tasks[t] = "writing" /\ Free
    /\ auth' = IF is_expiring THEN Reload ELSE auth
    /\ Sent(t, FileToken(auth'.token))
    /\ UNCHANGED <<Outside, lock, idp>>

\* Gcp::token: tame-oauth has a token, or the request for it goes out.
GcpToken(t) ==
    /\ tasks[t] = "waiting" /\ auth.type = "GcpOauth" /\ Free
    /\ \/ Sent(t, NoHeader) /\ UNCHANGED lock
       \/ At(t, "oauth") /\ Take(t) /\ UNCHANGED header
    /\ UNCHANGED <<Outside, auth, idp>>

GcpResponse(t) ==
    /\ tasks[t] = "oauth"
    /\ Refuse(t) \/ (Sent(t, NoHeader) /\ Release)
    /\ UNCHANGED <<Outside, auth, idp>>

-----------------------------------------------------------------------------
(* Oidc::id_token                                                          *)

token_valid == now + OidcMargin < auth.expires

CheckOidc(t) ==
    /\ tasks[t] = "waiting" /\ auth.type = "Oidc" /\ Free
    /\ \/ token_valid /\ Sent(t, Expiring(auth.expires, FALSE)) /\ UNCHANGED lock
       \/ ~token_valid /\ ~auth.refresher /\ Refuse(t)
       \/ /\ ~token_valid /\ auth.refresher
          /\ At(t, IF auth.endpoint THEN "asking" ELSE "endpoint") /\ Take(t) /\ UNCHANGED header
    /\ UNCHANGED <<Outside, auth, idp>>

token_endpoint(t) ==
    /\ tasks[t] = "endpoint"
    /\ \/ auth' = [auth EXCEPT !.endpoint = TRUE] /\ At(t, "asking") /\ UNCHANGED <<lock, header>>
       \/ Refuse(t) /\ UNCHANGED auth
    /\ UNCHANGED <<Outside, idp>>

\* AuthStyle::ALL, as long as none is known to work
Style(t) == IF auth.style # "unknown" THEN auth.style
            ELSE IF tasks[t] = "asking again" THEN "Params" ELSE "Header"

Accepts(t) == Style(t) = idp.style /\ auth.refresh = idp.refresh

Grant(r, i) == [idp EXCEPT !.refresh = r, !.reply = [type |-> "ok", refresh |-> r, id_token |-> i]]

\* The provider grants the request: with a new refresh token (the old one is void) or
\* without, with an id token or without.
Granted ==
    {Grant(r, i) : r \in {idp.refresh, idp.refresh + 1} \cap (0..MaxRotations),
                   i \in {{}} \cup {{e} : e \in Expiries}}

ProviderAnswers(t) ==
    /\ tasks[t] \in {"asking", "asking again"}
    /\ \/ Accepts(t) /\ idp' \in Granted /\ At(t, "answered") /\ UNCHANGED <<lock, header>>
       \/ /\ ~Accepts(t) /\ auth.style = "unknown" /\ tasks[t] = "asking"
          /\ At(t, "asking again") /\ UNCHANGED <<lock, header, idp>>
       \/ /\ ~Accepts(t) /\ (auth.style # "unknown" \/ tasks[t] = "asking again")
          /\ Refuse(t) /\ UNCHANGED idp
    /\ UNCHANGED <<Outside, auth>>

Stored_OnlyWithIdToken(t, reply) ==
    IF reply.id_token = {} THEN [auth EXCEPT !.style = Style(t)]
    ELSE [auth EXCEPT !.style = Style(t), !.refresh = reply.refresh,
                      !.expires = CHOOSE e \in reply.id_token : TRUE]

\* The refresh token is stored first: an answer without an id token is an error.
Stored(t, reply) ==
    [auth EXCEPT !.style = Style(t), !.refresh = reply.refresh,
                 !.expires = IF reply.id_token = {} THEN @ ELSE CHOOSE e \in reply.id_token : TRUE]

ReceiveToken(t) ==
    /\ tasks[t] = "answered"
    /\ auth' = Stored(t, idp.reply)
    /\ IF idp.reply.id_token = {} THEN Refuse(t)
       ELSE Sent(t, Expiring(auth'.expires, TRUE)) /\ Release
    /\ idp' = [idp EXCEPT !.reply = Failed]
    /\ UNCHANGED Outside

\* A request to the provider fails, before or after it had its effect, or the task drops
\* its request (a timeout, a select) while it waits; the guard goes with it.
Cut(t, state) ==
    /\ At(t, state)
    /\ IF tasks[t] = "answered"
       THEN idp' = [idp EXCEPT !.reply = Failed, !.cut = TRUE]
       ELSE \/ UNCHANGED idp
            \/ /\ tasks[t] \in {"asking", "asking again"} /\ Accepts(t)
               /\ \E granted \in Granted : idp' = [granted EXCEPT !.reply = Failed, !.cut = TRUE]
    /\ lock' = IF lock.writer = t THEN Unlocked ELSE [lock EXCEPT !.readers = @ \ {t}]
    /\ UNCHANGED <<Outside, auth, header>>

Disconnect(t) == tasks[t] \in {"asking", "asking again", "answered"} /\ Cut(t, "error")

Cancel(t) == /\ tasks[t] \in {"waiting", "writing", "oauth", "endpoint", "asking", "asking again", "answered"}
             /\ Cut(t, "idle")

\* The response of the API server, or the error, is there.
Return(t) ==
    /\ tasks[t] \in {"sent", "error"}
    /\ At(t, "idle")
    /\ header' = [header EXCEPT ![t] = NoHeader]
    /\ UNCHANGED <<Outside, auth, lock, idp>>

Acquire(t) == \/ AddAuthorization(t) \/ CheckExec(t) \/ cached_token(t) \/ token(t)
              \/ GcpToken(t) \/ CheckOidc(t)
Proceed(t) == \/ RefreshExec(t) \/ GcpResponse(t) \/ token_endpoint(t) \/ ProviderAnswers(t) \/ ReceiveToken(t)

-----------------------------------------------------------------------------
Tick == now < MaxTime /\ now' = now + 1 /\ UNCHANGED <<auth, identity, lock, tasks, header, disk, idp>>

\* The token file is replaced, or removed.
Rotate ==
    /\ disk' \in {[token |-> disk.token + 1, present |-> TRUE, written |-> now], [disk EXCEPT !.present = FALSE]}
    /\ disk'.token <= MaxRotations
    /\ auth.type = "File"
    /\ UNCHANGED <<now, auth, identity, lock, tasks, header, idp>>

UseAuth == \/ \E t \in Task : Call(t) \/ Acquire(t) \/ Proceed(t) \/ Disconnect(t) \/ Cancel(t) \/ Return(t)
           \/ Rotate
           \/ auth.type \in {"Exec", "File", "Oidc"} /\ Tick
=============================================================================
