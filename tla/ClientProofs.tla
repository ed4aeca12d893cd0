---------------------------- MODULE ClientProofs ----------------------------
(***************************************************************************)
(* The credentials of a client, proved for any number of tasks and all     *)
(* lifetimes: no request carries a token that is known to be stale, the    *)
(* refresh token of an OpenID provider is not lost, and a refresh of an    *)
(* exec token finds another kind of credentials only with a gcp provider   *)
(* that has a cached token and no command.  And its configuration, for any *)
(* files and users: the first file that has an entry decides.              *)
(***************************************************************************)
EXTENDS Client, TLAPS

-----------------------------------------------------------------------------
(* The inductive invariant                                                 *)

Provider == [type : {"none", "azure"}] \cup [type : {"oidc"}, refresher : BOOLEAN]
            \cup [type : {"gcp"}, id_token : BOOLEAN, cached : SUBSET Nat,
                  cmd : {"none", "plain", "expiring"}]
Info == [provider : Provider, basic : BOOLEAN, token : BOOLEAN, token_file : BOOLEAN, exec : BOOLEAN]

Kinds == {"unset", "Error", "None", "Basic", "Bearer", "Certificate", "GcpOauth"}
ExecAuth == [type : {"Exec"}, expires : Nat, info : Info]
FileAuth == [type : {"File"}, token : Nat, expires : Nat, missed : BOOLEAN]
OidcAuth == [type : {"Oidc"}, expires : Nat, refresher : BOOLEAN, endpoint : BOOLEAN,
             style : {"unknown", "Header", "Params"}, refresh : Nat]
AuthValue == [type : Kinds] \cup ExecAuth \cup FileAuth \cup OidcAuth

Header == [fresh : BOOLEAN, expires : Nat, token : Nat]
Granting == [type : {"ok"}, refresh : Nat, id_token : SUBSET Nat]

\* What a task that holds the lock of the token is doing
Holding == {"refreshing", "oauth", "endpoint", "asking", "asking again", "answered"}
TaskState == Holding \cup {"idle", "waiting", "writing", "sent", "error", "panicked"}

TypeOK ==
    /\ now \in 0..MaxTime
    /\ auth \in AuthValue
    /\ lock \in [writer : Task \cup {Nobody}, readers : SUBSET Task]
    /\ tasks \in [Task -> TaskState]
    /\ header \in [Task -> Header]
    /\ disk \in [token : Nat, present : BOOLEAN, written : Nat]
    /\ idp \in [style : {"Header", "Params"}, refresh : Nat, reply : {Failed} \cup Granting,
                cut : BOOLEAN]

\* The credentials are untouched until the client is built.
Unbuilt == phase \notin {"built", "refused"} => AuthInit

\* What a task is doing fits the kind of credentials.
TasksFit ==
    \A t \in Task :
      /\ tasks[t] = "refreshing" => auth.type = "Exec"
      /\ tasks[t] = "writing" => auth.type = "File"
      /\ tasks[t] = "oauth" => auth.type = "GcpOauth"
      /\ tasks[t] \in {"endpoint", "asking", "asking again", "answered"} => auth.type = "Oidc"

\* Who is refreshing holds the lock.
LockHeld == \A t \in Task : tasks[t] \in Holding => lock.writer = t

\* The answer a task has not read yet carries what the provider honours from now on.
ReplyPending ==
    \A t \in Task : tasks[t] = "answered" => idp.reply \in Granting /\ idp.reply.refresh = idp.refresh

\* The refresh token is known to the client, or in an answer that a task will read.
RefreshKnown ==
    auth.type = "Oidc" /\ ~idp.cut =>
      auth.refresh = idp.refresh \/ \E t \in Task : tasks[t] = "answered"

\* A token file that differs was written after the last reload.
FileKnown ==
    auth.type = "File" =>
      /\ auth.expires <= now + FileLife
      /\ ~auth.missed => auth.token = disk.token \/ auth.expires <= disk.written + FileLife

\* The AuthInfo of an Exec token leads to an Exec token again, or to none.
Renewable(info) ==
    \/ info.provider.type = "none" /\ ~info.basic /\ ~info.token /\ ~info.token_file /\ info.exec
    \/ info.provider.type = "gcp" /\ ~info.provider.id_token /\ info.provider.cmd = "expiring"

ExecRenews == ~GcpCacheOnly => /\ auth.type = "Exec" => Renewable(auth.info)
                               /\ TokenSourceUnchanged

AuthInv == /\ TypeOK /\ TasksFit /\ LockHeld /\ ReplyPending /\ RefreshKnown /\ FileKnown
           /\ ExecRenews

IInv == Unbuilt /\ AuthInv
-----------------------------------------------------------------------------
(* Auth::try_from                                                          *)

\* What the provider of an AuthInfo may be, by its type
LEMMA ProviderForms ==
  ASSUME NEW p \in Provider
  PROVE  /\ p.type \in {"none", "azure", "oidc", "gcp"}
         /\ p.type = "oidc" => p.refresher \in BOOLEAN
         /\ p.type = "gcp" => /\ p.id_token \in BOOLEAN /\ p.cached \in SUBSET Nat
                              /\ p.cmd \in {"none", "plain", "expiring"}
                              /\ p \in [type : {"gcp"}, id_token : BOOLEAN, cached : SUBSET Nat,
                                        cmd : {"none", "plain", "expiring"}]
  BY DEF Provider

\* The kind of credentials determines their fields.
LEMMA AuthForms ==
  ASSUME NEW a \in AuthValue
  PROVE  /\ a.type = "Exec" => a \in ExecAuth
         /\ a.type = "File" => a \in FileAuth
         /\ a.type = "Oidc" => a \in OidcAuth
         /\ a.type \in Kinds \cup {"Exec", "File", "Oidc"}
  BY DEF AuthValue, ExecAuth, FileAuth, OidcAuth, Kinds

\* Times at which a token may expire
LEMMA ExpiriesType ==
  ASSUME now \in Nat
  PROVE  Expiries \subseteq Nat
  BY AuthAssumption DEF Expiries

\* Credentials that need no lock
LEMMA PlainType ==
  ASSUME NEW kind \in Kinds
  PROVE  Type(kind) \in AuthValue /\ Type(kind).type = kind
  BY DEF AuthValue, Type

\* A token that an exec plugin gave
LEMMA ExecType ==
  ASSUME NEW e \in Nat, NEW info \in Info
  PROVE  /\ Exec(e, info) \in AuthValue /\ Exec(e, info).type = "Exec" /\ Exec(e, info).info = info
  BY DEF Exec, AuthValue, ExecAuth

\* A token that the gcp command gave: the provider remembers it.
LEMMA GcpExecType ==
  ASSUME NEW e \in Nat, NEW info \in Info, info.provider.type = "gcp"
  PROVE  /\ GcpExec(e, info) \in AuthValue /\ GcpExec(e, info).type = "Exec"
         /\ GcpExec(e, info).info.provider.type = "gcp"
         /\ GcpExec(e, info).info.provider.id_token = info.provider.id_token
         /\ GcpExec(e, info).info.provider.cmd = info.provider.cmd
<1> DEFINE p == [info.provider EXCEPT !.cached = {e}]
           i == [info EXCEPT !.provider.cached = {e}]
<1>1. info.provider \in [type : {"gcp"}, id_token : BOOLEAN, cached : SUBSET Nat,
                         cmd : {"none", "plain", "expiring"}]
  BY ProviderForms DEF Info
<1>2. /\ p \in Provider /\ p.type = "gcp"
      /\ p.id_token = info.provider.id_token /\ p.cmd = info.provider.cmd
  BY <1>1 DEF Provider
<1>3. i \in Info /\ i.provider = p
  BY <1>2 DEF Info
<1>4. GcpExec(e, info) = Exec(e, i)
  BY DEF GcpExec
<1> HIDE DEF p, i
<1>5. Exec(e, i) \in AuthValue /\ Exec(e, i).type = "Exec" /\ Exec(e, i).info = i
  BY <1>3, ExecType
<1> QED
  BY <1>2, <1>3, <1>4, <1>5

\* token_from_gcp_provider
LEMMA GcpCases ==
  ASSUME NEW info \in Info, now \in Nat, info.provider.type = "gcp",
         NEW a \in token_from_gcp_provider(info)
  PROVE  \/ a \in {Type("Bearer"), Type("GcpOauth"), Failed}
         \/ ~info.provider.id_token /\ \E e \in info.provider.cached : a = GcpExec(e, info)
         \/ /\ ~info.provider.id_token /\ info.provider.cmd = "expiring"
            /\ \E e \in Expiries : a = GcpExec(e, info)
<1> DEFINE p == info.provider
           valid == {e \in p.cached : now + ExecMargin < e}
<1>1. p.id_token \in BOOLEAN
  BY ProviderForms DEF Info
<1>2. CASE p.id_token
  <2>1. token_from_gcp_provider(info) = {Type("Bearer")}
    BY <1>2 DEF token_from_gcp_provider
  <2> QED
    BY <2>1
<1>3. CASE ~p.id_token /\ valid # {}
  <2>1. token_from_gcp_provider(info) = {GcpExec(e, info) : e \in valid}
    BY <1>3 DEF token_from_gcp_provider
  <2> QED
    BY <1>3, <2>1
<1>4. CASE ~p.id_token /\ valid = {} /\ p.cmd = "plain"
  <2>1. token_from_gcp_provider(info) = {Type("Bearer"), Failed}
    BY <1>4 DEF token_from_gcp_provider
  <2> QED
    BY <2>1
<1>5. CASE ~p.id_token /\ valid = {} /\ p.cmd = "expiring"
  <2>1. token_from_gcp_provider(info) = {GcpExec(e, info) : e \in Expiries} \cup {Failed}
    BY <1>5 DEF token_from_gcp_provider
  <2> QED
    BY <1>5, <2>1
<1>6. CASE ~p.id_token /\ valid = {} /\ p.cmd # "plain" /\ p.cmd # "expiring"
  <2>1. token_from_gcp_provider(info) = {Type("GcpOauth"), Failed}
    BY <1>6 DEF token_from_gcp_provider
  <2> QED
    BY <2>1
<1> QED
  BY <1>1, <1>2, <1>3, <1>4, <1>5, <1>6

\* Only with a cached token and no command does a gcp provider lead to an Exec token that
\* a refresh might not renew.
Regular(info) == info.provider.type = "gcp" /\ info.provider.cached # {}
                   => info.provider.cmd = "expiring"

\* try_from gives credentials of one of the kinds.  An Exec token can be renewed from the
\* AuthInfo that is kept with it, and such an AuthInfo gives nothing but Exec tokens and
\* what is refused.
LEMMA TryFrom ==
  ASSUME NEW info \in Info, now \in Nat, disk \in [token : Nat, present : BOOLEAN, written : Nat],
         NEW a \in try_from(info)
  PROVE  /\ a \in AuthValue /\ a.type # "unset"
         /\ Regular(info) /\ a.type = "Exec" => Renewable(a.info)
         /\ Renewable(info) => a.type \notin {"File", "GcpOauth", "Oidc"}
         /\ Renewable(info) /\ a.type = "Exec" => Renewable(a.info)
         /\ a.type = "Oidc" => a.refresh = 0
         /\ a.type = "File" => a = TokenFile
<1> USE DEF Kinds
<1>1. info.provider \in Provider
  BY DEF Info
<1>2. CASE info.provider.type = "oidc"
  <2>1. a \in token_from_oidc_provider(info)
    BY <1>2 DEF try_from
  <2>2. a \in OidcAuth /\ a.type = "Oidc" /\ a.refresh = 0
    <3>1. PICK e \in 0..Life :
            a = [type |-> "Oidc", expires |-> e, refresher |-> info.provider.refresher,
                 endpoint |-> FALSE, style |-> "unknown", refresh |-> 0]
      BY <2>1 DEF token_from_oidc_provider
    <3>2. e \in Nat /\ info.provider.refresher \in BOOLEAN
      BY <1>1, <1>2, ProviderForms, AuthAssumption
    <3> QED
      BY <3>1, <3>2 DEF OidcAuth
  <2> QED
    BY <1>2, <2>2 DEF AuthValue, Renewable
<1>3. CASE info.provider.type = "gcp"
  <2>1. a \in token_from_gcp_provider(info)
    BY <1>3 DEF try_from
  <2>2. CASE a \in {Type("Bearer"), Type("GcpOauth"), Failed}
    <3>1. a \in AuthValue /\ a.type \in {"Bearer", "GcpOauth", "Error"}
      BY <2>2, PlainType DEF Failed
    <3>2. Renewable(info) => a.type # "GcpOauth"
      <4> SUFFICES ASSUME Renewable(info), a.type = "GcpOauth" PROVE FALSE
        OBVIOUS
      <4>1. ~info.provider.id_token /\ info.provider.cmd = "expiring"
        BY <1>3 DEF Renewable
      <4>2. a = Type("GcpOauth")
        BY <2>2, PlainType DEF Failed
      <4>3. a # Failed /\ \A e : a # GcpExec(e, info)
        BY <4>2 DEF Failed, Type, GcpExec, Exec
      <4> DEFINE valid == {e \in info.provider.cached : now + ExecMargin < e}
      <4>4. CASE valid # {}
        <5>1. token_from_gcp_provider(info) = {GcpExec(e, info) : e \in valid}
          BY <4>1, <4>4 DEF token_from_gcp_provider
        <5> QED
          BY <2>1, <4>3, <5>1
      <4>5. CASE valid = {}
        <5>1. token_from_gcp_provider(info) = {GcpExec(e, info) : e \in Expiries} \cup {Failed}
          BY <4>1, <4>5 DEF token_from_gcp_provider
        <5> QED
          BY <2>1, <4>3, <5>1
      <4> QED
        BY <4>4, <4>5
    <3> QED
      BY <3>1, <3>2
  <2>3. ASSUME NEW e \in info.provider.cached, ~info.provider.id_token, a = GcpExec(e, info)
        PROVE  /\ a \in AuthValue /\ a.type = "Exec"
               /\ Regular(info) \/ Renewable(info) => Renewable(a.info)
    <3>1. e \in Nat
      BY <1>1, <1>3, ProviderForms
    <3> QED
      BY <1>3, <2>3, <3>1, GcpExecType DEF Renewable, Regular
  <2>4. ASSUME NEW e \in Expiries, ~info.provider.id_token, info.provider.cmd = "expiring",
               a = GcpExec(e, info)
        PROVE  a \in AuthValue /\ a.type = "Exec" /\ Renewable(a.info)
    <3>1. e \in Nat
      BY ExpiriesType
    <3> QED
      BY <1>3, <2>4, <3>1, GcpExecType DEF Renewable
  <2> QED
    BY <1>3, <2>1, <2>2, <2>3, <2>4, GcpCases
<1>4. CASE info.provider.type = "azure"
  <2>1. a = Failed
    BY <1>4 DEF try_from
  <2> QED
    BY <2>1, PlainType DEF Failed
<1>5. CASE info.provider.type = "none"
  <2>1. a \in IF info.basic THEN {Type("Basic")}
              ELSE IF info.token THEN {Type("Bearer")}
              ELSE IF info.token_file THEN {IF disk.present THEN TokenFile ELSE Failed}
              ELSE IF info.exec THEN auth_exec(info)
              ELSE {Type("None")}
    BY <1>5 DEF try_from
  <2>2. CASE a \in {Type("Basic"), Type("Bearer"), Type("None"), Type("Certificate"), Failed}
    BY <2>2, PlainType DEF Failed
  <2>3. CASE a = TokenFile /\ info.token_file
    <3>1. a \in FileAuth /\ a.type = "File"
      BY <2>3, AuthAssumption DEF TokenFile, FileAuth
    <3> QED
      BY <1>5, <2>3, <3>1 DEF AuthValue, Renewable
  <2>4. CASE /\ \E e \in Expiries : a = Exec(e, info)
             /\ ~info.basic /\ ~info.token /\ ~info.token_file /\ info.exec
    <3>1. PICK e \in Nat : a = Exec(e, info)
      BY <2>4, ExpiriesType
    <3>2. a \in AuthValue /\ a.type = "Exec" /\ a.info = info
      BY <3>1, ExecType
    <3> QED
      BY <1>5, <2>4, <3>2 DEF Renewable
  <2> QED
    BY <2>1, <2>2, <2>3, <2>4 DEF auth_exec
<1> QED
  BY <1>1, <1>2, <1>3, <1>4, <1>5, ProviderForms

\* The AuthInfos that are looked at; only a gcp provider that has a cached token and no
\* command is irregular.
LEMMA InfosType ==
  ASSUME NEW info \in AuthInfos \cup {FileInfo}
  PROVE  info \in Info /\ (~GcpCacheOnly => Regular(info))
<1>1. Blank \in Info /\ Blank.provider.type = "none"
  BY DEF Blank, Info, Provider, Type
<1>2. ExecInfo \in Info /\ ExecInfo.provider.type = "none" /\ FileInfo \in Info /\ FileInfo.provider.type = "none"
  BY <1>1 DEF ExecInfo, FileInfo, Info, Blank
<1>3. CASE info \in {Blank, ExecInfo, FileInfo, [ExecInfo EXCEPT !.token_file = TRUE],
                     [FileInfo EXCEPT !.token = TRUE], [ExecInfo EXCEPT !.basic = TRUE, !.token = TRUE]}
  BY <1>1, <1>2, <1>3 DEF Info, Regular
<1>4. CASE \E p \in Providers : info = [ExecInfo EXCEPT !.provider = p]
  <2>1. PICK p \in Providers : info = [ExecInfo EXCEPT !.provider = p]
    BY <1>4
  <2>2. p \in Provider /\ (~GcpCacheOnly /\ p.type = "gcp" /\ p.cached # {} => p.cmd = "expiring")
    <3>1. CASE \E b \in BOOLEAN : p = OidcProvider(b)
      BY <3>1 DEF OidcProvider, Provider
    <3>2. CASE p = Type("azure")
      BY <3>2 DEF Type, Provider
    <3>3. ASSUME NEW b \in BOOLEAN, NEW c \in SUBSET Nat, NEW d \in {"none", "plain", "expiring"}
          PROVE  /\ GcpProvider(b, c, d) \in Provider /\ GcpProvider(b, c, d).type = "gcp"
                 /\ GcpProvider(b, c, d).cached = c /\ GcpProvider(b, c, d).cmd = d
      BY DEF GcpProvider, Provider
    <3>4. {Life} \in SUBSET Nat /\ {} \in SUBSET Nat
      BY AuthAssumption
    <3>5. CASE \E b \in BOOLEAN, d \in {"none", "plain", "expiring"} : p = GcpProvider(b, {}, d)
      BY <3>3, <3>4, <3>5
    <3>6. CASE p = GcpProvider(FALSE, {Life}, "expiring")
      BY <3>3, <3>4, <3>6
    <3>7. CASE GcpCacheOnly /\ p = GcpProvider(FALSE, {Life}, "none")
      BY <3>3, <3>4, <3>7
    <3> QED
      BY <3>1, <3>2, <3>5, <3>6, <3>7 DEF Providers
  <2>3. info \in Info /\ info.provider = p
    BY <1>2, <2>1, <2>2 DEF Info
  <2> QED
    BY <2>2, <2>3 DEF Regular
<1> QED
  BY <1>3, <1>4 DEF AuthInfos
-----------------------------------------------------------------------------
(* Steps of a task that leave the credentials alone                        *)

\* What fits the kind of credentials
Fits(s) == /\ s = "refreshing" => auth.type = "Exec"
           /\ s = "writing" => auth.type = "File"
           /\ s = "oauth" => auth.type = "GcpOauth"
           /\ s \in {"endpoint", "asking", "asking again", "answered"} => auth.type = "Oidc"

\* The lock excludes: nobody refreshes while it is free, nor beside the one who does.
LEMMA Exclusive ==
  ASSUME TypeOK, LockHeld, NEW t \in Task
  PROVE  /\ Free => tasks[t] \notin Holding
         /\ tasks[t] \in Holding => \A u \in Task : u # t => tasks[u] \notin Holding
<1>1. Free => lock.writer \notin Task
  BY AuthAssumption DEF Free, Unlocked
<1> QED
  BY <1>1 DEF LockHeld

\* A task goes to another state; no one else loses the lock.
LEMMA TaskMoves ==
  ASSUME AuthInv, UNCHANGED <<now, auth, disk, idp>>, NEW t \in Task, NEW s \in TaskState, At(t, s),
         tasks[t] # "answered", s # "answered", Fits(s), s = "panicked" => GcpCacheOnly,
         header' \in [Task -> Header],
         lock' \in [writer : Task \cup {Nobody}, readers : SUBSET Task],
         s \in Holding => lock'.writer = t,
         \A u \in Task : u # t /\ tasks[u] \in Holding => lock'.writer = u
  PROVE  AuthInv'
<1> USE DEF AuthInv
<1>1. tasks' = [tasks EXCEPT ![t] = s] /\ tasks \in [Task -> TaskState]
  BY DEF At, TypeOK
<1>2. \A u \in Task : tasks'[u] = IF u = t THEN s ELSE tasks[u]
  BY <1>1
<1>3. TypeOK'
  BY <1>1 DEF TypeOK
<1>4. TasksFit'
  BY <1>2 DEF TasksFit, Fits
<1>5. LockHeld'
  BY <1>2 DEF LockHeld
<1>6. ReplyPending'
  BY <1>2 DEF ReplyPending
<1>7. RefreshKnown' /\ FileKnown'
  BY <1>2 DEF RefreshKnown, FileKnown
<1>8. ExecRenews'
  BY <1>2 DEF ExecRenews, TokenSourceUnchanged
<1> QED
  BY <1>3, <1>4, <1>5, <1>6, <1>7, <1>8

\* The header of a request
LEMMA HeaderType ==
  ASSUME NEW e \in Nat, NEW b \in BOOLEAN, NEW k \in Nat
  PROVE  NoHeader \in Header /\ Expiring(e, b) \in Header /\ FileToken(k) \in Header
  BY AuthAssumption DEF NoHeader, Expiring, FileToken, Header

\* A request is sent with a token that the client had, or without one.
LEMMA TaskSends ==
  ASSUME AuthInv, UNCHANGED <<now, auth, disk, idp, lock>>, NEW t \in Task, NEW h \in Header, Sent(t, h),
         tasks[t] # "answered"
  PROVE  AuthInv'
<1>1. header' \in [Task -> Header] /\ lock' \in [writer : Task \cup {Nobody}, readers : SUBSET Task]
  BY DEF Sent, AuthInv, TypeOK
<1>2. \A u \in Task : u # t /\ tasks[u] \in Holding => lock'.writer = u
  BY DEF AuthInv, LockHeld
<1>3. "sent" \in TaskState /\ Fits("sent") /\ "sent" \notin Holding
  BY DEF TaskState, Fits, Holding
<1> QED
  BY <1>1, <1>2, <1>3, TaskMoves DEF Sent

\* A task gives up and releases the lock, which nobody else holds.
LEMMA TaskReleases ==
  ASSUME AuthInv, UNCHANGED <<now, auth, disk, idp>>, NEW t \in Task, Free \/ tasks[t] \in Holding,
         NEW s \in {"sent", "error", "panicked"}, At(t, s), Release, header' \in [Task -> Header],
         s = "panicked" => GcpCacheOnly, tasks[t] # "answered"
  PROVE  AuthInv'
<1>1. lock' \in [writer : Task \cup {Nobody}, readers : SUBSET Task]
  BY DEF Release, Unlocked
<1>2. \A u \in Task : u # t => tasks[u] \notin Holding
  BY Exclusive DEF AuthInv
<1>3. s \in TaskState /\ Fits(s) /\ s \notin Holding /\ s # "answered"
  BY DEF TaskState, Fits, Holding
<1> QED
  BY <1>1, <1>2, <1>3, TaskMoves

\* A task takes the lock, which is free.
LEMMA TaskTakes ==
  ASSUME AuthInv, UNCHANGED <<now, auth, disk, idp, header>>, NEW t \in Task, Free, tasks[t] # "answered",
         NEW s \in Holding, At(t, s), s # "answered", Fits(s), Take(t)
  PROVE  AuthInv'
<1>1. /\ lock' \in [writer : Task \cup {Nobody}, readers : SUBSET Task] /\ lock'.writer = t
      /\ header' \in [Task -> Header]
  BY DEF Take, AuthInv, TypeOK
<1>2. \A u \in Task : tasks[u] \notin Holding
  BY Exclusive DEF AuthInv
<1>3. s \in TaskState /\ s # "panicked"
  BY DEF TaskState, Holding
<1> QED
  BY <1>1, <1>2, <1>3, TaskMoves

\* Call and Return
LEMMA CallReturn ==
  ASSUME AuthInv, NEW t \in Task, Call(t) \/ Return(t)
  PROVE  AuthInv'
<1>1. UNCHANGED <<now, auth, disk, idp, lock>> /\ tasks[t] # "answered"
  BY DEF Call, Return, Outside
<1>2. lock' \in [writer : Task \cup {Nobody}, readers : SUBSET Task]
  BY <1>1 DEF AuthInv, TypeOK
<1>3. \A u \in Task : u # t /\ tasks[u] \in Holding => lock'.writer = u
  BY <1>1 DEF AuthInv, LockHeld
<1>4. header' \in [Task -> Header]
  BY HeaderType DEF Call, Return, AuthInv, TypeOK
<1>5. At(t, "waiting") \/ At(t, "idle")
  BY DEF Call, Return
<1>6. \A s \in {"waiting", "idle"} :
        s \in TaskState /\ Fits(s) /\ s \notin Holding /\ s # "answered" /\ s # "panicked"
  BY DEF TaskState, Fits, Holding
<1>7. CASE At(t, "waiting")
  BY <1>1, <1>2, <1>3, <1>4, <1>6, <1>7, TaskMoves
<1>8. CASE At(t, "idle")
  BY <1>1, <1>2, <1>3, <1>4, <1>6, <1>8, TaskMoves
<1> QED
  BY <1>5, <1>7, <1>8

\* The first look at the token, with the lock if there is one.  What is sent without the
\* lock being taken is checked under it.
LEMMA Checks ==
  ASSUME AuthInv, NEW t \in Task,
         AddAuthorization(t) \/ CheckExec(t) \/ cached_token(t) \/ GcpToken(t) \/ CheckOidc(t)
  PROVE  AuthInv'
<1>1. UNCHANGED <<now, auth, disk, idp>> /\ tasks[t] = "waiting"
  BY DEF AddAuthorization, CheckExec, cached_token, GcpToken, CheckOidc, Outside
<1>2. auth \in AuthValue
  BY DEF AuthInv, TypeOK
<1>3. CASE AddAuthorization(t) \/ GcpToken(t)
  <2>1. CASE Sent(t, NoHeader) /\ UNCHANGED lock
    <3>1. NoHeader \in Header
      BY HeaderType DEF NoHeader, Header
    <3> QED
      BY <1>1, <2>1, <3>1, TaskSends
  <2>2. CASE GcpToken(t) /\ At(t, "oauth") /\ Take(t) /\ UNCHANGED header
    <3>1. "oauth" \in Holding /\ Fits("oauth") /\ Free
      BY <2>2 DEF Holding, Fits, GcpToken
    <3> QED
      BY <1>1, <2>2, <3>1, TaskTakes
  <2> QED
    BY <1>3, <2>1, <2>2 DEF AddAuthorization, GcpToken
<1>4. CASE CheckExec(t)
  <2>1. auth.expires \in Nat /\ Free
    BY <1>2, <1>4, AuthForms DEF CheckExec, ExecAuth
  <2>2. CASE Sent(t, Expiring(auth.expires, FALSE)) /\ UNCHANGED lock
    <3>1. Expiring(auth.expires, FALSE) \in Header
      BY <2>1 DEF Expiring, Header
    <3> QED
      BY <1>1, <2>2, <3>1, TaskSends
  <2>3. CASE At(t, "refreshing") /\ Take(t) /\ UNCHANGED header
    <3>1. "refreshing" \in Holding /\ Fits("refreshing")
      BY <1>4 DEF Holding, Fits, CheckExec
    <3> QED
      BY <1>1, <2>1, <2>3, <3>1, TaskTakes
  <2> QED
    BY <1>4, <2>2, <2>3 DEF CheckExec
<1>5. CASE cached_token(t)
  <2>1. auth.token \in Nat /\ UNCHANGED lock
    BY <1>2, <1>5, AuthForms DEF cached_token, FileAuth
  <2>2. CASE Sent(t, FileToken(auth.token))
    <3>1. FileToken(auth.token) \in Header
      BY <2>1, AuthAssumption DEF FileToken, Header
    <3> QED
      BY <1>1, <2>1, <2>2, <3>1, TaskSends
  <2>3. CASE At(t, "writing") /\ UNCHANGED header
    <3>1. "writing" \in TaskState /\ Fits("writing") /\ "writing" \notin Holding
      BY <1>5 DEF TaskState, Holding, Fits, cached_token
    <3>2. /\ header' \in [Task -> Header]
          /\ lock' \in [writer : Task \cup {Nobody}, readers : SUBSET Task]
      BY <2>1, <2>3 DEF AuthInv, TypeOK
    <3>3. \A u \in Task : u # t /\ tasks[u] \in Holding => lock'.writer = u
      BY <2>1 DEF AuthInv, LockHeld
    <3> QED
      BY <1>1, <2>3, <3>1, <3>2, <3>3, TaskMoves
  <2> QED
    BY <1>5, <2>2, <2>3 DEF cached_token
<1>6. CASE CheckOidc(t)
  <2>1. auth.expires \in Nat /\ Free
    BY <1>2, <1>6, AuthForms DEF CheckOidc, OidcAuth
  <2>2. CASE Sent(t, Expiring(auth.expires, FALSE)) /\ UNCHANGED lock
    <3>1. Expiring(auth.expires, FALSE) \in Header
      BY <2>1 DEF Expiring, Header
    <3> QED
      BY <1>1, <2>2, <3>1, TaskSends
  <2>3. CASE Refuse(t)
    <3>1. header' \in [Task -> Header]
      BY <2>3 DEF Refuse, AuthInv, TypeOK
    <3> QED
      BY <1>1, <2>1, <2>3, <3>1, TaskReleases DEF Refuse
  <2>4. CASE /\ At(t, IF auth.endpoint THEN "asking" ELSE "endpoint")
             /\ Take(t) /\ UNCHANGED header
    <3>1. \A s \in {"asking", "endpoint"} : s \in Holding /\ Fits(s) /\ s # "answered"
      BY <1>6 DEF Holding, Fits, CheckOidc
    <3>2. At(t, "asking") \/ At(t, "endpoint")
      BY <2>4
    <3> QED
      BY <1>1, <2>1, <2>4, <3>1, <3>2, TaskTakes
  <2> QED
    BY <1>6, <2>2, <2>3, <2>4 DEF CheckOidc
<1> QED
  BY <1>3, <1>4, <1>5, <1>6
-----------------------------------------------------------------------------
(* Steps that renew the credentials                                        *)

\* The lock is released by the one who had it, and all invariants but those that concern
\* the credentials themselves hold.
LEMMA AfterRelease ==
  ASSUME AuthInv, NEW t \in Task, tasks[t] \in Holding, NEW s \in {"idle", "sent", "error"},
         At(t, s), Release, auth' \in AuthValue, auth'.type = auth.type, UNCHANGED disk,
         header' \in [Task -> Header], idp'.reply = Failed, now' = now,
         idp' \in [style : {"Header", "Params"}, refresh : Nat, reply : {Failed} \cup Granting, cut : BOOLEAN]
  PROVE  /\ TypeOK' /\ TasksFit' /\ LockHeld' /\ ReplyPending'
         /\ TokenSourceUnchanged => TokenSourceUnchanged'
<1> USE DEF AuthInv
<1>1. tasks' = [tasks EXCEPT ![t] = s] /\ tasks \in [Task -> TaskState]
  BY DEF At, TypeOK
<1>2. \A u \in Task : tasks'[u] = IF u = t THEN s ELSE tasks[u]
  BY <1>1
<1>3. \A u \in Task : tasks'[u] \notin Holding
  BY <1>2, Exclusive DEF Holding
<1>4. lock' \in [writer : Task \cup {Nobody}, readers : SUBSET Task]
  BY DEF Release, Unlocked
<1>5. s \in TaskState
  BY DEF TaskState
<1>6. TypeOK'
  BY <1>1, <1>4, <1>5 DEF TypeOK
<1>7. TasksFit'
  BY <1>2 DEF TasksFit
<1>8. LockHeld' /\ ReplyPending'
  BY <1>3 DEF LockHeld, ReplyPending, Holding
<1>9. TokenSourceUnchanged => TokenSourceUnchanged'
  BY <1>2 DEF TokenSourceUnchanged
<1> QED
  BY <1>6, <1>7, <1>8, <1>9

\* RefreshExec: the AuthInfo of the token is looked at again.
LEMMA RefreshExecInv ==
  ASSUME AuthInv, NEW t \in Task, RefreshExec(t)
  PROVE  AuthInv'
<1> USE DEF AuthInv
<1>1. /\ tasks[t] = "refreshing" /\ auth.type = "Exec" /\ UNCHANGED <<now, disk, idp>>
      /\ tasks[t] \in Holding
  BY DEF RefreshExec, TasksFit, Outside, Holding
<1>2. auth \in ExecAuth /\ auth.info \in Info /\ now \in Nat
  BY <1>1, AuthForms, AuthAssumption DEF TypeOK, ExecAuth
<1>3. PICK new \in try_from(auth.info) :
         \/ /\ new.type = "Exec"
            /\ auth' = new
            /\ Sent(t, Expiring(new.expires, TRUE)) /\ Release
         \/ Refuse(t) /\ UNCHANGED auth
         \/ /\ new.type \in {"File", "GcpOauth", "Oidc"}
            /\ At(t, "panicked") /\ Release /\ UNCHANGED <<auth, header>>
  BY DEF RefreshExec
<1>4. /\ new \in AuthValue
      /\ Renewable(auth.info) => new.type \notin {"File", "GcpOauth", "Oidc"}
      /\ Renewable(auth.info) /\ new.type = "Exec" => Renewable(new.info)
  BY <1>2, TryFrom DEF TypeOK
<1>5. CASE /\ new.type = "Exec" /\ auth' = new
           /\ Sent(t, Expiring(new.expires, TRUE)) /\ Release
  <2>1. new.expires \in Nat
    BY <1>4, <1>5, AuthForms DEF ExecAuth
  <2>2. Expiring(new.expires, TRUE) \in Header
    BY <2>1 DEF Expiring, Header
  <2>3. header' \in [Task -> Header]
    BY <1>5, <2>2 DEF Sent, TypeOK
  <2>4. tasks' = [tasks EXCEPT ![t] = "sent"]
    BY <1>5 DEF Sent, At
  <2>5. \A u \in Task : tasks'[u] \notin Holding /\ tasks'[u] \in {"sent", tasks[u]}
    BY <1>1, <2>4, Exclusive DEF TypeOK, Holding
  <2>6. TypeOK'
    BY <1>1, <1>4, <1>5, <2>3, <2>4 DEF TypeOK, Release, Unlocked, TaskState
  <2>7. TasksFit' /\ LockHeld' /\ ReplyPending'
    BY <1>1, <2>5 DEF TasksFit, LockHeld, ReplyPending, Holding
  <2>8. RefreshKnown' /\ FileKnown'
    BY <1>5 DEF RefreshKnown, FileKnown
  <2>9. ExecRenews'
    BY <1>1, <1>4, <1>5, <2>5 DEF ExecRenews, TokenSourceUnchanged
  <2> QED
    BY <2>6, <2>7, <2>8, <2>9
<1>6. CASE Refuse(t) /\ UNCHANGED auth
  <2>1. header' \in [Task -> Header]
    BY <1>6 DEF Refuse, TypeOK
  <2> QED
    BY <1>1, <1>6, <2>1, TaskReleases DEF Refuse
<1>7. CASE /\ new.type \in {"File", "GcpOauth", "Oidc"}
           /\ At(t, "panicked") /\ Release /\ UNCHANGED <<auth, header>>
  <2>1. GcpCacheOnly
    BY <1>1, <1>4, <1>7, AuthAssumption DEF ExecRenews
  <2>2. header' \in [Task -> Header]
    BY <1>7 DEF TypeOK
  <2> QED
    BY <1>1, <1>7, <2>1, <2>2, TaskReleases
<1> QED
  BY <1>3, <1>5, <1>6, <1>7

\* TokenFile::token under the write lock, after another look at the expiry
LEMMA TokenInv ==
  ASSUME AuthInv, NEW t \in Task, token(t)
  PROVE  AuthInv'
<1> USE DEF AuthInv
<1>1. /\ tasks[t] = "writing" /\ auth.type = "File" /\ UNCHANGED <<now, disk, idp, lock>>
      /\ auth' = IF is_expiring THEN Reload ELSE auth
      /\ Sent(t, FileToken(auth'.token))
  BY DEF token, TasksFit, Outside
<1>2. auth \in FileAuth /\ now \in Nat /\ FileLife \in Nat
  BY <1>1, AuthForms, AuthAssumption DEF TypeOK
<1>3. /\ Reload \in FileAuth /\ Reload.expires = now + FileLife
      /\ ~Reload.missed => Reload.token = disk.token
  <2>1. now + FileLife \in Nat /\ disk.token \in Nat /\ auth.token \in Nat /\ disk.present \in BOOLEAN
    BY <1>2 DEF FileAuth, TypeOK
  <2>3. CASE disk.present
    <3>1. Reload = [auth EXCEPT !.expires = now + FileLife, !.missed = FALSE, !.token = disk.token]
      <4>1. (~disk.present) = FALSE /\ (IF disk.present THEN disk.token ELSE auth.token) = disk.token
        BY <2>3
      <4> QED
        BY <4>1, Zenon DEF Reload
    <3> QED
      BY <1>2, <2>1, <3>1 DEF FileAuth
  <2>4. CASE ~disk.present
    <3>1. Reload = [auth EXCEPT !.expires = now + FileLife, !.missed = TRUE, !.token = auth.token]
      <4>1. (~disk.present) = TRUE /\ (IF disk.present THEN disk.token ELSE auth.token) = auth.token
        BY <2>4
      <4> QED
        BY <4>1, Zenon DEF Reload
    <3> QED
      BY <1>2, <2>1, <3>1 DEF FileAuth
  <2> QED
    BY <2>1, <2>3, <2>4
<1>4. auth' \in FileAuth /\ auth' \in AuthValue /\ auth'.type = "File"
  BY <1>1, <1>2, <1>3 DEF FileAuth, AuthValue
<1>5. FileKnown'
  BY <1>1, <1>2, <1>3 DEF FileKnown, FileAuth, TypeOK
<1>6. header' \in [Task -> Header]
  <2>1. auth'.token \in Nat
    BY <1>4 DEF FileAuth
  <2>2. FileToken(auth'.token) \in Header
    BY <2>1, AuthAssumption DEF FileToken, Header
  <2> QED
    BY <1>1, <2>2 DEF Sent, TypeOK
<1>7. tasks' = [tasks EXCEPT ![t] = "sent"]
  BY <1>1 DEF Sent, At
<1>8. \A u \in Task : tasks'[u] \in {"sent", tasks[u]}
  BY <1>7 DEF TypeOK
<1>9. TypeOK'
  BY <1>1, <1>4, <1>6, <1>7 DEF TypeOK, TaskState
<1>10. TasksFit' /\ LockHeld' /\ ReplyPending'
  BY <1>1, <1>4, <1>8 DEF TasksFit, LockHeld, ReplyPending, Holding
<1>11. RefreshKnown' /\ ExecRenews'
  BY <1>4, <1>8 DEF RefreshKnown, ExecRenews, TokenSourceUnchanged
<1> QED
  BY <1>5, <1>9, <1>10, <1>11

\* The answer of Google's OAuth, and of the provider's discovery document
LEMMA EndpointInv ==
  ASSUME AuthInv, NEW t \in Task, GcpResponse(t) \/ token_endpoint(t)
  PROVE  AuthInv'
<1> USE DEF AuthInv
<1>1. /\ tasks[t] \in {"oauth", "endpoint"} /\ tasks[t] \in Holding /\ tasks[t] # "answered"
      /\ UNCHANGED <<now, disk, idp>>
  BY DEF GcpResponse, token_endpoint, Outside, Holding
<1>2. CASE Refuse(t) /\ UNCHANGED auth
  <2>1. header' \in [Task -> Header]
    BY <1>2 DEF Refuse, TypeOK
  <2> QED
    BY <1>1, <1>2, <2>1, TaskReleases DEF Refuse
<1>3. CASE Sent(t, NoHeader) /\ Release /\ UNCHANGED auth
  <2>1. header' \in [Task -> Header]
    BY <1>3 DEF Sent, TypeOK, NoHeader, Header
  <2> QED
    BY <1>1, <1>3, <2>1, TaskReleases DEF Sent
<1>4. CASE /\ token_endpoint(t) /\ auth' = [auth EXCEPT !.endpoint = TRUE] /\ At(t, "asking")
           /\ UNCHANGED <<lock, header>>
  <2>1. tasks[t] = "endpoint" /\ auth.type = "Oidc"
    BY <1>4 DEF token_endpoint, TasksFit
  <2>2. auth \in OidcAuth
    BY <2>1, AuthForms DEF TypeOK
  <2>3. auth' \in OidcAuth /\ auth'.type = "Oidc" /\ auth'.refresh = auth.refresh
    BY <1>4, <2>2 DEF OidcAuth
  <2>4. tasks' = [tasks EXCEPT ![t] = "asking"]
    BY <1>4 DEF At
  <2>5. \A u \in Task : tasks'[u] = IF u = t THEN "asking" ELSE tasks[u]
    BY <2>4 DEF TypeOK
  <2>6. TypeOK'
    BY <1>1, <1>4, <2>3, <2>4 DEF TypeOK, TaskState, Holding, AuthValue
  <2>7. TasksFit' /\ LockHeld' /\ ReplyPending'
    BY <1>1, <1>4, <2>1, <2>3, <2>5 DEF TasksFit, LockHeld, ReplyPending, Holding
  <2>8. RefreshKnown' /\ FileKnown'
    BY <1>1, <2>1, <2>3, <2>5 DEF RefreshKnown, FileKnown
  <2>9. ExecRenews'
    BY <2>3, <2>5 DEF ExecRenews, TokenSourceUnchanged
  <2> QED
    BY <2>6, <2>7, <2>8, <2>9
<1> QED
  BY <1>2, <1>3, <1>4 DEF GcpResponse, token_endpoint

\* What the provider may answer, and what it honours then
LEMMA GrantedType ==
  ASSUME TypeOK, NEW new \in Granted
  PROVE  /\ new \in [style : {"Header", "Params"}, refresh : Nat, reply : Granting, cut : BOOLEAN]
         /\ new.reply.refresh = new.refresh /\ new.cut = idp.cut
<1>1. PICK r \in {idp.refresh, idp.refresh + 1} \cap (0..MaxRotations),
           i \in {{}} \cup {{e} : e \in Expiries} : new = Grant(r, i)
  BY DEF Granted
<1>2. now \in Nat
  BY AuthAssumption DEF TypeOK
<1>3. r \in Nat /\ i \in SUBSET Nat
  BY <1>2, ExpiriesType DEF TypeOK
<1>4. [type |-> "ok", refresh |-> r, id_token |-> i] \in Granting
  BY <1>3 DEF Granting
<1> QED
  BY <1>1, <1>3, <1>4 DEF TypeOK, Grant

\* The provider answers the request of the task that holds the lock.
LEMMA ProviderAnswersInv ==
  ASSUME AuthInv, NEW t \in Task, ProviderAnswers(t)
  PROVE  AuthInv'
<1> USE DEF AuthInv
<1>1. /\ tasks[t] \in {"asking", "asking again"} /\ tasks[t] \in Holding /\ tasks[t] # "answered"
      /\ auth.type = "Oidc" /\ UNCHANGED <<now, disk, auth>>
  BY DEF ProviderAnswers, TasksFit, Outside, Holding
<1>2. CASE idp' \in Granted /\ At(t, "answered") /\ UNCHANGED <<lock, header>>
  <2>1. /\ idp' \in [style : {"Header", "Params"}, refresh : Nat, reply : Granting, cut : BOOLEAN]
        /\ idp'.reply.refresh = idp'.refresh
    BY <1>2, GrantedType
  <2>2. tasks' = [tasks EXCEPT ![t] = "answered"]
    BY <1>2 DEF At
  <2>3. \A u \in Task : tasks'[u] = IF u = t THEN "answered" ELSE tasks[u]
    BY <2>2 DEF TypeOK
  <2>4. TypeOK'
    BY <1>1, <1>2, <2>1, <2>2 DEF TypeOK, TaskState, Holding
  <2>5. TasksFit' /\ LockHeld' /\ ReplyPending'
    BY <1>1, <1>2, <2>1, <2>3 DEF TasksFit, LockHeld, ReplyPending, Holding
  <2>6. RefreshKnown' /\ FileKnown'
    BY <1>1, <2>3 DEF RefreshKnown, FileKnown
  <2>7. ExecRenews'
    BY <1>1, <2>3 DEF ExecRenews, TokenSourceUnchanged
  <2> QED
    BY <2>4, <2>5, <2>6, <2>7
<1>3. CASE At(t, "asking again") /\ UNCHANGED <<lock, header, idp>>
  <2>1. "asking again" \in TaskState /\ Fits("asking again") /\ "asking again" \in Holding
    BY <1>1 DEF TaskState, Holding, Fits
  <2>2. /\ header' \in [Task -> Header]
        /\ lock' \in [writer : Task \cup {Nobody}, readers : SUBSET Task]
    BY <1>3 DEF TypeOK
  <2>3. lock'.writer = t /\ \A u \in Task : u # t /\ tasks[u] \in Holding => lock'.writer = u
    BY <1>1, <1>3 DEF LockHeld
  <2> QED
    BY <1>1, <1>3, <2>1, <2>2, <2>3, TaskMoves
<1>4. CASE Refuse(t) /\ UNCHANGED idp
  <2>1. header' \in [Task -> Header]
    BY <1>4 DEF Refuse, TypeOK
  <2> QED
    BY <1>1, <1>4, <2>1, TaskReleases DEF Refuse
<1> QED
  BY <1>2, <1>3, <1>4 DEF ProviderAnswers

\* The answer is read: its refresh token is the one the provider honours, and is stored
\* whether or not there is an id token.
LEMMA ReceiveTokenInv ==
  ASSUME AuthInv, NEW t \in Task, ReceiveToken(t)
  PROVE  AuthInv'
<1> USE DEF AuthInv
<1>1. /\ tasks[t] = "answered" /\ tasks[t] \in Holding /\ auth.type = "Oidc" /\ UNCHANGED <<now, disk>>
      /\ auth' = Stored(t, idp.reply) /\ idp' = [idp EXCEPT !.reply = Failed]
  BY DEF ReceiveToken, TasksFit, Outside, Holding
<1>2. idp.reply \in Granting /\ idp.reply.refresh = idp.refresh
  BY <1>1 DEF ReplyPending
<1>3. auth \in OidcAuth
  BY <1>1, AuthForms DEF TypeOK
<1>4. Style(t) \in {"unknown", "Header", "Params"}
  BY <1>3 DEF Style, OidcAuth
<1>5. (IF idp.reply.id_token = {} THEN auth.expires ELSE CHOOSE e \in idp.reply.id_token : TRUE) \in Nat
  <2>1. CASE idp.reply.id_token = {}
    BY <1>3, <2>1 DEF OidcAuth
  <2>2. CASE idp.reply.id_token # {}
    <3>1. (CHOOSE e \in idp.reply.id_token : TRUE) \in idp.reply.id_token
      BY <2>2
    <3> QED
      BY <1>2, <2>2, <3>1 DEF Granting
  <2> QED
    BY <2>1, <2>2
<1>6. auth' \in OidcAuth /\ auth'.type = "Oidc" /\ auth'.refresh = idp.refresh
  BY <1>1, <1>2, <1>3, <1>4, <1>5 DEF Stored, OidcAuth, Granting
<1>7. /\ idp' \in [style : {"Header", "Params"}, refresh : Nat, reply : {Failed} \cup Granting, cut : BOOLEAN]
      /\ idp'.reply = Failed /\ idp'.refresh = idp.refresh
  BY <1>1 DEF TypeOK
<1>8. PICK s \in {"sent", "error"} : At(t, s) /\ Release /\ header' \in [Task -> Header]
  <2>1. CASE Refuse(t)
    BY <2>1 DEF Refuse, TypeOK
  <2>2. CASE Sent(t, Expiring(auth'.expires, TRUE)) /\ Release
    <3>1. auth'.expires \in Nat
      BY <1>6 DEF OidcAuth
    <3>2. Expiring(auth'.expires, TRUE) \in Header
      BY <3>1 DEF Expiring, Header
    <3> QED
      BY <2>2, <3>2 DEF Sent, TypeOK
  <2> QED
    BY <2>1, <2>2 DEF ReceiveToken
<1>9. auth' \in AuthValue
  BY <1>6 DEF AuthValue
<1>10. /\ TypeOK' /\ TasksFit' /\ LockHeld' /\ ReplyPending'
       /\ TokenSourceUnchanged => TokenSourceUnchanged'
  BY <1>1, <1>6, <1>7, <1>8, <1>9, AfterRelease
<1>11. RefreshKnown' /\ FileKnown' /\ ExecRenews'
  BY <1>6, <1>7, <1>10 DEF RefreshKnown, FileKnown, ExecRenews
<1> QED
  BY <1>10, <1>11

\* A request that is dropped or cut off: only that of the task which holds the lock can
\* have had an effect at the provider, and that is noted.
LEMMA CutInv ==
  ASSUME AuthInv, NEW t \in Task, NEW s \in {"idle", "error"}, Cut(t, s)
  PROVE  AuthInv'
<1> USE DEF AuthInv
<1>1. /\ At(t, s) /\ UNCHANGED <<now, disk, auth, header>>
      /\ lock' = IF lock.writer = t THEN Unlocked ELSE [lock EXCEPT !.readers = @ \ {t}]
  BY DEF Cut, Outside
<1>2. CASE tasks[t] # "answered" /\ UNCHANGED idp
  <2>1. s \in TaskState /\ Fits(s) /\ s \notin Holding /\ s # "answered" /\ s # "panicked"
    BY DEF TaskState, Holding, Fits
  <2>2. /\ header' \in [Task -> Header]
        /\ lock' \in [writer : Task \cup {Nobody}, readers : SUBSET Task]
    BY <1>1 DEF TypeOK, Unlocked
  <2>3. \A u \in Task : u # t /\ tasks[u] \in Holding => lock'.writer = u
    BY <1>1 DEF LockHeld, TypeOK
  <2> QED
    BY <1>1, <1>2, <2>1, <2>2, <2>3, TaskMoves
<1>3. CASE /\ tasks[t] \in {"asking", "asking again", "answered"}
           /\ \E new \in {idp} \cup Granted : idp' = [new EXCEPT !.reply = Failed, !.cut = TRUE]
  <2>1. tasks[t] \in Holding /\ lock.writer = t /\ Release
    BY <1>1, <1>3 DEF LockHeld, Holding, Release
  <2>2. PICK new \in {idp} \cup Granted : idp' = [new EXCEPT !.reply = Failed, !.cut = TRUE]
    BY <1>3
  <2>3. new \in [style : {"Header", "Params"}, refresh : Nat, reply : {Failed} \cup Granting, cut : BOOLEAN]
    <3>1. CASE new = idp
      BY <3>1 DEF TypeOK
    <3>2. CASE new \in Granted
      BY <3>2, GrantedType
    <3> QED
      BY <3>1, <3>2
  <2>4. /\ idp' \in [style : {"Header", "Params"}, refresh : Nat, reply : {Failed} \cup Granting, cut : BOOLEAN]
        /\ idp'.reply = Failed /\ idp'.cut
    BY <2>2, <2>3
  <2>5. auth' \in AuthValue /\ auth'.type = auth.type /\ header' \in [Task -> Header]
    BY <1>1 DEF TypeOK
  <2>6. s \in {"idle", "sent", "error"}
    OBVIOUS
  <2>7. /\ TypeOK' /\ TasksFit' /\ LockHeld' /\ ReplyPending'
        /\ TokenSourceUnchanged => TokenSourceUnchanged'
    BY <1>1, <2>1, <2>4, <2>5, <2>6, AfterRelease
  <2>8. RefreshKnown' /\ FileKnown' /\ ExecRenews'
    BY <1>1, <2>4, <2>7 DEF RefreshKnown, FileKnown, ExecRenews
  <2> QED
    BY <2>7, <2>8
<1> QED
  BY <1>2, <1>3 DEF Cut

-----------------------------------------------------------------------------
(* The clock, the token file, and the building of the client               *)

\* Time passes, or the token file is replaced or removed.
LEMMA OutsideInv ==
  ASSUME AuthInv, Tick \/ Rotate
  PROVE  AuthInv'
<1> USE DEF AuthInv
<1>1. UNCHANGED <<auth, lock, tasks, header, idp>>
  BY DEF Tick, Rotate
<1>2. now \in Nat /\ now' \in 0..MaxTime /\ now <= now'
  BY AuthAssumption DEF Tick, Rotate, TypeOK
<1>3. /\ disk' \in [token : Nat, present : BOOLEAN, written : Nat]
      /\ (disk'.token = disk.token /\ disk'.written = disk.written) \/ disk'.written = now
  <2>1. CASE Tick
    BY <2>1 DEF Tick, TypeOK
  <2>2. CASE disk' = [token |-> disk.token + 1, present |-> TRUE, written |-> now]
    BY <1>2, <2>2 DEF TypeOK
  <2>3. CASE disk' = [disk EXCEPT !.present = FALSE]
    BY <2>3 DEF TypeOK
  <2> QED
    BY <2>1, <2>2, <2>3 DEF Rotate
<1>4. TypeOK' /\ TasksFit' /\ LockHeld' /\ ReplyPending' /\ RefreshKnown' /\ ExecRenews'
  BY <1>1, <1>2, <1>3 DEF TypeOK, TasksFit, LockHeld, ReplyPending, RefreshKnown, ExecRenews, TokenSourceUnchanged
<1>5. FileKnown'
  <2> SUFFICES ASSUME auth.type = "File"
               PROVE  /\ auth.expires <= now' + FileLife
                      /\ ~auth.missed => \/ auth.token = disk'.token
                                         \/ auth.expires <= disk'.written + FileLife
    BY <1>1 DEF FileKnown
  <2>1. auth.expires \in Nat /\ FileLife \in Nat /\ disk.written \in Nat
    BY AuthForms, AuthAssumption DEF TypeOK, FileAuth
  <2> QED
    BY <1>2, <1>3, <2>1 DEF FileKnown
<1> QED
  BY <1>4, <1>5

\* Nothing has happened to the credentials before the client is built.
LEMMA InitAuthInv == AuthInit => AuthInv
<1> SUFFICES ASSUME AuthInit PROVE AuthInv
  OBVIOUS
<1> USE DEF AuthInit
<1>1. TypeOK
  BY AuthAssumption DEF TypeOK, AuthValue, Kinds, Type, Unlocked, TaskState, NoHeader, Header, Failed
<1>2. TasksFit /\ LockHeld /\ ReplyPending /\ RefreshKnown /\ FileKnown /\ ExecRenews
  BY DEF TasksFit, LockHeld, ReplyPending, RefreshKnown, FileKnown, ExecRenews, TokenSourceUnchanged, Type, Holding
<1> QED
  BY <1>1, <1>2 DEF AuthInv

\* BuildClient: the credentials are those that an AuthInfo gives.
LEMMA BuildInv ==
  ASSUME AuthInit, BuildClient
  PROVE  AuthInv'
<1>1. PICK info \in AuthInfos \cup {FileInfo} : \E a \in try_from(info) : auth' = a
  BY DEF BuildClient, LoadedInfos, Build
<1>2. info \in Info /\ (~GcpCacheOnly => Regular(info))
  BY <1>1, InfosType
<1>3. AuthInv
  BY InitAuthInv
<1>4. now = 0 /\ disk = [token |-> 1, present |-> TRUE, written |-> 0] /\ idp.refresh = 0
  BY DEF AuthInit
<1>5. /\ auth' \in AuthValue
      /\ Regular(info) /\ auth'.type = "Exec" => Renewable(auth'.info)
      /\ auth'.type = "Oidc" => auth'.refresh = 0
      /\ auth'.type = "File" => auth' = TokenFile
  BY <1>1, <1>2, <1>4, TryFrom
<1>6. UNCHANGED <<now, lock, tasks, header, disk>>
  BY DEF BuildClient, Build
<1>7. PICK s \in {"Header", "Params"} : idp' = [idp EXCEPT !.style = s]
  BY DEF BuildClient, Build
<1>8. \A t \in Task : tasks'[t] = "idle"
  BY <1>6 DEF AuthInit
<1>9. TypeOK'
  BY <1>3, <1>5, <1>6, <1>7 DEF AuthInv, TypeOK
<1>10. TasksFit' /\ LockHeld' /\ ReplyPending'
  BY <1>8 DEF TasksFit, LockHeld, ReplyPending, Holding
<1>11. RefreshKnown'
  BY <1>3, <1>4, <1>5, <1>7 DEF RefreshKnown, AuthInv, TypeOK
<1>12. FileKnown'
  <2> SUFFICES ASSUME auth'.type = "File"
               PROVE  auth'.expires <= now' + FileLife /\ auth'.token = disk'.token
    BY DEF FileKnown
  <2>1. auth'.expires = now + FileLife /\ auth'.token = disk.token
    BY <1>5 DEF TokenFile
  <2> QED
    BY <1>4, <1>6, <2>1, AuthAssumption
<1>13. ExecRenews'
  BY <1>2, <1>5, <1>8 DEF ExecRenews, TokenSourceUnchanged
<1> QED
  BY <1>9, <1>10, <1>11, <1>12, <1>13 DEF AuthInv
-----------------------------------------------------------------------------
(* The theorems                                                            *)

\* Loading a configuration comes before building the client, and touches no credentials.
LEMMA LoadsBefore == LoadConfig => phase \in {"reading", "rooting", "failed"}
  BY DEF LoadConfig, ReadFile, load, LoadFails, ReadFails, RootLoads, RootFails, incluster

\* Every step keeps the invariant.
LEMMA NextIInv == IInv /\ [Next]_vars => IInv'
<1> SUFFICES ASSUME IInv, [Next]_vars PROVE IInv'
  OBVIOUS
<1> USE DEF IInv
<1>1. ASSUME UNCHANGED authVars PROVE AuthInv' /\ (AuthInit => AuthInit')
  <2>1. AuthInv'
    BY <1>1 DEF authVars, AuthInv, TypeOK, TasksFit, LockHeld, ReplyPending, RefreshKnown, FileKnown,
                ExecRenews, TokenSourceUnchanged
  <2>2. AuthInit => AuthInit'
    BY <1>1 DEF authVars, AuthInit
  <2> QED
    BY <2>1, <2>2
<1>2. CASE LoadConfig /\ UNCHANGED authVars
  BY <1>1, <1>2, LoadsBefore DEF Unbuilt
<1>3. CASE TakeConfig
  BY <1>1, <1>3 DEF TakeConfig, Unbuilt
<1>4. CASE BuildClient
  <2>1. AuthInit /\ phase' \in {"refused", "built"}
    BY <1>4 DEF BuildClient, Unbuilt
  <2> QED
    BY <1>4, <2>1, BuildInv DEF Unbuilt
<1>5. CASE phase = "built" /\ UseAuth /\ UNCHANGED <<phase, configVars>>
  <2>1. Unbuilt'
    BY <1>5 DEF Unbuilt
  <2>2. ASSUME NEW t \in Task, Call(t) \/ Acquire(t) \/ Proceed(t) \/ Disconnect(t) \/ Cancel(t) \/ Return(t)
        PROVE  AuthInv'
    <3>1. CASE Acquire(t)
      BY <3>1, Checks, TokenInv DEF Acquire
    <3>2. CASE Proceed(t)
      BY <3>2, RefreshExecInv, EndpointInv, ProviderAnswersInv, ReceiveTokenInv DEF Proceed
    <3>3. CASE Disconnect(t) \/ Cancel(t)
      BY <3>3, CutInv DEF Disconnect, Cancel
    <3> QED
      BY <2>2, <3>1, <3>2, <3>3, CallReturn
  <2> QED
    BY <1>5, <2>1, <2>2, OutsideInv DEF UseAuth
<1>6. CASE UNCHANGED vars
  <2>1. UNCHANGED authVars /\ UNCHANGED phase
    BY <1>6 DEF vars, authVars
  <2> QED
    BY <1>1, <2>1 DEF Unbuilt
<1> QED
  BY <1>2, <1>3, <1>4, <1>5, <1>6 DEF Next

\* The inductive invariant of the client's credentials: who refreshes has the lock, what
\* the provider honours is known or in an answer that will be read, and a token file that
\* differs from the token was written after the last reload.
THEOREM Invariant == Spec => []IInv
<1>1. Init => IInv
  BY InitAuthInv DEF Init, IInv, Unbuilt
<1> QED
  BY <1>1, NextIInv, PTL DEF Spec

\* Oidc::id_token: whatever tasks refresh at the same time, and even if an answer has no id
\* token, the client keeps the refresh token that the provider honours.
THEOREM RefreshTokenIsKept == Spec => []RefreshTokenKept
<1>1. IInv => RefreshTokenKept
  BY Exclusive DEF IInv, AuthInv, RefreshKnown, RefreshTokenKept, Holding
<1> QED
  BY <1>1, Invariant, PTL

\* to_header: the unreachable!() after a refresh is unreachable, except with a gcp provider
\* that has a cached token and no command.
THEOREM SourceIsStable ==
  ASSUME ~GcpCacheOnly
  PROVE  Spec => []TokenSourceUnchanged
<1>1. IInv => TokenSourceUnchanged
  BY DEF IInv, AuthInv, ExecRenews
<1> QED
  BY <1>1, Invariant, PTL

\* Only the task whose request is sent changes its state.
LEMMA SentBy ==
  ASSUME TypeOK, NEW t \in Task, NEW u \in Task, NEW s, At(t, s), Sends(u)
  PROVE  u = t /\ s = "sent"
  BY DEF TypeOK, At, Sends

\* What a request is sent with: a token that was just issued, or none; one that is valid
\* for a while; or the one from the file, which is reloaded when that is due.
LEMMA SendCases ==
  ASSUME IInv, Next, NEW u \in Task, Sends(u)
  PROVE  \/ header'[u].fresh /\ auth.type # "File"
         \/ /\ auth.type # "File" /\ auth.expires \in Nat /\ now < auth.expires
            /\ header'[u] = Expiring(auth.expires, FALSE)
         \/ /\ auth.type = "File" /\ header'[u] = FileToken(auth'.token)
            /\ (auth' = auth /\ ~is_expiring) \/ auth' = Reload
<1> USE DEF IInv, AuthInv
<1>1. now \in Nat /\ header \in [Task -> Header] /\ auth \in AuthValue /\ TypeOK
      /\ ExecMargin \in Nat /\ OidcMargin \in Nat
  BY AuthAssumption DEF TypeOK
<1>2. \A h : Sent(u, h) => header'[u] = h
  BY <1>1 DEF Sent
<1>3. ~UNCHANGED tasks
  BY DEF Sends
<1>4. ASSUME NEW t \in Task, Call(t) \/ Acquire(t) \/ Proceed(t) \/ Disconnect(t) \/ Cancel(t) \/ Return(t)
      PROVE  t = u
  <2>1. \E s : At(t, s)
    BY <1>4 DEF Call, Acquire, AddAuthorization, CheckExec, cached_token, token, GcpToken, CheckOidc,
                Proceed, RefreshExec, GcpResponse, token_endpoint, ProviderAnswers, ReceiveToken,
                Disconnect, Cancel, Cut, Return, Sent, Refuse
  <2> QED
    BY <1>1, <2>1, SentBy
<1>5. Acquire(u) \/ Proceed(u)
  <2>1. ~(Call(u) \/ Disconnect(u) \/ Cancel(u) \/ Return(u))
    <3>1. ~(\E s \in {"waiting", "idle", "error"} : At(u, s))
      BY <1>1, SentBy
    <3> QED
      BY <3>1 DEF Call, Disconnect, Cancel, Cut, Return
  <2>2. UseAuth
    BY <1>3 DEF Next, authVars, TakeConfig, BuildClient, Build
  <2> QED
    BY <1>3, <1>4, <2>1, <2>2 DEF UseAuth, Tick, Rotate
<1>6. ~At(u, "error") /\ ~Refuse(u) /\ \A s \in TaskState : s # "sent" => ~At(u, s)
  BY <1>1, SentBy DEF Refuse
<1>7. NoHeader.fresh /\ \A e : Expiring(e, TRUE).fresh
  BY DEF NoHeader, Expiring
<1>8. CASE AddAuthorization(u)
  BY <1>2, <1>7, <1>8 DEF AddAuthorization
<1>9. CASE GcpToken(u)
  BY <1>2, <1>6, <1>7, <1>9 DEF GcpToken, TaskState, Holding
<1>10. CASE CheckExec(u)
  <2>1. auth.expires \in Nat /\ auth.type = "Exec"
    BY <1>1, <1>10, AuthForms DEF CheckExec, ExecAuth
  <2>2. ~ExecExpiring(auth.expires) /\ header'[u] = Expiring(auth.expires, FALSE)
    BY <1>2, <1>6, <1>10 DEF CheckExec, TaskState, Holding
  <2>3. now < auth.expires
    BY <1>1, <2>1, <2>2 DEF ExecExpiring
  <2> QED
    BY <2>1, <2>2, <2>3
<1>11. CASE CheckOidc(u)
  <2>1. auth.expires \in Nat /\ auth.type = "Oidc"
    BY <1>1, <1>11, AuthForms DEF CheckOidc, OidcAuth
  <2>2. token_valid /\ header'[u] = Expiring(auth.expires, FALSE)
    BY <1>2, <1>6, <1>11 DEF CheckOidc, TaskState, Holding
  <2>3. now < auth.expires
    BY <1>1, <2>1, <2>2 DEF token_valid
  <2> QED
    BY <2>1, <2>2, <2>3
<1>12. CASE cached_token(u)
  BY <1>2, <1>6, <1>12 DEF cached_token, TaskState
<1>13. CASE token(u)
  BY <1>2, <1>13 DEF token, TasksFit
<1>14. CASE RefreshExec(u)
  BY <1>2, <1>6, <1>7, <1>14 DEF RefreshExec, TasksFit, TaskState
<1>15. CASE GcpResponse(u)
  BY <1>2, <1>6, <1>7, <1>15 DEF GcpResponse, TasksFit
<1>16. CASE token_endpoint(u) \/ ProviderAnswers(u)
  BY <1>6, <1>16 DEF token_endpoint, ProviderAnswers, TaskState, Holding
<1>17. CASE ReceiveToken(u)
  BY <1>2, <1>6, <1>7, <1>17 DEF ReceiveToken, TasksFit
<1> QED
  BY <1>5, <1>8, <1>9, <1>10, <1>11, <1>12, <1>13, <1>14, <1>15, <1>16, <1>17 DEF Acquire, Proceed

\* to_header and TokenFile: a token that the client already had is sent only while it is
\* valid, and another token than the one in the file only for so long after the file was
\* replaced, however the tasks interleave.
THEOREM TokensStayFresh == Spec => TokensAreFresh
<1>1. ASSUME IInv, [Next]_vars, NEW t \in Task, Sends(t), ~header'[t].fresh
      PROVE  now < header'[t].expires
  <2>1. Next
    BY <1>1 DEF vars, Sends
  <2>2. CASE header'[t] = Expiring(auth.expires, FALSE) /\ now < auth.expires
    BY <2>2 DEF Expiring
  <2>3. CASE header'[t] = FileToken(auth'.token)
    <3>1. now \in Nat /\ now < MaxTime + 1
      BY <1>1, AuthAssumption DEF IInv, AuthInv, TypeOK
    <3> QED
      BY <2>3, <3>1 DEF FileToken
  <2> QED
    BY <1>1, <2>1, <2>2, <2>3, SendCases
<1>2. ASSUME IInv, [Next]_vars, NEW t \in Task, Sends(t), auth.type = "File", disk.present, ~auth'.missed
      PROVE  header'[t].token = disk.token \/ now - disk.written <= FileLife - FileMargin
  <2>1. Next
    BY <1>2 DEF vars, Sends
  <2>2. auth \in FileAuth /\ now \in Nat /\ disk.written \in Nat /\ FileLife \in Nat /\ FileMargin \in Nat
    BY <1>2, AuthForms, AuthAssumption DEF IInv, AuthInv, TypeOK
  <2>3. header'[t] = FileToken(auth'.token) /\ ((auth' = auth /\ ~is_expiring) \/ auth' = Reload)
    BY <1>2, <2>1, SendCases
  <2>4. header'[t].token = auth'.token
    BY <2>3 DEF FileToken
  <2>5. CASE auth' = auth /\ ~is_expiring
    <3>1. auth.token = disk.token \/ auth.expires <= disk.written + FileLife
      BY <1>2, <2>5 DEF IInv, AuthInv, FileKnown
    <3>2. now + FileMargin <= auth.expires /\ auth.expires \in Nat
      BY <2>2, <2>5 DEF is_expiring, FileAuth
    <3> QED
      BY <2>2, <2>4, <2>5, <3>1, <3>2
  <2>6. CASE auth' = Reload
    <3>1. Reload.token = disk.token
      BY <1>2, <2>2 DEF Reload, FileAuth
    <3> QED
      BY <2>4, <2>6, <3>1
  <2> QED
    BY <2>3, <2>5, <2>6
<1>3. Spec => NoExpiredToken
  <2>1. IInv /\ [Next]_vars => [\A t \in Task : Sends(t) /\ ~header'[t].fresh => now < header'[t].expires]_vars
    <3> SUFFICES ASSUME IInv, [Next]_vars, NEW t \in Task, Sends(t), ~header'[t].fresh
                 PROVE  now < header'[t].expires
      OBVIOUS
    <3> QED
      BY <1>1
  <2> QED
    BY <2>1, Invariant, PTL DEF Spec, NoExpiredToken
<1>4. Spec => FileTokenIsFresh
  <2>1. IInv /\ [Next]_vars =>
          [\A t \in Task : Sends(t) /\ auth.type = "File" /\ disk.present /\ ~auth'.missed
             => header'[t].token = disk.token \/ now - disk.written <= FileLife - FileMargin]_vars
    <3> SUFFICES ASSUME IInv, [Next]_vars, NEW t \in Task, Sends(t), auth.type = "File", disk.present,
                        ~auth'.missed
                 PROVE  header'[t].token = disk.token \/ now - disk.written <= FileLife - FileMargin
      OBVIOUS
    <3> QED
      BY <1>2
  <2> QED
    BY <2>1, Invariant, PTL DEF Spec, FileTokenIsFresh
<1> QED
  BY <1>3, <1>4 DEF TokensAreFresh
-----------------------------------------------------------------------------
(* The merge of the files: the first one that has a name wins              *)

\* The lists of entries of the files read so far, with their paths resolved
Clusters(ds) == [i \in 1..Len(ds) |-> read_from(File[i], ds[i]).clusters]
Users(ds) == [i \in 1..Len(ds) |-> read_from(File[i], ds[i]).auth_infos]
Contexts(ds) == [i \in 1..Len(ds) |-> ds[i].contexts]
Currents(ds) == [i \in 1..Len(ds) |-> ds[i].current_context]

\* The merged list has the names of all n lists, and of each the entry of the first that
\* has it.
FirstOf(merged, lists, n) ==
    /\ DOMAIN merged = UNION {DOMAIN lists[i] : i \in 1..n}
    /\ \A name \in DOMAIN merged : \E i \in 1..n :
         /\ name \in DOMAIN lists[i] /\ \A j \in 1..(i - 1) : name \notin DOMAIN lists[j]
         /\ merged[name] = lists[i][name]

\* The merged value is the first that is set.
FirstSet(merged, values, n) ==
    IF \A i \in 1..n : values[i] = None THEN merged = None
    ELSE \E i \in 1..n : /\ values[i] # None /\ \A j \in 1..(i - 1) : values[j] = None
                         /\ merged = values[i]

\* What a document may hold, entry by entry
DocumentOf(f, doc) ==
    /\ doc = [kind |-> doc.kind, clusters |-> doc.clusters, auth_infos |-> doc.auth_infos,
              contexts |-> doc.contexts, current_context |-> doc.current_context]
    /\ doc.current_context \in {None, Some(Context)}
    /\ doc.clusters \in Named(Cluster, ClusterBody(f))
    /\ doc.contexts \in Named(Context, ContextBody(f))
    /\ DOMAIN doc.auth_infos \subseteq UserName
    /\ \A u \in DOMAIN doc.auth_infos : doc.auth_infos[u] = Some(AuthInfoBody(f))

\* k is the merge of the documents ds.
Merged(ds, k) ==
    /\ ds \in Seq(UNION {Documents(File[i]) : i \in 1..Len(File)})
    /\ Len(ds) <= MaxFiles
    /\ \A i \in 1..Len(ds) : DocumentOf(File[i], ds[i])
    /\ FirstOf(k.clusters, Clusters(ds), Len(ds))
    /\ FirstOf(k.auth_infos, Users(ds), Len(ds))
    /\ FirstOf(k.contexts, Contexts(ds), Len(ds))
    /\ FirstSet(k.current_context, Currents(ds), Len(ds))

\* Documents has the documents of DocumentOf.
LEMMA DocumentForm ==
  ASSUME NEW f, NEW doc \in Documents(f)
  PROVE  DocumentOf(f, doc)
  BY DEF Documents, DocumentOf

\* append_new_named: the entries whose names are new come from the next list, those whose
\* names are known stay.
LEMMA AppendsFirst ==
  ASSUME NEW n \in Nat, NEW merged, NEW lists, NEW longer, FirstOf(merged, lists, n),
         \A i \in 1..n : longer[i] = lists[i]
  PROVE  FirstOf(append_new_named(merged, longer[n + 1]), longer, n + 1)
<1> DEFINE next == longer[n + 1]
           all == append_new_named(merged, next)
<1>1. 1..(n + 1) = 1..n \cup {n + 1} /\ 1..((n + 1) - 1) = 1..n
  OBVIOUS
<1>2. DOMAIN all = DOMAIN merged \cup DOMAIN next /\ DOMAIN merged = UNION {DOMAIN longer[i] : i \in 1..n}
  BY DEF append_new_named, FirstOf
<1>3. DOMAIN all = UNION {DOMAIN longer[i] : i \in 1..(n + 1)}
  BY <1>1, <1>2
<1>4. ASSUME NEW name \in DOMAIN all
      PROVE  \E i \in 1..(n + 1) :
               /\ name \in DOMAIN longer[i] /\ \A j \in 1..(i - 1) : name \notin DOMAIN longer[j]
               /\ all[name] = longer[i][name]
  <2>1. CASE name \in DOMAIN merged
    <3>1. PICK i \in 1..n : /\ name \in DOMAIN lists[i] /\ \A j \in 1..(i - 1) : name \notin DOMAIN lists[j]
                            /\ merged[name] = lists[i][name]
      BY <2>1 DEF FirstOf
    <3>2. \A j \in 1..(i - 1) : j \in 1..n
      OBVIOUS
    <3>3. all[name] = merged[name]
      BY <2>1 DEF append_new_named
    <3> QED
      BY <1>1, <3>1, <3>2, <3>3
  <2>2. CASE name \notin DOMAIN merged
    <3>1. all[name] = next[name] /\ name \in DOMAIN next
      BY <1>2, <1>4, <2>2 DEF append_new_named
    <3>2. \A j \in 1..n : name \notin DOMAIN longer[j]
      BY <1>2, <2>2
    <3> QED
      BY <1>1, <3>1, <3>2
  <2> QED
    BY <2>1, <2>2
<1> QED
  BY <1>3, <1>4 DEF FirstOf

\* Option::or: the first that is set stays.
LEMMA SetsFirst ==
  ASSUME NEW n \in Nat, NEW merged, NEW values, NEW longer, FirstSet(merged, values, n),
         \A i \in 1..n : longer[i] = values[i]
  PROVE  FirstSet(Or(merged, longer[n + 1]), longer, n + 1)
<1>1. 1..(n + 1) = 1..n \cup {n + 1} /\ 1..((n + 1) - 1) = 1..n
  OBVIOUS
<1>2. CASE \A i \in 1..n : values[i] = None
  BY <1>1, <1>2 DEF FirstSet, Or
<1>3. CASE \E i \in 1..n : values[i] # None
  <2>1. PICK i \in 1..n : /\ values[i] # None /\ \A j \in 1..(i - 1) : values[j] = None
                          /\ merged = values[i]
    BY <1>3 DEF FirstSet
  <2>2. \A j \in 1..(i - 1) : j \in 1..n
    OBVIOUS
  <2> QED
    BY <1>1, <2>1, <2>2 DEF FirstSet, Or
<1> QED
  BY <1>2, <1>3

\* Nothing was read: the merge is empty.
LEMMA EmptyMerge == Merged(<< >>, Kubeconfig)
<1> DEFINE none == << >>
<1>1. Len(none) = 0 /\ none \in Seq(UNION {Documents(File[i]) : i \in 1..Len(File)}) /\ 1..0 = {}
  OBVIOUS
<1>2. 0 <= MaxFiles
  BY ConfigAssumption DEF File
<1>3. /\ DOMAIN Kubeconfig.clusters = {} /\ DOMAIN Kubeconfig.auth_infos = {}
      /\ DOMAIN Kubeconfig.contexts = {} /\ Kubeconfig.current_context = None
  BY DEF Kubeconfig
<1> QED
  BY <1>1, <1>2, <1>3 DEF Merged, FirstOf, FirstSet

\* from_env: another file is read and merged behind the ones before it.
LEMMA ReadMerges ==
  ASSUME NEW ds, NEW k, Merged(ds, k), Len(ds) < MaxFiles,
         NEW doc \in Documents(File[Len(ds) + 1])
  PROVE  Merged(Append(ds, doc), merge(k, read_from(File[Len(ds) + 1], doc)))
<1> DEFINE n == Len(ds)
           next == read_from(File[n + 1], doc)
           ds2 == Append(ds, doc)
           k2 == merge(k, next)
<1>1. n \in Nat /\ n + 1 \in 1..Len(File) /\ n + 1 <= MaxFiles
  <2>1. Len(File) = 3
    BY DEF File
  <2>2. n \in Nat
    BY DEF Merged
  <2> QED
    BY <2>1, <2>2, ConfigAssumption
<1>2. /\ ds2 \in Seq(UNION {Documents(File[i]) : i \in 1..Len(File)}) /\ Len(ds2) = n + 1
      /\ ds2[n + 1] = doc /\ \A i \in 1..n : ds2[i] = ds[i]
  BY <1>1 DEF Merged
<1>3. 1..(n + 1) = 1..n \cup {n + 1}
  BY <1>1
<1>4. DocumentOf(File[n + 1], doc)
  BY DocumentForm
<1>5. \A i \in 1..Len(ds2) : DocumentOf(File[i], ds2[i])
  BY <1>2, <1>3, <1>4 DEF Merged
<1>6. /\ next.clusters = Clusters(ds2)[n + 1] /\ next.auth_infos = Users(ds2)[n + 1]
      /\ next.contexts = Contexts(ds2)[n + 1] /\ next.current_context = Currents(ds2)[n + 1]
  <2>1. next.contexts = doc.contexts /\ next.current_context = doc.current_context
    BY <1>4 DEF read_from, DocumentOf
  <2>2. n + 1 \in 1..Len(ds2)
    BY <1>2, <1>3
  <2> QED
    BY <1>2, <2>1, <2>2 DEF Clusters, Users, Contexts, Currents
<1>7. \A i \in 1..n : /\ Clusters(ds2)[i] = Clusters(ds)[i] /\ Users(ds2)[i] = Users(ds)[i]
                      /\ Contexts(ds2)[i] = Contexts(ds)[i] /\ Currents(ds2)[i] = Currents(ds)[i]
  BY <1>2, <1>3 DEF Clusters, Users, Contexts, Currents
<1>8. /\ k2.clusters = append_new_named(k.clusters, next.clusters)
      /\ k2.auth_infos = append_new_named(k.auth_infos, next.auth_infos)
      /\ k2.contexts = append_new_named(k.contexts, next.contexts)
      /\ k2.current_context = Or(k.current_context, next.current_context)
  BY DEF merge
<1>9. /\ FirstOf(k.clusters, Clusters(ds), n) /\ FirstOf(k.auth_infos, Users(ds), n)
      /\ FirstOf(k.contexts, Contexts(ds), n) /\ FirstSet(k.current_context, Currents(ds), n)
  BY DEF Merged
<1> HIDE DEF next, n, ds2, k2
<1>10. FirstOf(k2.clusters, Clusters(ds2), n + 1)
  BY <1>1, <1>6, <1>7, <1>8, <1>9, AppendsFirst
<1>11. FirstOf(k2.auth_infos, Users(ds2), n + 1)
  BY <1>1, <1>6, <1>7, <1>8, <1>9, AppendsFirst
<1>12. FirstOf(k2.contexts, Contexts(ds2), n + 1)
  BY <1>1, <1>6, <1>7, <1>8, <1>9, AppendsFirst
<1>13. FirstSet(k2.current_context, Currents(ds2), n + 1)
  BY <1>1, <1>6, <1>7, <1>8, <1>9, SetsFirst
<1>14. Merged(ds2, k2)
  BY <1>1, <1>2, <1>5, <1>10, <1>11, <1>12, <1>13 DEF Merged
<1> QED
  BY <1>14 DEF ds2, k2, next, n

-----------------------------------------------------------------------------
(* The configuration                                                       *)

\* What was loaded is of the context, the cluster and the user selected in the merged file.
LoadedInv ==
    phase = "rooting" \/ (phase = "loaded" /\ config.source # "pod") =>
      /\ options \in Options
      /\ \E context \in SelectedContext(options), user \in SelectedUser(options),
            cluster \in SelectedCluster(options) :
           \E url \in {cluster.server, Some("KUBE_RS_DEBUG_OVERRIDE_URL")} :
             config = [source |-> "kubeconfig", cluster_url |-> url, root_cert |-> CaSource(cluster),
                       auth_info |-> user, namespace |-> Or(context.namespace, Some("default"))]

ConfigInv == Merged(docs, kubeconfig) /\ LoadedInv

\* An error drops what was read.
LEMMA FailInv == ASSUME NEW o, Fail(o) PROVE ConfigInv'
<1>1. Merged(docs', kubeconfig')
  BY EmptyMerge DEF Fail
<1>2. phase' \notin {"rooting", "loaded"}
  BY DEF Fail
<1> QED
  BY <1>1, <1>2 DEF ConfigInv, LoadedInv

\* Every step of Config::infer keeps the merge and what was loaded of it.
LEMMA LoadConfigInv == ConfigInv /\ LoadConfig => ConfigInv'
<1> SUFFICES ASSUME ConfigInv, LoadConfig PROVE ConfigInv'
  OBVIOUS
<1>1. ASSUME Len(docs) < MaxFiles, NEW doc \in Documents(File[Len(docs) + 1]), ReadFile(doc)
      PROVE  ConfigInv'
  <2>1. CASE Fail(NoOptions)
    BY <2>1, FailInv
  <2>2. CASE /\ docs' = Append(docs, doc) /\ kubeconfig' = merge(kubeconfig, read_from(File[Len(docs) + 1], doc))
             /\ phase = "reading" /\ UNCHANGED <<phase, options, config>>
    <3>1. Merged(docs', kubeconfig')
      BY <1>1, <2>2, ReadMerges DEF ConfigInv
    <3> QED
      BY <2>2, <3>1 DEF ConfigInv, LoadedInv
  <2> QED
    BY <1>1, <2>1, <2>2 DEF ReadFile
<1>2. ASSUME NEW o \in Options, load(o) PROVE ConfigInv'
  <2>1. PICK context \in SelectedContext(o), user \in SelectedUser(o), cluster \in SelectedCluster(o) :
          config' = [source |-> "kubeconfig", cluster_url |-> cluster.server, root_cert |-> CaSource(cluster),
                     auth_info |-> user, namespace |-> Or(context.namespace, Some("default"))]
    BY <1>2 DEF load
  <2>2. UNCHANGED <<docs, kubeconfig>> /\ options' = o
    BY <1>2 DEF load
  <2>3. /\ context \in SelectedContext(options)' /\ user \in SelectedUser(options)'
        /\ cluster \in SelectedCluster(options)'
    BY <2>1, <2>2 DEF SelectedContext, SelectedUser, SelectedCluster, ContextName
  <2> QED
    BY <2>1, <2>2, <2>3 DEF ConfigInv, LoadedInv
<1>3. ASSUME NEW o \in Options, LoadFails(o) PROVE ConfigInv'
  BY <1>3, FailInv DEF LoadFails
<1>4. CASE ReadFails \/ RootFails
  BY <1>4, FailInv DEF ReadFails, RootFails
<1>5. CASE RootLoads
  <2>1. UNCHANGED <<docs, kubeconfig, options>> /\ phase = "rooting" /\ phase' = "loaded"
    BY <1>5 DEF RootLoads
  <2>2. PICK context \in SelectedContext(options), user \in SelectedUser(options),
             cluster \in SelectedCluster(options) :
          \E url \in {cluster.server, Some("KUBE_RS_DEBUG_OVERRIDE_URL")} :
            config = [source |-> "kubeconfig", cluster_url |-> url, root_cert |-> CaSource(cluster),
                      auth_info |-> user, namespace |-> Or(context.namespace, Some("default"))]
    BY <2>1 DEF ConfigInv, LoadedInv
  <2>3. config' = config \/ config' = [config EXCEPT !.cluster_url = Some("KUBE_RS_DEBUG_OVERRIDE_URL")]
    BY <1>5 DEF RootLoads, Overridden
  <2>4. \E url \in {cluster.server, Some("KUBE_RS_DEBUG_OVERRIDE_URL")} :
          config' = [source |-> "kubeconfig", cluster_url |-> url, root_cert |-> CaSource(cluster),
                     auth_info |-> user, namespace |-> Or(context.namespace, Some("default"))]
    BY <2>2, <2>3
  <2>5. /\ context \in SelectedContext(options)' /\ user \in SelectedUser(options)'
        /\ cluster \in SelectedCluster(options)' /\ options' \in Options
    BY <2>1, <2>2 DEF SelectedContext, SelectedUser, SelectedCluster, ContextName, ConfigInv, LoadedInv
  <2> QED
    BY <2>1, <2>4, <2>5 DEF ConfigInv, LoadedInv
<1>6. CASE incluster
  <2>1. UNCHANGED <<docs, kubeconfig>>
    BY <1>6 DEF incluster
  <2>2. phase' = "refused" \/ (phase' = "loaded" /\ config'.source = "pod")
    BY <1>6 DEF incluster, Overridden, InCluster
  <2> QED
    BY <2>1, <2>2 DEF ConfigInv, LoadedInv
<1> QED
  BY <1>1, <1>2, <1>3, <1>4, <1>5, <1>6 DEF LoadConfig

\* The body of an entry of the merged file is that of the first file that has the name.
LEMMA FirstBody ==
  ASSUME NEW merged, NEW lists, NEW n \in Nat, FirstOf(merged, lists, n), NEW name,
         NEW body \in Body(merged, name)
  PROVE  \E i \in 1..n : /\ name \in DOMAIN lists[i] /\ \A j \in 1..(i - 1) : name \notin DOMAIN lists[j]
                         /\ body \in lists[i][name]
  BY DEF FirstOf, Body, None

\* The entries of a loaded configuration are those of the first file that has each.
LEMMA LoadedIsFirst == ConfigInv => FirstFileWins
<1> SUFFICES ASSUME ConfigInv, phase = "loaded", config.source # "pod"
             PROVE  FirstFileWins
  BY DEF FirstFileWins
<1> DEFINE n == Len(docs)
           name == Or(options.context, UNION {d.current_context : d \in FirstWith(LAMBDA d : d.current_context # None)})
           context == UNION {Body(d.contexts, Context) : d \in FirstWith(LAMBDA d : Context \in DOMAIN d.contexts)}
           cluster(m) == UNION {Body(d.clusters, m) : d \in FirstWith(LAMBDA d : m \in DOMAIN d.clusters)}
           user(u) == UNION {Body(d.auth_infos, u) : d \in FirstWith(LAMBDA d : u \in DOMAIN d.auth_infos)}
<1>1. PICK sc \in SelectedContext(options), su \in SelectedUser(options),
           cl \in SelectedCluster(options) :
        \E url \in {cl.server, Some("KUBE_RS_DEBUG_OVERRIDE_URL")} :
          config = [source |-> "kubeconfig", cluster_url |-> url, root_cert |-> CaSource(cl),
                    auth_info |-> su, namespace |-> Or(sc.namespace, Some("default"))]
  BY DEF ConfigInv, LoadedInv
<1>2. n \in Nat /\ DOMAIN docs = 1..n /\ \A i \in 1..n : DocumentOf(File[i], docs[i])
  BY DEF ConfigInv, Merged
<1>3. /\ FirstOf(kubeconfig.clusters, Clusters(docs), n) /\ FirstOf(kubeconfig.auth_infos, Users(docs), n)
      /\ FirstOf(kubeconfig.contexts, Contexts(docs), n) /\ FirstSet(kubeconfig.current_context, Currents(docs), n)
  BY DEF ConfigInv, Merged
<1>4. /\ \A i \in 1..n : /\ DOMAIN Clusters(docs)[i] = DOMAIN docs[i].clusters
                         /\ DOMAIN Users(docs)[i] = DOMAIN docs[i].auth_infos
                         /\ Contexts(docs)[i] = docs[i].contexts /\ Currents(docs)[i] = docs[i].current_context
  BY <1>2 DEF Clusters, Users, Contexts, Currents, read_from, DocumentOf
<1>5. options \in Options /\ options.context \in {None, Some(Context)}
  BY DEF ConfigInv, LoadedInv, Options, NoOptions
<1>6. kubeconfig.current_context \in {None, Some(Context)}
  BY <1>2, <1>3, <1>4 DEF FirstSet, DocumentOf
<1>7. ContextName(options) = Some(Context) /\ sc \in Body(kubeconfig.contexts, Context)
  BY <1>1, <1>5, <1>6 DEF SelectedContext, ContextName, Or, Some, None
<1>8. name = Some(Context)
  <2>1. CASE options.context # None
    BY <1>5, <2>1 DEF Or
  <2>2. CASE options.context = None
    <3>1. kubeconfig.current_context = Some(Context) /\ Some(Context) # None
      BY <1>7, <2>2 DEF ContextName, Or, Some, None
    <3>2. PICK i \in 1..n : /\ docs[i].current_context # None /\ \A j \in 1..(i - 1) : docs[j].current_context = None
                            /\ docs[i].current_context = Some(Context)
      <4>1. PICK i \in 1..n : /\ Currents(docs)[i] # None /\ \A j \in 1..(i - 1) : Currents(docs)[j] = None
                              /\ Currents(docs)[i] = Some(Context)
        BY <1>3, <3>1 DEF FirstSet
      <4>2. \A j \in 1..(i - 1) : j \in 1..n
        BY <1>2
      <4> QED
        BY <1>4, <4>1, <4>2
    <3>3. docs[i] \in FirstWith(LAMBDA d : d.current_context # None)
      BY <1>2, <3>2 DEF FirstWith
    <3>4. \A d \in FirstWith(LAMBDA e : e.current_context # None) : d.current_context = Some(Context)
      BY <1>2 DEF FirstWith, DocumentOf
    <3> QED
      BY <2>2, <3>2, <3>3, <3>4 DEF Or
  <2> QED
    BY <2>1, <2>2
<1>9. sc \in context
  <2>1. PICK i \in 1..n : /\ Context \in DOMAIN docs[i].contexts /\ \A j \in 1..(i - 1) : Context \notin DOMAIN docs[j].contexts
                          /\ sc \in docs[i].contexts[Context]
    <3>1. PICK i \in 1..n : /\ Context \in DOMAIN Contexts(docs)[i]
                            /\ \A j \in 1..(i - 1) : Context \notin DOMAIN Contexts(docs)[j]
                            /\ sc \in Contexts(docs)[i][Context]
      BY <1>2, <1>3, <1>7, FirstBody
    <3>2. \A j \in 1..(i - 1) : j \in 1..n
      BY <1>2
    <3> QED
      BY <1>4, <3>1, <3>2
  <2>2. docs[i] \in FirstWith(LAMBDA d : Context \in DOMAIN d.contexts)
    BY <1>2, <2>1 DEF FirstWith
  <2>3. sc \in Body(docs[i].contexts, Context)
    BY <2>1 DEF Body
  <2> QED
    BY <2>2, <2>3
<1>10. \A c2 \in SelectedContext(options) : c2 = sc
  <2>1. kubeconfig.contexts[Context] \in {None} \cup {Some(b) : b \in UNION {ContextBody(File[i]) : i \in 1..n}}
    <3>1. Context \in DOMAIN kubeconfig.contexts
      BY <1>7 DEF Body, None
    <3>2. PICK i \in 1..n : /\ Context \in DOMAIN docs[i].contexts
                            /\ kubeconfig.contexts[Context] = docs[i].contexts[Context]
      BY <1>3, <1>4, <3>1 DEF FirstOf
    <3>3. docs[i].contexts \in Named(Context, ContextBody(File[i])) /\ docs[i].contexts # << >>
      BY <1>2, <3>2 DEF DocumentOf
    <3>4. docs[i].contexts[Context] \in {None} \cup {Some(b) : b \in ContextBody(File[i])}
      BY <3>3 DEF Named
    <3>5. ContextBody(File[i]) \subseteq UNION {ContextBody(File[j]) : j \in 1..n}
      OBVIOUS
    <3> QED
      BY <3>2, <3>4, <3>5
  <2>2. ASSUME NEW c2 \in SelectedContext(options) PROVE c2 \in Body(kubeconfig.contexts, Context)
    BY <1>7, <2>2 DEF SelectedContext, Some
  <2> QED
    BY <1>7, <2>1, <2>2 DEF Body, None, Some
<1>11. PICK m \in Or(options.cluster, Some(sc.cluster)) : \E c \in cluster(m) :
          /\ cl.server = c.server
          /\ CaSource(cl) \in {None, Some("data"), Some(c.file)}
          /\ CaSource(cl) = None <=> c.certificate_authority = None
  <2>0. PICK m \in Or(options.cluster, Some(sc.cluster)) : cl \in Body(kubeconfig.clusters, m)
    BY <1>1, <1>10 DEF SelectedCluster
  <2>1. PICK i \in 1..n : /\ m \in DOMAIN Clusters(docs)[i]
                          /\ \A j \in 1..(i - 1) : m \notin DOMAIN Clusters(docs)[j]
                          /\ cl \in Clusters(docs)[i][m]
    BY <1>2, <1>3, <2>0, FirstBody
  <2>2. \A j \in 1..(i - 1) : j \in 1..n
    BY <1>2
  <2>3. docs[i] \in FirstWith(LAMBDA d : m \in DOMAIN d.clusters)
    BY <1>2, <1>4, <2>1, <2>2 DEF FirstWith
  <2>4. PICK c \in docs[i].clusters[m] : cl = ResolveCluster(File[i], c)
    BY <1>2, <1>4, <2>1 DEF Clusters, read_from, DocumentOf
  <2>5. c \in ClusterBody(File[i])
    <3>1. docs[i].clusters \in Named(Cluster, ClusterBody(File[i])) /\ m \in DOMAIN docs[i].clusters
      BY <1>2, <1>4, <2>1 DEF DocumentOf
    <3>2. m = Cluster
      BY <3>1 DEF Named
    <3> QED
      BY <2>4, <3>1, <3>2 DEF Named, None, Some
  <2>6. c \in cluster(m)
    BY <1>4, <2>1, <2>3, <2>4 DEF Body
  <2>7. /\ cl.server = c.server /\ c.file = File[i]
        /\ cl.certificate_authority_data = c.certificate_authority_data
        /\ cl.certificate_authority = {to_absolute(File[i], p) : p \in c.certificate_authority}
    BY <2>4, <2>5 DEF ClusterBody, ResolveCluster
  <2>8. \/ c.certificate_authority = None /\ c.certificate_authority_data = None
        \/ c.certificate_authority = Some(Relative) /\ c.certificate_authority_data = None
        \/ c.certificate_authority = Some(Absolute) /\ c.certificate_authority_data = Some("data")
    BY <2>5 DEF ClusterBody
  <2>9. /\ CaSource(cl) \in {None, Some("data"), Some(c.file)}
        /\ CaSource(cl) = None <=> c.certificate_authority = None
    BY <2>7, <2>8 DEF CaSource, Or, None, Some, to_absolute, Relative, Absolute
  <2> QED
    BY <2>6, <2>7, <2>9
<1>12. PICK u \in Or(options.user, Some(sc.user)) : \E a \in user(u) :
          su = [file |-> a.file, client_certificate |-> a.file, client_key |-> a.file, token_file |-> a.file]
  <2>1. PICK c2 \in SelectedContext(options) : \E u \in Or(options.user, Some(c2.user)) :
           su \in Body(kubeconfig.auth_infos, u)
    BY <1>1 DEF SelectedUser
  <2>2. c2 = sc
    BY <1>10, <2>1
  <2>3. PICK u \in Or(options.user, Some(sc.user)) : su \in Body(kubeconfig.auth_infos, u)
    BY <2>1, <2>2
  <2>4. PICK i \in 1..n : /\ u \in DOMAIN Users(docs)[i] /\ \A j \in 1..(i - 1) : u \notin DOMAIN Users(docs)[j]
                          /\ su \in Users(docs)[i][u]
    BY <1>2, <1>3, <2>3, FirstBody
  <2>5. \A j \in 1..(i - 1) : j \in 1..n
    BY <1>2
  <2>6. docs[i] \in FirstWith(LAMBDA d : u \in DOMAIN d.auth_infos)
    BY <1>2, <1>4, <2>4, <2>5 DEF FirstWith
  <2>7. docs[i].auth_infos[u] = Some(AuthInfoBody(File[i]))
    BY <1>2, <1>4, <2>4 DEF DocumentOf
  <2>8. PICK a \in docs[i].auth_infos[u] : su = ResolveUser(File[i], a)
    BY <1>2, <1>4, <2>4 DEF Users, read_from, DocumentOf
  <2>9. a \in user(u) /\ a = AuthInfoBody(File[i])
    BY <1>4, <2>4, <2>6, <2>7, <2>8 DEF Body, Some
  <2>10. su = [file |-> a.file, client_certificate |-> a.file, client_key |-> a.file, token_file |-> a.file]
    BY <2>8, <2>9 DEF ResolveUser, AuthInfoBody, to_absolute
  <2> QED
    BY <2>3, <2>9, <2>10
<1>13. PICK c \in cluster(m) :
         /\ cl.server = c.server
         /\ CaSource(cl) \in {None, Some("data"), Some(c.file)}
         /\ CaSource(cl) = None <=> c.certificate_authority = None
  BY <1>11
<1>14. /\ config.cluster_url = cl.server \/ config.cluster_url = Some("KUBE_RS_DEBUG_OVERRIDE_URL")
       /\ config.namespace = Or(sc.namespace, Some("default"))
       /\ config.root_cert = CaSource(cl) /\ config.auth_info = su
  BY <1>1
<1>15. /\ config.cluster_url = c.server \/ config.cluster_url = Some("KUBE_RS_DEBUG_OVERRIDE_URL")
       /\ config.namespace = Or(sc.namespace, Some("default"))
       /\ config.root_cert \in {None, Some("data"), Some(c.file)}
       /\ config.root_cert = None <=> c.certificate_authority = None
       /\ \E w \in Or(options.user, Some(sc.user)) : \E a \in user(w) :
            config.auth_info = [file |-> a.file, client_certificate |-> a.file,
                                client_key |-> a.file, token_file |-> a.file]
  BY <1>12, <1>13, <1>14
<1> HIDE DEF name, context, cluster, user, n
<1>16. \E x \in context : \E k \in Or(options.cluster, Some(x.cluster)) : \E y \in cluster(k) :
         /\ config.cluster_url = y.server \/ config.cluster_url = Some("KUBE_RS_DEBUG_OVERRIDE_URL")
         /\ config.namespace = Or(x.namespace, Some("default"))
         /\ config.root_cert \in {None, Some("data"), Some(y.file)}
         /\ config.root_cert = None <=> y.certificate_authority = None
         /\ \E w \in Or(options.user, Some(x.user)) : \E a \in user(w) :
              config.auth_info = [file |-> a.file, client_certificate |-> a.file,
                                  client_key |-> a.file, token_file |-> a.file]
  BY <1>9, <1>11, <1>13, <1>15
<1> QED
  BY <1>8, <1>16 DEF FirstFileWins, name, context, cluster, user

\* Building the client takes the configuration and drops the files.
LEMMA NextConfigInv == ConfigInv /\ [Next]_vars => ConfigInv'
<1> SUFFICES ASSUME ConfigInv, [Next]_vars PROVE ConfigInv'
  OBVIOUS
<1>1. CASE LoadConfig
  BY <1>1, LoadConfigInv
<1>2. CASE TakeConfig
  <2>1. Merged(docs', kubeconfig') /\ phase' = "building"
    BY <1>2, EmptyMerge DEF TakeConfig
  <2> QED
    BY <2>1 DEF ConfigInv, LoadedInv
<1>3. CASE BuildClient
  <2>1. UNCHANGED <<docs, kubeconfig>> /\ phase' \in {"refused", "built"}
    BY <1>3 DEF BuildClient
  <2> QED
    BY <2>1 DEF ConfigInv, LoadedInv
<1>4. CASE UNCHANGED <<phase, configVars>>
  BY <1>4 DEF configVars, ConfigInv, LoadedInv, SelectedContext, SelectedUser, SelectedCluster, ContextName
<1>5. CASE UNCHANGED vars
  <2>1. UNCHANGED <<phase, configVars>>
    BY <1>5 DEF vars, configVars
  <2> QED
    BY <1>4, <2>1
<1> QED
  BY <1>1, <1>2, <1>3, <1>4, <1>5 DEF Next

\* Kubeconfig::merge and ConfigLoader::load: for any contents of the files and any users, the
\* context, the cluster and the user of a loaded configuration are each the entry of the
\* first file that has the name, with the paths of that file.
THEOREM FirstFileIsUsed == Spec => []FirstFileWins
<1>1. Init => ConfigInv
  BY EmptyMerge DEF Init, ConfigInit, ConfigInv, LoadedInv
<1> QED
  BY <1>1, NextConfigInv, LoadedIsFirst, PTL DEF Spec
=============================================================================
