------------------------------- MODULE Config -------------------------------
(***************************************************************************)
(* kube-client/src/config: Config::infer.  The files of KUBECONFIG are     *)
(* read one after the other and merged, a context with its cluster and its *)
(* user is selected, and if anything of this fails the configuration of    *)
(* the pod's service account is used instead.                              *)
(*                                                                         *)
(* A list of named entries is a function of the names; an entry may have   *)
(* no body.  An Option is a set of at most one value.  Bodies are told     *)
(* apart by the file they come from, paths by what they are relative to.   *)
(* What an AuthInfo holds is looked at by module Auth.                     *)
(***************************************************************************)
EXTENDS Naturals, Sequences

CONSTANTS MaxFiles,     \* files that KUBECONFIG names, at least one
          UserName      \* names of users; there is one context

File == <<"first file", "second file", "third file">>

ASSUME ConfigAssumption == MaxFiles \in 1..Len(File)

None == {}
Some(v) == {v}
Or(first, second) == IF first # None THEN first ELSE second

VARIABLES phase,        \* reading, rooting, failed, loaded, refused; then module Client's
          docs,         \* the documents read so far, as they are in the files
          kubeconfig,   \* their merge
          options,      \* KubeConfigOptions
          config        \* what was loaded

configVars == <<docs, kubeconfig, options, config>>

NoOptions == [context |-> None, cluster |-> None, user |-> None]
NoConfig == [source |-> "none"]
Context == "context"
Cluster == "cluster"
Elsewhere == "elsewhere"     \* a cluster that no file has

-----------------------------------------------------------------------------
(* Kubeconfig                                                              *)

Relative == "relative"
Absolute == "/absolute"

\* `kind` stands for kind and apiVersion, which are merged alike.
Kubeconfig == [kind |-> None, clusters |-> << >>, auth_infos |-> << >>, contexts |-> << >>,
               current_context |-> None]

\* Entries of one name: not there, without a body, or with one of these bodies
Named(name, bodies) == {<< >>} \cup [{name} -> {None} \cup {Some(b) : b \in bodies}]

ContextBody(i) ==
    {[cluster |-> Cluster, user |-> u, namespace |-> Some(i)] : u \in UserName}
    \cup {[cluster |-> Elsewhere, user |-> CHOOSE u \in UserName : TRUE, namespace |-> None]}
ClusterBody(i) ==
    LET body(server, ca, data) == [file |-> i, server |-> server, certificate_authority |-> ca,
                                   certificate_authority_data |-> data]
    IN  {body(None, None, None),
         body(Some(i), Some(Relative), None), body(Some(i), Some(Absolute), Some("data"))}
AuthInfoBody(i) ==
    [file |-> i, client_certificate |-> Relative, client_key |-> Relative, token_file |-> Relative]

\* The documents that file i may hold
Documents(i) ==
    {[kind |-> kind, clusters |-> cluster, auth_infos |-> [u \in users |-> Some(AuthInfoBody(i))],
      contexts |-> context, current_context |-> current] :
       kind \in {Some("Config"), Some("Other")}, cluster \in Named(Cluster, ClusterBody(i)),
       users \in SUBSET UserName, context \in Named(Context, ContextBody(i)),
       current \in {None, Some(Context)}}

to_absolute(i, path) == IF path = Relative THEN i ELSE path

ResolveUser(i, user) ==
    [user EXCEPT !.client_certificate = to_absolute(i, @), !.client_key = to_absolute(i, @),
                 !.token_file = to_absolute(i, @)]

ResolveCluster(i, cluster) ==
    [cluster EXCEPT !.certificate_authority = {to_absolute(i, p) : p \in @}]

\* Paths are made absolute against the directory of the file.
read_from(i, doc) ==
    [doc EXCEPT !.clusters = [n \in DOMAIN @ |-> {ResolveCluster(i, c) : c \in @[n]}],
                !.auth_infos = [n \in DOMAIN @ |-> {ResolveUser(i, u) : u \in @[n]}]]

append_new_named_Replaces(base, next) ==
    [n \in DOMAIN base \cup DOMAIN next |-> IF n \in DOMAIN next THEN next[n] ELSE base[n]]

\* The entries of the next file whose names are new
append_new_named(base, next) ==
    [n \in DOMAIN base \cup DOMAIN next |-> IF n \in DOMAIN base THEN base[n] ELSE next[n]]

KindMismatch(base, next) == base.kind # None /\ next.kind # None /\ base.kind # next.kind

merge(base, next) ==
    [kind |-> Or(base.kind, next.kind),
     clusters |-> append_new_named(base.clusters, next.clusters),
     auth_infos |-> append_new_named(base.auth_infos, next.auth_infos),
     contexts |-> append_new_named(base.contexts, next.contexts),
     current_context |-> Or(base.current_context, next.current_context)]

-----------------------------------------------------------------------------
ConfigInit ==
    /\ phase = "reading"
    /\ docs = << >>
    /\ kubeconfig = Kubeconfig
    /\ options = NoOptions
    /\ config = NoConfig

\* The error is returned, and what was read is dropped with it.  infer, which has no
\* options, goes on with incluster; from_kubeconfig does not.
Fail(o) ==
    /\ phase' = IF o = NoOptions THEN "failed" ELSE "refused"
    /\ docs' = << >> /\ kubeconfig' = Kubeconfig
    /\ options' = NoOptions /\ config' = NoConfig

\* from_env reads and merges the next file.
ReadFile(doc) ==
    LET next == read_from(File[Len(docs) + 1], doc) IN
    /\ phase = "reading"
    /\ \/ KindMismatch(kubeconfig, next) /\ Fail(NoOptions)
       \/ /\ ~KindMismatch(kubeconfig, next)
          /\ docs' = Append(docs, doc)
          /\ kubeconfig' = merge(kubeconfig, next)
          /\ UNCHANGED <<phase, options, config>>

\* The file does not exist, or is no yaml.
ReadFails == phase = "reading" /\ Len(docs) < MaxFiles /\ Fail(NoOptions)

\* The body of a named entry, if the name is there
Body(entries, name) == IF name \in DOMAIN entries THEN entries[name] ELSE None

\* ConfigLoader::load: the context, cluster and user asked for, of the merged file
ContextName(o) == Or(o.context, kubeconfig.current_context)
SelectedContext(o) == UNION {Body(kubeconfig.contexts, n) : n \in ContextName(o)}
SelectedUser(o) ==
    UNION {UNION {Body(kubeconfig.auth_infos, n) : n \in Or(o.user, Some(c.user))} : c \in SelectedContext(o)}

SelectedCluster(o) ==
    UNION {UNION {Body(kubeconfig.clusters, n) : n \in Or(o.cluster, Some(c.cluster))} : c \in SelectedContext(o)}

\* load_from_base64_or_file: data overrides the file.
CaSource(cluster) == Or(cluster.certificate_authority_data, cluster.certificate_authority)

\* All files are read.
load(o) ==
    /\ phase = "reading"
    /\ docs # << >>
    /\ \E context \in SelectedContext(o), user \in SelectedUser(o), cluster \in SelectedCluster(o) :
         /\ cluster.server # None
         /\ config' = [source |-> "kubeconfig", cluster_url |-> cluster.server,
                       root_cert |-> CaSource(cluster), auth_info |-> user,
                       namespace |-> Or(context.namespace, Some("default"))]
    /\ phase' = "rooting"
    /\ options' = o
    /\ UNCHANGED <<docs, kubeconfig>>

\* CurrentContextNotSet, LoadContext, LoadClusterOfContext, FindUser, MissingClusterUrl
LoadFails(o) ==
    /\ phase = "reading"
    /\ docs # << >>
    /\ \/ SelectedContext(o) = None \/ SelectedUser(o) = None
       \/ \A cluster \in SelectedCluster(o) : cluster.server = None
    /\ Fail(o)

\* apply_debug_overrides, by infer only
Overridden(loaded) ==
    {loaded} \cup (IF options = NoOptions
                   THEN {[loaded EXCEPT !.cluster_url = Some("KUBE_RS_DEBUG_OVERRIDE_URL")]} ELSE {})

\* new_from_loader: certificates are loaded and URLs parsed.
RootLoads ==
    /\ phase = "rooting"
    /\ phase' = "loaded"
    /\ config' \in Overridden(config)
    /\ UNCHANGED <<docs, kubeconfig, options>>

RootFails == phase = "rooting" /\ Fail(options)

InCluster == [source |-> "pod", cluster_url |-> Some("KUBERNETES_SERVICE_HOST"), root_cert |-> Some("pod"),
              namespace |-> Some("pod"),
              auth_info |-> [file |-> "pod", client_certificate |-> "none", client_key |-> "none",
                             token_file |-> "pod"]]

\* infer: the error of the kubeconfig is dropped if the program runs in a pod.
incluster ==
    /\ phase = "failed"
    /\ \/ phase' = "loaded" /\ config' \in Overridden(InCluster)
       \/ phase' = "refused" /\ UNCHANGED config
    /\ UNCHANGED <<docs, kubeconfig, options>>

\* KubeConfigOptions
Options == {NoOptions, [NoOptions EXCEPT !.context = Some(Context)], [NoOptions EXCEPT !.cluster = Some(Cluster)]}
           \cup {[NoOptions EXCEPT !.user = Some(u)] : u \in UserName}

LoadConfig ==
    \/ Len(docs) < MaxFiles /\ \E doc \in Documents(File[Len(docs) + 1]) : ReadFile(doc)
    \/ \E o \in Options : load(o) \/ LoadFails(o)
    \/ ReadFails \/ RootLoads \/ RootFails \/ incluster

-----------------------------------------------------------------------------
\* The first of the documents that has the name, or says something
FirstWith(P(_)) == {docs[i] : i \in {j \in DOMAIN docs : P(docs[j]) /\ \A k \in 1..(j - 1) : ~P(docs[k])}}

\* "The first file to set a particular value or map key wins", "Even if the second file has
\* non-conflicting entries under `red-user`, discard them" (the rules that merge cites):
\* context, cluster and user of a loaded configuration are each the entry of the first
\* file that has the name, as that file has it and with its relative paths resolved
\* against that file; nothing is put together from two entries.  If there is no such
\* entry nothing is loaded, unless it is the pod's configuration as a whole.
FirstFileWins ==
    LET name == Or(options.context, UNION {d.current_context : d \in FirstWith(LAMBDA d : d.current_context # None)})
        context == UNION {Body(d.contexts, Context) : d \in FirstWith(LAMBDA d : Context \in DOMAIN d.contexts)}
        cluster(n) == UNION {Body(d.clusters, n) : d \in FirstWith(LAMBDA d : n \in DOMAIN d.clusters)}
        user(u) == UNION {Body(d.auth_infos, u) : d \in FirstWith(LAMBDA d : u \in DOMAIN d.auth_infos)}
    IN  phase = "loaded" /\ config.source # "pod" =>
          /\ name = Some(Context)
          /\ \E x \in context : \E n \in Or(options.cluster, Some(x.cluster)) : \E c \in cluster(n) :
               /\ config.cluster_url = c.server \/ config.cluster_url = Some("KUBE_RS_DEBUG_OVERRIDE_URL")
               /\ config.namespace = Or(x.namespace, Some("default"))
               /\ config.root_cert \in {None, Some("data"), Some(c.file)}
               /\ config.root_cert = None <=> c.certificate_authority = None
               /\ \E u \in Or(options.user, Some(x.user)) : \E a \in user(u) :
                    config.auth_info = [file |-> a.file, client_certificate |-> a.file,
                                        client_key |-> a.file, token_file |-> a.file]
=============================================================================
