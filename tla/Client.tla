------------------------------- MODULE Client -------------------------------
(***************************************************************************)
(* Client::try_default: Config::infer, ClientBuilder::try_from and the     *)
(* requests of several tasks through the auth layer of the one client.     *)
(* Building the client consumes the configuration.                         *)
(***************************************************************************)
EXTENDS Config, Auth

vars == <<phase, docs, kubeconfig, options, config, now, auth, identity, lock, tasks, header, disk, idp>>

Init == ConfigInit /\ AuthInit

\* ClientBuilder::try_from takes the configuration: from now on its AuthInfo decides.
TakeConfig ==
    /\ phase = "loaded"
    /\ phase' = "building"
    /\ config' = [source |-> config.source]
    /\ docs' = << >> /\ kubeconfig' = Kubeconfig /\ options' = NoOptions
    /\ UNCHANGED authVars

LoadedInfos == IF config.source = "pod" THEN {FileInfo} ELSE AuthInfos

BuildClient ==
    /\ phase = "building"
    /\ \E info \in LoadedInfos : \E first, second \in try_from(info) : Build(info, first, second)
    /\ phase' = IF auth' = Failed THEN "refused" ELSE "built"
    /\ config' = NoConfig
    /\ UNCHANGED <<docs, kubeconfig, options>>

Next == \/ LoadConfig /\ UNCHANGED authVars
        \/ TakeConfig \/ BuildClient
        \/ phase = "built" /\ UseAuth /\ UNCHANGED <<phase, configVars>>

Spec == Init /\ [][Next]_vars

\* The locks of tokio are fair: who waits gets its turn.  A plugin ends, and a provider
\* answers or the connection to it breaks.
Fairness ==
    \A t \in Task : /\ SF_vars(Acquire(t) /\ UNCHANGED <<phase, configVars>>)
                    /\ WF_vars((Proceed(t) \/ Disconnect(t)) /\ UNCHANGED <<phase, configVars>>)

FairSpec == Spec /\ Fairness

TaskSymmetry == Permutations(Task)

-----------------------------------------------------------------------------
Sends(t) == tasks[t] # "sent" /\ tasks'[t] = "sent"

\* A token that the client already had is put in a header only while it is valid,
\* however long the task waited for the lock behind others: expiry is judged under the
\* lock, with "some wiggle room".
NoExpiredToken == [][\A t \in Task : Sends(t) /\ ~header'[t].fresh => now < header'[t].expires]_vars

\* "Reloads at least once per minute": a token other than the one in the file is sent
\* for at most FileLife - FileMargin after the file was replaced, unless the file could
\* not be read at the last reload; which task reloads does not matter.
FileTokenIsFresh ==
    [][\A t \in Task : Sends(t) /\ auth.type = "File" /\ disk.present /\ ~auth'.missed
         => header'[t].token = disk.token \/ now - disk.written <= FileLife - FileMargin]_vars

\* No request carries a token that is known to be stale.
TokensAreFresh == NoExpiredToken /\ FileTokenIsFresh

\* The client's refresh token is the one that the provider honours, whatever tasks
\* refresh at the same time and even if the answer had no id token; only an answer that
\* did not arrive, or whose receiver was dropped, can cost it.
RefreshTokenKept ==
    auth.type = "Oidc" /\ Free /\ ~idp.cut => auth.refresh = idp.refresh

\* "Unreachable because the token source does not change" (to_header): a refresh of an
\* Exec token never finds another kind of credentials.
TokenSourceUnchanged == \A t \in Task : tasks[t] # "panicked"

\* Every request gets its header or an error: no order of lock requests ends in a deadlock.
EveryRequestProceeds ==
    \A t \in Task : tasks[t] \in {"waiting", "writing", "refreshing", "oauth", "endpoint",
                                  "asking", "asking again", "answered"}
                      ~> tasks[t] \in {"idle", "sent", "error"}
=============================================================================
