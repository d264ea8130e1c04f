---------------------------- MODULE GitCredentials ----------------------------
(***************************************************************************)
(* How external git sources authenticate (internal/gitsource/auth.go): the *)
(* credentials of the environment, an allowlist of the hosts they may go   *)
(* to, ~/.netrc, SSH keys, one resolution per host and process, and the    *)
(* verification of host keys.                                              *)
(*                                                                         *)
(* A URL is what a manifest writes,                                        *)
(*   form  its scheme, "scp" for user@host:path, "path" for a local one    *)
(*   user  the userinfo, None if there is none                             *)
(*   host  the one a clone contacts, and port, 0 if the URL names none     *)
(*   at    the name that follows an '@' in its path (x@name/y), or None.   *)
(* An endpoint is what the code makes of it: [family, host, port, user].   *)
(* An environment is a record of                                           *)
(*   allow       the hosts of FLUXVIEW_GIT_CREDENTIAL_HOSTS                *)
(*   pair, token whether they are set                                      *)
(*   netrc       the words of ~/.netrc that count, <<word, value>>         *)
(*   key         FLUXVIEW_GIT_SSH_KEY: None, "good" or "bad"               *)
(*   agent       whether an ssh-agent with keys answers                    *)
(*   identities  the default identity files in order, as key               *)
(*   files       the known_hosts files: None, "good" or "bad" (unreadable)  *)
(*   accept      accept-new is on                                          *)
(*   knownHosts  the pairs <<host, key>> of the known_hosts files          *)
(***************************************************************************)
EXTENDS SequencesExt, FiniteSetsExt, Integers

CONSTANT None

Forms    == {"http", "https", "ssh", "git", "file", "scp", "path"}
Families == {"http", "https", "ssh", "none"}

-----------------------------------------------------------------------------
(* What can need credentials; user@host:path is ssh.                       *)
Family(form) ==
  CASE form \in {"http", "https"} -> form
    [] form \in {"ssh", "scp"}    -> "ssh"
    [] OTHER                      -> "none"

Local == [family |-> "none", host |-> None, port |-> 0, user |-> None]

(* The last '@' ends the userinfo, one in the path included: the host is   *)
(* what follows that, and the user ("path") what precedes it.  After it,   *)
(* user@host:path has no colon ahead of a slash and is a local path.  Of   *)
(* http no user counts.                                                    *)
ParseGitEndpoint(url) ==
  IF Family(url.form) = "none" \/ (url.form = "scp" /\ url.at # None) THEN Local
  ELSE [family |-> Family(url.form),
        host   |-> IF url.at = None THEN url.host ELSE url.at,
        port   |-> IF url.at = None THEN url.port ELSE 0,
        user   |-> IF url.form \in {"http", "https"} THEN None
                   ELSE IF url.at = None THEN url.user ELSE "path"]

-----------------------------------------------------------------------------
(* ~/.netrc (parseNetrc): machine and default open a stanza, login and     *)
(* password belong to the newest one.                                      *)
Word(stanzas, w) ==
  CASE w[1] = "machine" -> Append(stanzas, [machine |-> w[2], login |-> None, password |-> None])
    [] w[1] = "default" -> Append(stanzas, [machine |-> None, login |-> None, password |-> None])
    [] w[1] \in {"login", "password"} /\ stanzas # <<>> ->
         [stanzas EXCEPT ![Len(stanzas)][w[1]] = w[2]]
    [] OTHER -> stanzas

Stanzas(netrc) == FoldLeft(Word, <<>>, netrc)

(* netrcCredentials: the first complete stanza of the host, else the first *)
(* complete default one if it may be used.                                 *)
NetrcLogin(netrc, host, allowDefault) ==
  LET stanzas  == Stanzas(netrc)
      complete == {k \in DOMAIN stanzas : stanzas[k].login # None /\ stanzas[k].password # None}
      own      == {k \in complete : stanzas[k].machine = host}
      default  == {k \in complete : stanzas[k].machine = None}
  IN  IF own # {} THEN stanzas[Min(own)].login
      ELSE IF allowDefault /\ default # {} THEN stanzas[Min(default)].login ELSE None

-----------------------------------------------------------------------------
(* Outcomes: where the credential comes from (None: no authentication), as *)
(* whom, an error, and whether credentials stayed home.                    *)
Outcome(source, user) == [source |-> source, user |-> user, err |-> FALSE, withheld |-> FALSE]
NoAuth   == Outcome(None, None)
Fails(o) == [o EXCEPT !.err = TRUE]

CredentialHostAllowed(env, host) == host \in env.allow
ResolveHTTPAuth(env, ep) ==
  LET allowed == CredentialHostAllowed(env, ep.host)
      login   == NetrcLogin(env.netrc, ep.host, env.allow = {} \/ allowed)
  IN  IF allowed /\ env.pair THEN Outcome("pair", None)
      ELSE IF allowed /\ env.token THEN Outcome("token", None)
      ELSE IF login # None THEN Outcome("netrc", login)
      ELSE [NoAuth EXCEPT !.withheld = env.pair \/ env.token]

(* The first key there is decides, even if it cannot be read.              *)
ResolveSSHAuth(env, ep) ==
  LET user  == IF ep.user = None THEN "git" ELSE ep.user
      there == {k \in DOMAIN env.identities : env.identities[k] # None}
      Read(source, key) == IF key = "good" THEN Outcome(source, user) ELSE Fails(Outcome(source, None))
  IN  IF env.files = "bad" \/ (env.files = None /\ ~env.accept) THEN Fails(NoAuth)
      ELSE IF env.key # None THEN Read("key", env.key)
      ELSE IF env.agent THEN Outcome("agent", user)
      ELSE IF there # {} THEN Read("identity", env.identities[Min(there)])
      ELSE Fails(NoAuth)

Direct(env, ep) ==
  IF ep.family \in {"http", "https"} THEN ResolveHTTPAuth(env, ep)
  ELSE IF ep.family = "ssh" THEN ResolveSSHAuth(env, ep) ELSE NoAuth

(* authMapKey: the port counts, the user does not.                         *)
AuthMapKey_Host(ep) == ep.host
AuthMapKey(ep) == <<ep.family, ep.host, ep.port>>

(* resolvePerHost, for an endpoint, and for those of one process in turn.  *)
ResolvePerHost(env, r, ep) ==
  LET key   == AuthMapKey(ep)
      local == ep.family = "none"
      out   == IF ~local /\ key \in DOMAIN r.perHost THEN r.perHost[key] ELSE Direct(env, ep)
  IN  [perHost  |-> IF local THEN r.perHost
                    ELSE [k \in DOMAIN r.perHost \cup {key} |-> IF k = key THEN out ELSE r.perHost[k]],
       outcomes |-> Append(r.outcomes, out)]

Resolve(env, eps) ==
  FoldLeft(LAMBDA r, ep : ResolvePerHost(env, r, ep),
           [perHost |-> <<>>, outcomes |-> <<>>], eps).outcomes

ResolveAuth(env, urls) == Resolve(env, [i \in DOMAIN urls |-> ParseGitEndpoint(urls[i])])

-----------------------------------------------------------------------------
(* hostKeyCallback and tofuRemember, for the keys <<host, key>> servers    *)
(* present in turn: accepted or not.                                       *)
Verify(env, r, shown) ==
  LET known  == {p \in env.knownHosts : p[1] = shown[1]}
      pinned == {p \in r.tofuMap : p[1] = shown[1]}
      ok     == \/ shown \in known
                \/ known = {} /\ env.accept /\ pinned \subseteq {shown}
  IN  [tofuMap |-> IF ok /\ known = {} THEN r.tofuMap \cup {shown} ELSE r.tofuMap,
       accepted |-> Append(r.accepted, ok)]

HostKeys(env, shown) ==
  FoldLeft(LAMBDA r, s : Verify(env, r, s), [tofuMap |-> {}, accepted |-> <<>>], shown).accepted
=============================================================================
