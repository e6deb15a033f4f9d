------------------------------ MODULE Accounts ------------------------------
(***************************************************************************)
(* Accounts and sessions: the document users.json (control/backend.rs),    *)
(* the handlers that sign in, renew, sign out and change accounts          *)
(* (http/auth.rs, http/users.rs, the SSO end of http/saml.rs) and the      *)
(* break-glass reset at boot (control/mod.rs).                             *)
(*                                                                         *)
(* A session is a chain of tokens: the first is minted by a sign-in, each  *)
(* renewal hands out another.  Nothing is stored per token: one is good as *)
(* long as the credentials version it carries is that of its account, so   *)
(* the order in which handlers read, bump and mint is what ends a session. *)
(*                                                                         *)
(* A change of the document is one step (ControlDoc implements AtomicDoc); *)
(* between two of them every other call may run.  A cached read returns    *)
(* the document or an earlier one a node still keeps.                      *)
(***************************************************************************)
EXTENDS Naturals, FiniteSets

CONSTANTS
  Id,            \* account ids: each is drawn once
  Node,          \* processes, each with a cache of the document
  Call,          \* requests, sign-ins and boot resets in flight
  Idle,          \* the slot is free
  NoSession,     \* the call has no session
  Sso, Changed,  \* secrets of tokens no password was given for: single
                 \* sign-on, and the one a password change hands back
  MaxPasswords,  \* bound: passwords ever set
  MaxSessions,   \* bound: sessions ever begun
  MaxVersion     \* bound: credentials_version

ASSUME SecretAssumption == Sso \notin Nat /\ Changed \notin Nat /\ Sso # Changed
ASSUME SessionBoundAssumption ==
  /\ MaxPasswords \in Nat /\ MaxSessions \in Nat /\ MaxVersion \in Nat \ {0}
  /\ NoSession \notin Nat

VARIABLES
  users,      \* the document: a function of the ids of the accounts
  drawn,      \* ids drawn so far
  passwords,  \* passwords set so far
  cache,      \* cache[n]: the document as node n keeps it
  call,       \* call[c]: what a call knows and where it is, or Idle
  tokens,     \* tokens handed out
  sessions,   \* sessions begun so far
  ended,      \* history: sessions of accounts that were revoked or removed
  cut         \* history: accounts whose password was set by a call that died
              \* before it revoked the tokens

doc == <<users, drawn, passwords>>
history == <<ended, cut>>
vars == <<users, drawn, passwords, cache, call, tokens, sessions, ended, cut>>

Password == 1..MaxPasswords
User == [admin : BOOLEAN, pw : Password, cv : 1..MaxVersion]
UsersDoc == UNION {[S -> User] : S \in SUBSET Id}
Secret == Password \cup {Sso, Changed}
Token == [id : Id, cv : 1..MaxVersion, secret : Secret, session : 1..MaxSessions]
Step == {"mint", "handle", "set", "bump", "remint", "respond", "create"}

(* id is Idle while the account is being created; fresh is the version the *)
(* answer's token is to carry.                                             *)
CallState ==
  [step : Step, id : Id \cup {Idle}, cv : 1..MaxVersion, fresh : 1..MaxVersion,
   admin : BOOLEAN, secret : Secret, session : 1..MaxSessions \cup {NoSession}]

ASSUME IdleAssumption == Idle \notin CallState

TypeOK ==
  /\ users \in UsersDoc
  /\ drawn \subseteq Id /\ DOMAIN users \subseteq drawn
  /\ passwords \in 0..MaxPasswords
  /\ cache \in [Node -> UsersDoc]
  /\ call \in [Call -> CallState \cup {Idle}]
  /\ tokens \subseteq Token
  /\ sessions \in 0..MaxSessions
  /\ ended \subseteq 1..MaxSessions
  /\ cut \subseteq Id

NoUsers == [i \in {} |-> Idle]

Init ==
  /\ users = NoUsers /\ drawn = {} /\ passwords = 0
  /\ cache = [n \in Node |-> NoUsers]
  /\ call = [c \in Call |-> Idle]
  /\ tokens = {} /\ sessions = 0
  /\ ended = {} /\ cut = {}

-----------------------------------------------------------------------------
(* The document.                                                           *)

Exists(i) == i \in DOMAIN users
At(c, s) == call[c] # Idle /\ call[c].step = s
Advance(c, s) == call' = [call EXCEPT ![c].step = s]
Finish(c) == call' = [call EXCEPT ![c] = Idle]

(* The handler is done; what it alone needed is forgotten.                 *)
Answer(c) ==
  call' = [call EXCEPT ![c].step = "respond", ![c].admin = FALSE,
                       ![c].fresh = call[c].cv]

(* The account i becomes r.                                                *)
Put(i, r) == users' = [j \in DOMAIN users \cup {i} |-> IF j = i THEN r ELSE users[j]]

SessionsOf(i) == {tk.session : tk \in {t \in tokens : t.id = i}}

(* Every token of i is revoked.                                            *)
End(i) ==
  /\ ended' = ended \cup SessionsOf(i)
  /\ cut' = cut \ {i}

(* create_user, the userid and email being free: nothing else about them   *)
(* matters here.                                                           *)
Create(i, admin) ==
  /\ i \in Id \ drawn
  /\ passwords < MaxPasswords
  /\ Put(i, [admin |-> admin, pw |-> passwords + 1, cv |-> 1])
  /\ drawn' = drawn \cup {i}
  /\ passwords' = passwords + 1

(* set_password: "tokens are left valid".                                  *)
Replace(i) ==
  /\ Exists(i) /\ passwords < MaxPasswords
  /\ Put(i, [users[i] EXCEPT !.pw = passwords + 1])
  /\ passwords' = passwords + 1
  /\ UNCHANGED <<drawn, history>>

(* bump_credentials_version.                                               *)
Bump(i) ==
  /\ Exists(i) /\ users[i].cv < MaxVersion
  /\ Put(i, [users[i] EXCEPT !.cv = @ + 1])
  /\ End(i)
  /\ UNCHANGED <<drawn, passwords>>

(* What a cached read on some node may return: cache_get or the store.     *)
CachedDocs == {users} \cup {cache[n] : n \in Node}

(* A miss fills the cache, a change refreshes it: at any later moment.     *)
Fill(n) ==
  /\ cache' = [cache EXCEPT ![n] = users]
  /\ UNCHANGED <<doc, call, tokens, sessions, history>>

-----------------------------------------------------------------------------
(* Signing in.                                                             *)

Begin(c, r) == call[c] = Idle /\ call' = [call EXCEPT ![c] = r]

Knowing(s, i, u, secret, session) ==
  [step |-> s, id |-> i, cv |-> u.cv, fresh |-> u.cv,
   admin |-> s = "handle" /\ u.admin, secret |-> secret, session |-> session]

(* login_handler: authenticate reads the document itself.  A wrong         *)
(* password, or local_login_disabled for an account that is no             *)
(* administrator, is refused and changes nothing.                          *)
Authenticate(c) ==
  /\ \E i \in DOMAIN users :
       Begin(c, Knowing("mint", i, users[i], users[i].pw, NoSession))
  /\ UNCHANGED <<doc, cache, tokens, sessions, history>>

(* acs_handler: find_user_by_login answers from the cache.                 *)
SsoLogin(c) ==
  /\ \E d \in CachedDocs : \E i \in DOMAIN d :
       Begin(c, Knowing("mint", i, d[i], Sso, NoSession))
  /\ UNCHANGED <<doc, cache, tokens, sessions, history>>

(* A token of a new session, with the version the call has read.           *)
NewToken(c, cv, secret) ==
  /\ sessions < MaxSessions
  /\ sessions' = sessions + 1
  /\ tokens' = tokens \cup {[id |-> call[c].id, cv |-> cv, secret |-> secret,
                             session |-> sessions + 1]}

MintLogin(c) ==
  /\ At(c, "mint")
  /\ NewToken(c, call[c].cv, call[c].secret)
  /\ Finish(c)
  /\ UNCHANGED <<doc, cache, history>>

(* setup_handler: no account may exist...                                  *)
SetupCheck(c) ==
  /\ users = NoUsers
  /\ Begin(c, Knowing("create", Idle, [cv |-> 1, admin |-> TRUE], Sso, NoSession))
  /\ UNCHANGED <<doc, cache, tokens, sessions, history>>

(* ... and the first is created and signed in.  That a name is free is all *)
(* that is asked again: two that race may both succeed.                    *)
SetupCreate(c) ==
  /\ At(c, "create")
  /\ \E i \in Id :
       /\ Create(i, TRUE)
       /\ call' = [call EXCEPT ![c].step = "mint", ![c].id = i,
                               ![c].secret = passwords + 1]
  /\ UNCHANGED <<cache, tokens, sessions, history>>

-----------------------------------------------------------------------------
(* Requests with a token.                                                  *)

(* auth_layer: the account as the cache has it, and its version.           *)
Authorize(c) ==
  /\ \E tk \in tokens, d \in CachedDocs :
       /\ tk.id \in DOMAIN d
       /\ tk.cv = d[tk.id].cv
       /\ Begin(c, Knowing("handle", tk.id, d[tk.id], tk.secret, tk.session))
  /\ UNCHANGED <<doc, cache, tokens, sessions, history>>

(* A handler that changes no account, or is refused.                       *)
Serve(c) ==
  /\ At(c, "handle")
  /\ Answer(c)
  /\ UNCHANGED <<doc, cache, tokens, sessions, history>>

(* logout_handler.                                                         *)
Logout(c) ==
  /\ At(c, "handle")
  /\ Bump(call[c].id)
  /\ Answer(c)
  /\ UNCHANGED <<cache, tokens, sessions>>

(* change_password_handler verifies the current password...                *)
Verify(c) ==
  /\ At(c, "handle") /\ Exists(call[c].id)
  /\ call' = [call EXCEPT ![c].step = "set", ![c].admin = FALSE]
  /\ UNCHANGED <<doc, cache, tokens, sessions, history>>

(* An error answer; the boot reset has nobody to answer.                   *)
Abandon(c) == IF call[c].session = NoSession THEN Finish(c) ELSE Answer(c)

(* ... sets the new one...                                                 *)
SetPassword(c) ==
  /\ At(c, "set")
  /\ \/ Replace(call[c].id) /\ Advance(c, "bump")
     \/ ~Exists(call[c].id) /\ Abandon(c) /\ UNCHANGED <<doc, history>>
  /\ UNCHANGED <<cache, tokens, sessions>>

(* The version the caller's next token is to carry.                        *)
Revoked(c, cv) ==
  IF call[c].session = NoSession THEN Finish(c)
  ELSE call' = [call EXCEPT ![c].step = "remint", ![c].fresh = cv]

(* Mutant: the tokens issued under the old password are left valid.        *)
BumpSkipped(c) ==
  /\ At(c, "bump") /\ Exists(call[c].id)
  /\ Revoked(c, users[call[c].id].cv)
  /\ UNCHANGED <<doc, history, cache, tokens, sessions>>

(* ... and then revokes the tokens.                                        *)
BumpAfterSet(c) ==
  /\ At(c, "bump")
  /\ \/ Bump(call[c].id) /\ Revoked(c, users[call[c].id].cv + 1)
     \/ ~Exists(call[c].id) /\ Abandon(c) /\ UNCHANGED <<doc, history>>
  /\ UNCHANGED <<cache, tokens, sessions>>

(* "A fresh token for this caller so they aren't logged out by their own   *)
(* action."                                                                *)
MintChanged(c) ==
  /\ At(c, "remint")
  /\ NewToken(c, call[c].fresh, Changed)
  /\ Answer(c)
  /\ UNCHANGED <<doc, cache, history>>

(* regenerate_password_handler: one change does both.                      *)
Regenerate(c) ==
  /\ At(c, "handle") /\ call[c].admin
  /\ \E i \in DOMAIN users :
       /\ passwords < MaxPasswords /\ users[i].cv < MaxVersion
       /\ Put(i, [users[i] EXCEPT !.pw = passwords + 1, !.cv = @ + 1])
       /\ passwords' = passwords + 1
       /\ End(i)
  /\ Answer(c)
  /\ UNCHANGED <<drawn, cache, tokens, sessions>>

(* create_handler.                                                         *)
CreateUser(c) ==
  /\ At(c, "handle") /\ call[c].admin
  /\ \E i \in Id, admin \in BOOLEAN : Create(i, admin)
  /\ Answer(c)
  /\ UNCHANGED <<cache, tokens, sessions, history>>

(* update_handler: one's own role cannot be given up.                      *)
UpdateUser(c) ==
  /\ At(c, "handle") /\ call[c].admin
  /\ \E i \in DOMAIN users, admin \in BOOLEAN :
       /\ i = call[c].id => admin
       /\ Put(i, [users[i] EXCEPT !.admin = admin])
  /\ Answer(c)
  /\ UNCHANGED <<drawn, passwords, cache, tokens, sessions, history>>

(* delete_handler: not one's own account.                                  *)
DeleteUser(c) ==
  /\ At(c, "handle") /\ call[c].admin
  /\ \E i \in DOMAIN users \ {call[c].id} :
       /\ users' = [j \in DOMAIN users \ {i} |-> users[j]]
       /\ End(i)
  /\ Answer(c)
  /\ UNCHANGED <<drawn, passwords, cache, tokens, sessions>>

(* The session goes on with one more token of version cv.                  *)
RenewWith(c, cv) ==
  tokens' = tokens \cup {[id |-> call[c].id, cv |-> cv, secret |-> call[c].secret,
                         session |-> call[c].session]}

(* Mutant: the token is renewed with the account's version as it is now.   *)
RenewCurrent(c) ==
  /\ At(c, "respond") /\ Exists(call[c].id)
  /\ RenewWith(c, users[call[c].id].cv)
  /\ Finish(c)
  /\ UNCHANGED <<doc, cache, sessions, history>>

(* Sliding renewal after the handler, with the account auth_layer read.    *)
Renew(c) ==
  /\ At(c, "respond")
  /\ RenewWith(c, call[c].cv)
  /\ Finish(c)
  /\ UNCHANGED <<doc, cache, sessions, history>>

(* The token is young: the answer carries no other.                        *)
Respond(c) ==
  /\ At(c, "respond")
  /\ Finish(c)
  /\ UNCHANGED <<doc, cache, tokens, sessions, history>>

-----------------------------------------------------------------------------
(* Boot, and calls that do not end.                                        *)

(* reset_admin: the cache of a process that starts is empty.               *)
ResetAdmin(c) ==
  /\ \E i \in DOMAIN users :
       Begin(c, Knowing("set", i, users[i], Changed, NoSession))
  /\ UNCHANGED <<doc, cache, tokens, sessions, history>>

(* A store that fails, a dropped connection or a crash ends a call where   *)
(* it is.                                                                  *)
Fail(c) ==
  /\ call[c] # Idle
  /\ cut' = IF call[c].step = "bump" THEN cut \cup {call[c].id} ELSE cut
  /\ Finish(c)
  /\ UNCHANGED <<doc, cache, tokens, sessions, ended>>

SignIn(c) ==
  \/ Authenticate(c) \/ SsoLogin(c) \/ MintLogin(c)
  \/ SetupCheck(c) \/ SetupCreate(c)

Handle(c) ==
  \/ Serve(c) \/ Logout(c) \/ Verify(c) \/ Regenerate(c) \/ CreateUser(c)
  \/ UpdateUser(c) \/ DeleteUser(c)

Next ==
  \/ \E c \in Call :
       \/ SignIn(c) \/ Authorize(c) \/ Handle(c) \/ ResetAdmin(c)
       \/ SetPassword(c) \/ BumpAfterSet(c) \/ MintChanged(c)
       \/ Renew(c) \/ Respond(c) \/ Fail(c)
  \/ \E n \in Node : Fill(n)

Spec == Init /\ [][Next]_vars

-----------------------------------------------------------------------------
(***************************************************************************)
(* Safety.                                                                 *)
(***************************************************************************)

(* auth_layer takes the token once the account's last change is everywhere. *)
Good(tk) == Exists(tk.id) /\ tk.cv = users[tk.id].cv

(* Some call has replaced the password of i and not yet revoked the tokens, *)
(* or ended there.                                                         *)
Unrevoked(i) == i \in cut \/ \E c \in Call : At(c, "bump") /\ call[c].id = i

(* "A password change revokes every outstanding token": whatever logins    *)
(* were half way, no token got with a password that has been replaced      *)
(* stays good, once the change has run to its end.                         *)
OldPasswordOut ==
  \A tk \in tokens :
    (Good(tk) /\ tk.secret \notin {Sso, Changed, users[tk.id].pw}) => Unrevoked(tk.id)

(* A session ended by a sign-out, a password change, an administrator or a *)
(* removal is not revived: not by the renewal of a request that was being  *)
(* served, not by a cache, not by an account made anew under the name.     *)
RevokedForGood == \A tk \in tokens : tk.session \in ended => ~Good(tk)
=============================================================================
