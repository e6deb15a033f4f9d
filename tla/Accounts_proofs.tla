--------------------------- MODULE Accounts_proofs ---------------------------
(***************************************************************************)
(* A revoked session stays out, and so does a replaced password, for every *)
(* number of accounts, nodes, calls, passwords and sessions.               *)
(*                                                                         *)
(* A token and a call in flight both claim an account: its id, a           *)
(* credentials version, the secret it was got with and a session.  The     *)
(* invariant is that every claim is sound, those of calls included, for a  *)
(* call may still become a token.  DocStep is what a change of the         *)
(* document may do to an account so that old claims stay sound.            *)
(***************************************************************************)
EXTENDS Accounts, TLAPS

Claim(i, cv, secret, session) ==
  /\ i \in drawn
  /\ Exists(i) => cv <= users[i].cv
  /\ (Exists(i) /\ cv = users[i].cv /\ secret \notin {Sso, Changed, users[i].pw})
       => Unrevoked(i)
  /\ (session \in ended /\ Exists(i)) => cv # users[i].cv

TokensOK ==
  \A tk \in tokens :
    Claim(tk.id, tk.cv, tk.secret, tk.session) /\ tk.session <= sessions

CallOK(c) ==
  IF call[c].step = "create"
    THEN call[c].session = NoSession /\ call[c].cv = 1 /\ call[c].fresh = 1
  ELSE /\ Claim(call[c].id, call[c].cv, call[c].secret, call[c].session)
       /\ Exists(call[c].id) => call[c].fresh <= users[call[c].id].cv
       /\ call[c].session # NoSession => call[c].session \in SessionsOf(call[c].id)
       /\ call[c].step \in {"handle", "remint", "respond"} => call[c].session # NoSession

CallsOK == \A c \in Call : call[c] # Idle => CallOK(c)

CachesOK ==
  \A n \in Node : \A i \in DOMAIN cache[n] :
    i \in drawn /\ (Exists(i) => cache[n][i].cv <= users[i].cv)

(* A session belongs to one account.                                       *)
SessionsOK ==
  /\ ended \subseteq 1..sessions
  /\ \A s, t \in tokens : s.session = t.session => s.id = t.id

IInv == TypeOK /\ TokensOK /\ CallsOK /\ CachesOK /\ SessionsOK

-----------------------------------------------------------------------------
LEMMA InitIInv == Init => IInv
<1> SUFFICES ASSUME Init PROVE IInv  OBVIOUS
<1> USE DEF Init
<1>1. users \in UsersDoc /\ cache \in [Node -> UsersDoc]
  <2>1. NoUsers \in [{} -> User]  BY DEF NoUsers
  <2>2. NoUsers \in UsersDoc  BY <2>1 DEF UsersDoc
  <2> QED  BY <2>2
<1>2. TypeOK  BY <1>1, SessionBoundAssumption DEF TypeOK, NoUsers
<1>3. CachesOK  BY DEF CachesOK, NoUsers
<1>4. TokensOK /\ CallsOK /\ SessionsOK  BY DEF TokensOK, CallsOK, SessionsOK
<1> QED  BY <1>2, <1>3, <1>4 DEF IInv

(* What the document says of an account that exists.                       *)
LEMMA UsersType ==
  ASSUME NEW d \in UsersDoc
  PROVE  /\ DOMAIN d \subseteq Id
         /\ d \in [DOMAIN d -> User]
         /\ \A i \in DOMAIN d : d[i] \in User /\ d[i].cv \in 1..MaxVersion
                                /\ d[i].cv \in Nat /\ d[i].pw \in Password
                                /\ d[i].admin \in BOOLEAN
<1>1. PICK S \in SUBSET Id : d \in [S -> User]  BY DEF UsersDoc
<1>2. DOMAIN d = S  BY <1>1
<1> QED  BY <1>1, <1>2 DEF User

(* An account that is put keeps the document one.                          *)
LEMMA PutType ==
  ASSUME users \in UsersDoc, NEW i \in Id, NEW r \in User, Put(i, r)
  PROVE  /\ users' \in UsersDoc
         /\ DOMAIN users' = DOMAIN users \cup {i}
         /\ users'[i] = r
         /\ \A j \in DOMAIN users \ {i} : users'[j] = users[j]
<1>1. DOMAIN users \cup {i} \in SUBSET Id /\ users \in [DOMAIN users -> User]  BY UsersType
<1>2. users' \in [DOMAIN users \cup {i} -> User]  BY <1>1 DEF Put
<1> QED  BY <1>1, <1>2 DEF UsersDoc, Put

(* A document read through a cache says nothing newer than the store.      *)
LEMMA CachedDocsOK ==
  ASSUME IInv, NEW d \in CachedDocs, NEW i \in DOMAIN d
  PROVE  i \in drawn /\ i \in Id /\ d[i] \in User /\ (Exists(i) => d[i].cv <= users[i].cv)
<1>1. d \in UsersDoc  BY DEF CachedDocs, IInv, TypeOK
<1>2. i \in Id /\ d[i] \in User  BY <1>1, UsersType
<1>3. CASE d = users
  BY <1>1, <1>2, <1>3, UsersType DEF IInv, TypeOK, Exists
<1>4. CASE d \in {cache[n] : n \in Node}
  BY <1>2, <1>4 DEF IInv, CachesOK
<1> QED  BY <1>2, <1>3, <1>4 DEF CachedDocs

-----------------------------------------------------------------------------
(* What a change of the document does to account i: it goes for good, its  *)
(* version grows, or a new password comes with the call that will revoke.  *)
Kept(i) ==
  Exists(i)' =>
    /\ Exists(i)
    /\ users'[i].cv >= users[i].cv
    /\ users'[i].cv = users[i].cv =>
         /\ users'[i].pw = users[i].pw \/ Unrevoked(i)'
         /\ Unrevoked(i) => Unrevoked(i)'

DocStep ==
  /\ drawn \subseteq drawn'
  /\ \A i \in drawn : Kept(i)
  /\ \A i \in drawn : \A s \in SessionsOf(i) :
       (s \in ended' /\ s \notin ended /\ Exists(i)') => users'[i].cv # users[i].cv

(* Sound claims stay sound.                                                *)
LEMMA ClaimKept ==
  ASSUME IInv, TypeOK', DocStep, ended' \subseteq Nat,
         NEW i, NEW cv \in Nat, NEW secret, NEW session,
         session = NoSession \/ session \in SessionsOf(i),
         Claim(i, cv, secret, session)
  PROVE  Claim(i, cv, secret, session)'
<1>1. i \in drawn /\ i \in drawn' /\ Kept(i)  BY DEF Claim, DocStep
<1>2. ASSUME Exists(i)'
      PROVE  /\ cv <= users'[i].cv
             /\ (cv = users'[i].cv /\ secret \notin {Sso, Changed, users'[i].pw}) => Unrevoked(i)'
             /\ session \in ended' => cv # users'[i].cv
  <2>1. Exists(i) /\ users[i].cv \in Nat /\ users'[i].cv \in Nat /\ users'[i].cv >= users[i].cv
    BY <1>1, <1>2, UsersType DEF Kept, IInv, TypeOK, Exists
  <2>2. cv <= users[i].cv  BY <2>1 DEF Claim
  <2>3. cv = users'[i].cv => cv = users[i].cv /\ users'[i].cv = users[i].cv  BY <2>1, <2>2
  <2>4. (cv = users'[i].cv /\ secret \notin {Sso, Changed, users'[i].pw}) => Unrevoked(i)'
    BY <1>1, <1>2, <2>1, <2>3 DEF Kept, Claim
  <2>5. session \in ended' => session # NoSession  BY SessionBoundAssumption
  <2>6. session \in ended' => cv # users'[i].cv
    BY <1>1, <1>2, <2>1, <2>3, <2>5 DEF DocStep, Claim
  <2> QED  BY <2>1, <2>2, <2>4, <2>6
<1> QED  BY <1>1, <1>2 DEF Claim, Exists

(* The same for a call that does not move.                                 *)
LEMMA CallKept ==
  ASSUME IInv, TypeOK', DocStep, ended' \subseteq Nat, tokens \subseteq tokens',
         NEW c \in Call, call[c] # Idle, call'[c] = call[c]
  PROVE  CallOK(c)'
<1>1. call[c] \in CallState /\ CallOK(c)  BY DEF IInv, TypeOK, CallsOK
<1>2. CASE call[c].step = "create"  BY <1>1, <1>2 DEF CallOK
<1>3. CASE call[c].step # "create"
  <2> DEFINE r == call[c]
  <2>1. /\ Claim(r.id, r.cv, r.secret, r.session)
        /\ Exists(r.id) => r.fresh <= users[r.id].cv
        /\ r.session # NoSession => r.session \in SessionsOf(r.id)
        /\ r.step \in {"handle", "remint", "respond"} => r.session # NoSession
    BY <1>1, <1>3 DEF CallOK
  <2>2. r.cv \in Nat /\ r.fresh \in Nat  BY <1>1 DEF CallState
  <2>3. Claim(r.id, r.cv, r.secret, r.session)'
    <3> HIDE DEF r
    <3>1. Claim(r.id, r.cv, r.secret, r.session) /\ (r.session = NoSession \/ r.session \in SessionsOf(r.id))
      BY <2>1
    <3>2. \A i, cv, secret, session :
            (cv \in Nat /\ Claim(i, cv, secret, session) /\ (session = NoSession \/ session \in SessionsOf(i)))
              => Claim(i, cv, secret, session)'
      BY ClaimKept
    <3>3. r' = r  BY DEF r
    <3> QED  BY <2>2, <3>1, <3>2, <3>3
  <2>4. Exists(r.id)' => r.fresh <= users'[r.id].cv
    <3>1. ASSUME Exists(r.id)' PROVE r.fresh <= users'[r.id].cv
      <4>1. r.id \in drawn /\ Kept(r.id)  BY <2>1 DEF Claim, DocStep
      <4>2. Exists(r.id) /\ users[r.id].cv \in Nat /\ users'[r.id].cv \in Nat
            /\ users'[r.id].cv >= users[r.id].cv
        BY <3>1, <4>1, UsersType DEF Kept, IInv, TypeOK, Exists
      <4> QED  BY <2>1, <2>2, <4>2
    <3> QED  BY <3>1
  <2>5. r.session # NoSession => r.session \in SessionsOf(r.id)'  BY <2>1 DEF SessionsOf
  <2> QED  BY <1>3, <2>1, <2>3, <2>4, <2>5 DEF CallOK, Exists
<1> QED  BY <1>2, <1>3

(* What every step has to show of itself.                                  *)
LEMMA StepIInv ==
  ASSUME IInv, TypeOK', DocStep, ended' \subseteq 1..sessions', sessions <= sessions',
         tokens \subseteq tokens',
         \A tk \in tokens' \ tokens :
           Claim(tk.id, tk.cv, tk.secret, tk.session)' /\ tk.session <= sessions',
         \A s, t \in tokens' : s.session = t.session => s.id = t.id,
         \A c \in Call : call'[c] = call[c] \/ call'[c] = Idle \/ CallOK(c)',
         \A n \in Node : cache'[n] = cache[n] \/ cache'[n] = users'
  PROVE  IInv'
<1>1. sessions \in Nat /\ sessions' \in Nat /\ ended' \subseteq Nat
  BY SessionBoundAssumption DEF IInv, TypeOK
<1>2. TokensOK'
  <2> SUFFICES ASSUME NEW tk \in tokens
               PROVE  Claim(tk.id, tk.cv, tk.secret, tk.session)' /\ tk.session <= sessions'
    BY DEF TokensOK
  <2>1. tk \in Token /\ Claim(tk.id, tk.cv, tk.secret, tk.session) /\ tk.session <= sessions
    BY DEF IInv, TypeOK, TokensOK
  <2>2. tk.cv \in Nat /\ tk.session \in Nat  BY <2>1, SessionBoundAssumption DEF Token
  <2>3. tk.session \in SessionsOf(tk.id)  BY DEF SessionsOf
  <2>4. \A i, cv, secret, session :
          (cv \in Nat /\ Claim(i, cv, secret, session) /\ (session = NoSession \/ session \in SessionsOf(i)))
            => Claim(i, cv, secret, session)'
    BY <1>1, ClaimKept
  <2> QED  BY <1>1, <2>1, <2>2, <2>3, <2>4
<1>3. CallsOK'
  <2> SUFFICES ASSUME NEW c \in Call, call'[c] # Idle PROVE CallOK(c)'
    BY DEF CallsOK
  <2> QED  BY <1>1, CallKept
<1>4. CachesOK'
  <2> SUFFICES ASSUME NEW n \in Node, NEW i \in DOMAIN cache'[n]
               PROVE  i \in drawn' /\ (Exists(i)' => cache'[n][i].cv <= users'[i].cv)
    BY DEF CachesOK, Exists
  <2>1. CASE cache'[n] = users'
    <3>1. i \in DOMAIN users' /\ users' \in UsersDoc /\ i \in drawn'
      BY <2>1 DEF TypeOK
    <3>2. users'[i].cv \in Nat  BY <3>1, UsersType
    <3> QED  BY <2>1, <3>1, <3>2
  <2>2. CASE cache'[n] = cache[n]
    <3>1. cache[n] \in UsersDoc /\ i \in DOMAIN cache[n]  BY <2>2 DEF IInv, TypeOK
    <3>2. cache[n][i].cv \in Nat /\ i \in drawn /\ (Exists(i) => cache[n][i].cv <= users[i].cv)
      BY <3>1, UsersType DEF IInv, CachesOK
    <3>3. i \in drawn' /\ Kept(i)  BY <3>2 DEF DocStep
    <3>4. ASSUME Exists(i)' PROVE cache[n][i].cv <= users'[i].cv
      <4>1. Exists(i) /\ users'[i].cv >= users[i].cv /\ users[i].cv \in Nat /\ users'[i].cv \in Nat
        BY <3>3, <3>4, UsersType DEF Kept, IInv, TypeOK, Exists
      <4> QED  BY <3>2, <4>1
    <3> QED  BY <2>2, <3>3, <3>4
  <2> QED  BY <2>1, <2>2
<1>5. SessionsOK'  BY DEF SessionsOK
<1> QED  BY <1>2, <1>3, <1>4, <1>5 DEF IInv

(* A step that leaves the document and the calls about to revoke alone.    *)
LEMMA QuietDoc ==
  ASSUME IInv, UNCHANGED <<users, drawn, ended>>, cut \subseteq cut',
         \A c \in Call : At(c, "bump") =>
           (At(c, "bump")' /\ call'[c].id = call[c].id) \/ call[c].id \in cut' \/ ~Exists(call[c].id)
  PROVE  DocStep
<1>1. \A i : Exists(i) /\ Unrevoked(i) => Unrevoked(i)'  BY DEF Unrevoked
<1>2. \A i \in DOMAIN users : users[i].cv \in Nat  BY UsersType DEF IInv, TypeOK
<1> QED  BY <1>1, <1>2 DEF DocStep, Kept, Exists

-----------------------------------------------------------------------------
(* Types.                                                                  *)

LEMMA CallType ==
  ASSUME TypeOK, NEW c \in Call, call[c] # Idle
  PROVE  /\ call[c] \in CallState
         /\ call[c].step \in Step /\ call[c].id \in Id \cup {Idle}
         /\ call[c].cv \in 1..MaxVersion /\ call[c].fresh \in 1..MaxVersion
         /\ call[c].admin \in BOOLEAN /\ call[c].secret \in Secret
         /\ call[c].session \in 1..MaxSessions \cup {NoSession}
<1>1. call[c] \in CallState  BY DEF TypeOK
<1> QED  BY <1>1 DEF CallState

(* The ways a call moves.                                                  *)
LEMMA MoveType ==
  ASSUME TypeOK, NEW c \in Call, call[c] # Idle,
         \/ \E s \in Step : Advance(c, s)
         \/ Answer(c) \/ Finish(c) \/ Abandon(c)
         \/ \E cv \in 1..MaxVersion : Revoked(c, cv)
  PROVE  /\ call' \in [Call -> CallState \cup {Idle}]
         /\ \A d \in Call \ {c} : call'[d] = call[d]
<1> USE DEF TypeOK, Step
<1>1. call[c] \in CallState  BY CallType
<1>2. ASSUME NEW r \in CallState \cup {Idle}, call' = [call EXCEPT ![c] = r]
      PROVE  call' \in [Call -> CallState \cup {Idle}] /\ \A d \in Call \ {c} : call'[d] = call[d]
  BY <1>2
<1>3. CASE Finish(c)  BY <1>2, <1>3 DEF Finish
<1>4. ASSUME NEW s \in Step, Advance(c, s)
      PROVE  call' \in [Call -> CallState \cup {Idle}] /\ \A d \in Call \ {c} : call'[d] = call[d]
  <2>1. [call[c] EXCEPT !.step = s] \in CallState  BY <1>1 DEF CallState
  <2> QED  BY <1>2, <1>4, <2>1 DEF Advance
<1>5. CASE Answer(c)
  <2>1. [call[c] EXCEPT !.step = "respond", !.admin = FALSE, !.fresh = call[c].cv] \in CallState
    BY <1>1 DEF CallState
  <2> QED  BY <1>2, <1>5, <2>1 DEF Answer
<1>6. CASE Abandon(c)  BY <1>3, <1>5, <1>6 DEF Abandon
<1>7. ASSUME NEW cv \in 1..MaxVersion, Revoked(c, cv)
      PROVE  call' \in [Call -> CallState \cup {Idle}] /\ \A d \in Call \ {c} : call'[d] = call[d]
  <2>1. [call[c] EXCEPT !.step = "remint", !.fresh = cv] \in CallState
    BY <1>1 DEF CallState
  <2> QED  BY <1>2, <1>3, <1>7, <2>1 DEF Revoked
<1> QED  BY <1>3, <1>4, <1>5, <1>6, <1>7

(* A call that moves keeps its claim.                                      *)
LEMMA MoverOK ==
  ASSUME IInv, TypeOK', DocStep, ended' \subseteq Nat, tokens \subseteq tokens',
         NEW c \in Call, call[c] # Idle, call[c].step # "create",
         \/ Advance(c, "bump") \/ Finish(c) \/ Abandon(c)
         \/ Answer(c) /\ call[c].session # NoSession
         \/ \E cv \in 1..MaxVersion :
              Revoked(c, cv) /\ (call[c].id \in DOMAIN users' => cv <= users'[call[c].id].cv)
  PROVE  call'[c] = Idle \/ CallOK(c)'
<1> PICK r \in CallState : r = call[c]  BY CallType DEF IInv
<1>1. r.cv \in Nat /\ r.fresh \in Nat  BY DEF CallState
<1>2. /\ Claim(r.id, r.cv, r.secret, r.session)
      /\ Exists(r.id) => r.fresh <= users[r.id].cv
      /\ r.session # NoSession => r.session \in SessionsOf(r.id)
  BY DEF IInv, CallsOK, CallOK
<1>3. Claim(r.id, r.cv, r.secret, r.session)'
  <2>1. r.session = NoSession \/ r.session \in SessionsOf(r.id)  BY <1>2
  <2> QED  BY <1>1, <1>2, <2>1, ClaimKept
<1>4. Exists(r.id)' => r.fresh <= users'[r.id].cv /\ r.cv <= users'[r.id].cv
  <2> SUFFICES ASSUME Exists(r.id)' PROVE r.fresh <= users'[r.id].cv /\ r.cv <= users'[r.id].cv
    OBVIOUS
  <2>1. r.id \in drawn /\ Kept(r.id)  BY <1>2 DEF Claim, DocStep
  <2>2. Exists(r.id) /\ users[r.id].cv \in Nat /\ users'[r.id].cv \in Nat
        /\ users'[r.id].cv >= users[r.id].cv
    BY <2>1, UsersType DEF Kept, IInv, TypeOK, Exists
  <2> QED  BY <1>1, <1>2, <2>2 DEF Claim
<1>5. r.session # NoSession => r.session \in SessionsOf(r.id)'  BY <1>2 DEF SessionsOf
<1>6. call \in [Call -> CallState \cup {Idle}]  BY DEF IInv, TypeOK
<1>7. ASSUME NEW n \in CallState, call'[c] = n, n.step # "create",
             n.id = r.id, n.cv = r.cv, n.secret = r.secret, n.session = r.session,
             n.step = "bump" \/ r.session # NoSession,
             Exists(r.id)' => n.fresh <= users'[r.id].cv
      PROVE  CallOK(c)'
  BY <1>3, <1>5, <1>7 DEF CallOK, Exists, Claim, Unrevoked, At, SessionsOf
<1>8. CASE Finish(c)  BY <1>6, <1>8 DEF Finish
<1>9. CASE Answer(c) /\ r.session # NoSession
  <2> DEFINE n == [r EXCEPT !.step = "respond", !.admin = FALSE, !.fresh = r.cv]
  <2>1. call'[c] = n  BY <1>6, <1>9 DEF Answer
  <2>2. n \in CallState /\ n.step # "create" /\ n.id = r.id /\ n.cv = r.cv
        /\ n.secret = r.secret /\ n.session = r.session /\ n.fresh = r.cv
    BY <1>1 DEF CallState, Step
  <2> QED  BY <1>4, <1>9, <1>7, <2>1, <2>2
<1>10. CASE Abandon(c)  BY <1>8, <1>9, <1>10 DEF Abandon
<1>11. CASE Advance(c, "bump")
  <2> DEFINE n == [r EXCEPT !.step = "bump"]
  <2>1. call'[c] = n  BY <1>6, <1>11 DEF Advance
  <2>2. n \in CallState /\ n.step # "create" /\ n.id = r.id /\ n.cv = r.cv
        /\ n.secret = r.secret /\ n.session = r.session /\ n.fresh = r.fresh /\ n.step = "bump"
    BY <1>1 DEF CallState, Step
  <2> QED  BY <1>4, <1>7, <2>1, <2>2
<1>12. ASSUME NEW cv \in 1..MaxVersion, Revoked(c, cv), Exists(r.id)' => cv <= users'[r.id].cv
       PROVE  call'[c] = Idle \/ CallOK(c)'
  <2>1. CASE Finish(c)  BY <1>8, <2>1
  <2>2. CASE call[c].session # NoSession /\ call' = [call EXCEPT ![c].step = "remint", ![c].fresh = cv]
    <3> DEFINE n == [r EXCEPT !.step = "remint", !.fresh = cv]
    <3>1. call'[c] = n  BY <1>6, <2>2
    <3>2. n \in CallState  BY DEF CallState, Step
    <3>3. n.step # "create" /\ n.id = r.id /\ n.cv = r.cv
          /\ n.secret = r.secret /\ n.session = r.session /\ n.fresh = cv
      BY <1>1 DEF CallState
    <3> QED  BY <1>7, <1>12, <2>2, <3>1, <3>2, <3>3
  <2> QED  BY <1>12, <2>1, <2>2 DEF Revoked
<1> QED  BY <1>8, <1>9, <1>10, <1>11, <1>12 DEF Exists

-----------------------------------------------------------------------------
(* Steps that leave the document as it is.                                 *)

(* A call begins with a claim that is sound.                               *)
LEMMA BeginStep ==
  ASSUME IInv, NEW c \in Call, NEW r \in CallState, Begin(c, r),
         UNCHANGED <<doc, cache, tokens, sessions, history>>,
         IF r.step = "create" THEN r.session = NoSession /\ r.cv = 1 /\ r.fresh = 1
         ELSE /\ Claim(r.id, r.cv, r.secret, r.session)
              /\ Exists(r.id) => r.fresh <= users[r.id].cv
              /\ r.session # NoSession => r.session \in SessionsOf(r.id)
              /\ r.step \in {"handle", "remint", "respond"} => r.session # NoSession
  PROVE  IInv'
<1> USE DEF doc, history
<1>1. TypeOK'  BY DEF IInv, TypeOK, Begin
<1>2. DocStep  BY QuietDoc DEF Begin, At, IInv, TypeOK
<1>3. call[c] = Idle /\ call'[c] = r /\ \A d \in Call \ {c} : call'[d] = call[d]
  BY DEF Begin, IInv, TypeOK
<1>4. \A i : Unrevoked(i) => Unrevoked(i)'  BY <1>3 DEF Unrevoked, At
<1>5. CallOK(c)'
  BY <1>3, <1>4 DEF CallOK, Claim, Exists, SessionsOf
<1>6. \A d \in Call : call'[d] = call[d] \/ CallOK(d)'
  BY <1>3, <1>5
<1>7. /\ ended' \subseteq 1..sessions' /\ sessions <= sessions'
      /\ \A x, y \in tokens' : x.session = y.session => x.id = y.id
  BY DEF IInv, TypeOK, SessionsOK
<1> QED  BY <1>1, <1>2, <1>6, <1>7, StepIInv

(* A call goes on or ends; none that is about to revoke may.               *)
LEMMA MoveStep ==
  ASSUME IInv, NEW c \in Call, call[c] # Idle,
         UNCHANGED <<doc, cache, tokens, sessions, history>>,
         \/ Advance(c, "bump") \/ Finish(c) \/ Abandon(c)
         \/ Answer(c) /\ call[c].session # NoSession,
         call[c].step # "create",
         call[c].step = "bump" => ~Exists(call[c].id)
  PROVE  IInv'
<1> USE DEF doc, history
<1>1. call' \in [Call -> CallState \cup {Idle}] /\ \A d \in Call \ {c} : call'[d] = call[d]
  BY MoveType DEF IInv, Step
<1>2. TypeOK'  BY <1>1 DEF IInv, TypeOK
<1>3. \A d \in Call : At(d, "bump") =>
        (At(d, "bump")' /\ call'[d].id = call[d].id) \/ ~Exists(call[d].id)
  BY <1>1 DEF At
<1>4. DocStep  BY <1>3, QuietDoc
<1>5. /\ ended' \subseteq 1..sessions' /\ sessions <= sessions' /\ ended' \subseteq Nat
      /\ \A x, y \in tokens' : x.session = y.session => x.id = y.id
  BY SessionBoundAssumption DEF IInv, TypeOK, SessionsOK
<1>6. call'[c] = Idle \/ CallOK(c)'  BY <1>2, <1>4, <1>5, MoverOK
<1>7. \A d \in Call : call'[d] = call[d] \/ call'[d] = Idle \/ CallOK(d)'
  BY <1>1, <1>6
<1> QED  BY <1>2, <1>4, <1>5, <1>7, StepIInv

(* What a call knows of an account it has just read.                       *)
LEMMA KnowingType ==
  ASSUME TypeOK, NEW s \in Step, NEW i \in Id \cup {Idle}, NEW u, u.cv \in 1..MaxVersion,
         u.admin \in BOOLEAN, NEW secret \in Secret, NEW session \in 1..MaxSessions \cup {NoSession}
  PROVE  Knowing(s, i, u, secret, session) \in CallState
BY DEF Knowing, CallState

LEMMA SignInStep ==
  ASSUME IInv, NEW c \in Call,
         Authenticate(c) \/ SsoLogin(c) \/ SetupCheck(c) \/ Authorize(c) \/ ResetAdmin(c)
  PROVE  IInv'
<1> USE DEF Step, Secret
<1>1. NoSession \notin ended
  <2>1. \A e \in ended : e \in Nat  BY SessionBoundAssumption DEF IInv, TypeOK
  <2> QED  BY <2>1, SessionBoundAssumption
<1>2. CASE Authenticate(c)
  <2>1. PICK i \in DOMAIN users : Begin(c, Knowing("mint", i, users[i], users[i].pw, NoSession))
    BY <1>2 DEF Authenticate
  <2> DEFINE r == Knowing("mint", i, users[i], users[i].pw, NoSession)
  <2>2. i \in Id /\ i \in drawn /\ users[i].cv \in 1..MaxVersion /\ users[i].cv \in Nat
        /\ users[i].admin \in BOOLEAN /\ users[i].pw \in Password
    BY UsersType DEF IInv, TypeOK
  <2>3. r \in CallState  BY <2>2, KnowingType DEF IInv
  <2>4. r.step = "mint" /\ r.id = i /\ r.cv = users[i].cv /\ r.fresh = users[i].cv
        /\ r.secret = users[i].pw /\ r.session = NoSession
    BY DEF Knowing
  <2>5. Claim(i, users[i].cv, users[i].pw, NoSession)  BY <1>1, <2>2 DEF Claim
  <2> HIDE DEF r
  <2> QED  BY <1>2, <2>1, <2>2, <2>3, <2>4, <2>5, BeginStep DEF Authenticate, r
<1>3. CASE SsoLogin(c)
  <2>1. PICK d \in CachedDocs : \E i \in DOMAIN d : Begin(c, Knowing("mint", i, d[i], Sso, NoSession))
    BY <1>3 DEF SsoLogin
  <2>2. PICK i \in DOMAIN d : Begin(c, Knowing("mint", i, d[i], Sso, NoSession))  BY <2>1
  <2> DEFINE r == Knowing("mint", i, d[i], Sso, NoSession)
  <2>3. i \in Id /\ i \in drawn /\ d[i] \in User /\ (Exists(i) => d[i].cv <= users[i].cv)
    BY CachedDocsOK
  <2>4. d[i].cv \in 1..MaxVersion /\ d[i].admin \in BOOLEAN  BY <2>3 DEF User
  <2>5. r \in CallState  BY <2>3, <2>4, KnowingType DEF IInv
  <2>6. r.step = "mint" /\ r.id = i /\ r.cv = d[i].cv /\ r.fresh = d[i].cv
        /\ r.secret = Sso /\ r.session = NoSession
    BY DEF Knowing
  <2>7. Claim(i, d[i].cv, Sso, NoSession)  BY <1>1, <2>3 DEF Claim
  <2> HIDE DEF r
  <2> QED  BY <1>3, <2>2, <2>3, <2>5, <2>6, <2>7, BeginStep DEF SsoLogin, r
<1>4. CASE SetupCheck(c)
  <2> DEFINE u == [cv |-> 1, admin |-> TRUE]
             r == Knowing("create", Idle, u, Sso, NoSession)
  <2>1. u.cv \in 1..MaxVersion /\ u.admin \in BOOLEAN  BY SessionBoundAssumption
  <2>2. r \in CallState  BY <2>1, KnowingType DEF IInv
  <2>3. r.step = "create" /\ r.session = NoSession /\ r.cv = 1 /\ r.fresh = 1  BY DEF Knowing
  <2> QED  BY <1>4, <2>2, <2>3, BeginStep DEF SetupCheck
<1>5. CASE Authorize(c)
  <2>1. PICK tk \in tokens, d \in CachedDocs :
          /\ tk.id \in DOMAIN d /\ tk.cv = d[tk.id].cv
          /\ Begin(c, Knowing("handle", tk.id, d[tk.id], tk.secret, tk.session))
    BY <1>5 DEF Authorize
  <2> DEFINE r == Knowing("handle", tk.id, d[tk.id], tk.secret, tk.session)
  <2>2. tk.id \in Id /\ d[tk.id] \in User /\ (Exists(tk.id) => d[tk.id].cv <= users[tk.id].cv)
    BY <2>1, CachedDocsOK
  <2>3. d[tk.id].cv \in 1..MaxVersion /\ d[tk.id].admin \in BOOLEAN  BY <2>2 DEF User
  <2>4. tk.secret \in Secret /\ tk.session \in 1..MaxSessions  BY DEF IInv, TypeOK, Token
  <2>5. r \in CallState  BY <2>2, <2>3, <2>4, KnowingType DEF IInv
  <2>6. r.step = "handle" /\ r.id = tk.id /\ r.cv = tk.cv /\ r.fresh = tk.cv
        /\ r.secret = tk.secret /\ r.session = tk.session
    BY <2>1 DEF Knowing
  <2>7. Claim(tk.id, tk.cv, tk.secret, tk.session) /\ tk.session \in SessionsOf(tk.id)
    BY DEF IInv, TokensOK, SessionsOf
  <2>8. tk.session # NoSession  BY <2>4, SessionBoundAssumption
  <2> HIDE DEF r
  <2> QED  BY <1>5, <2>1, <2>2, <2>5, <2>6, <2>7, <2>8, BeginStep DEF Authorize, r
<1>6. CASE ResetAdmin(c)
  <2>1. PICK i \in DOMAIN users : Begin(c, Knowing("set", i, users[i], Changed, NoSession))
    BY <1>6 DEF ResetAdmin
  <2> DEFINE r == Knowing("set", i, users[i], Changed, NoSession)
  <2>2. i \in Id /\ i \in drawn /\ users[i].cv \in 1..MaxVersion /\ users[i].cv \in Nat
        /\ users[i].admin \in BOOLEAN
    BY UsersType DEF IInv, TypeOK
  <2>3. r \in CallState  BY <2>2, KnowingType DEF IInv
  <2>4. r.step = "set" /\ r.id = i /\ r.cv = users[i].cv /\ r.fresh = users[i].cv
        /\ r.secret = Changed /\ r.session = NoSession
    BY DEF Knowing
  <2>5. Claim(i, users[i].cv, Changed, NoSession)  BY <1>1, <2>2 DEF Claim
  <2> HIDE DEF r
  <2> QED  BY <1>6, <2>1, <2>2, <2>3, <2>4, <2>5, BeginStep DEF ResetAdmin, r
<1> QED  BY <1>2, <1>3, <1>4, <1>5, <1>6

(* Requests that change nothing, and what ends them.                       *)
LEMMA QuietStep ==
  ASSUME IInv, NEW c \in Call,
         \/ Serve(c) \/ Verify(c) \/ Respond(c)
         \/ SetPassword(c) /\ ~Exists(call[c].id)
         \/ BumpAfterSet(c) /\ ~Exists(call[c].id)
  PROVE  IInv'
<1> USE DEF At
<1>1. CASE Serve(c)
  <2>1. call[c].session # NoSession  BY <1>1 DEF Serve, IInv, CallsOK, CallOK
  <2> QED  BY <1>1, <2>1, MoveStep DEF Serve
<1>2. CASE Respond(c)  BY <1>2, MoveStep DEF Respond
<1>3. CASE SetPassword(c) /\ ~Exists(call[c].id)
  BY <1>3, MoveStep DEF SetPassword, Replace, doc, history
<1>4. CASE BumpAfterSet(c) /\ ~Exists(call[c].id)
  BY <1>4, MoveStep DEF BumpAfterSet, Bump, doc, history
<1>5. CASE Verify(c)
  <2> USE DEF doc, history
  <2>1. PICK r \in CallState : r = call[c]  BY <1>5, CallType DEF IInv, Verify
  <2>2. call' = [call EXCEPT ![c] = [r EXCEPT !.step = "set", !.admin = FALSE]]
    BY <1>5, <2>1 DEF Verify, IInv, TypeOK
  <2>3. [r EXCEPT !.step = "set", !.admin = FALSE] \in CallState  BY DEF CallState, Step
  <2> PICK n \in CallState : n = [r EXCEPT !.step = "set", !.admin = FALSE]  BY <2>3
  <2>4. n.step = "set" /\ n.id = r.id /\ n.cv = r.cv /\ n.secret = r.secret /\ n.session = r.session
        /\ n.fresh = r.fresh /\ r.step = "handle"
    BY <1>5, <2>1 DEF CallState, Verify
  <2>5. call'[c] = n /\ \A d \in Call \ {c} : call'[d] = call[d]  BY <2>2 DEF IInv, TypeOK
  <2>6. TypeOK'  BY <1>5, <2>2, <2>3 DEF IInv, TypeOK, Verify
  <2>7. DocStep
    <3>1. \A d \in Call : At(d, "bump") => At(d, "bump")' /\ call'[d].id = call[d].id
      BY <2>1, <2>4, <2>5
    <3> QED  BY <1>5, <3>1, QuietDoc DEF Verify
  <2>8. /\ ended' \subseteq 1..sessions' /\ sessions <= sessions'
        /\ \A x, y \in tokens' : x.session = y.session => x.id = y.id
    BY <1>5 DEF IInv, TypeOK, SessionsOK, Verify
  <2>9. CallOK(c)'
    <3>1. CallOK(c)  BY <1>5 DEF IInv, CallsOK, Verify
    <3>2. \A i : Unrevoked(i) => Unrevoked(i)'
      BY <1>5, <2>1, <2>4, <2>5 DEF Unrevoked, Verify
    <3>3. /\ Claim(r.id, r.cv, r.secret, r.session)
          /\ Exists(r.id) => r.fresh <= users[r.id].cv
          /\ r.session # NoSession => r.session \in SessionsOf(r.id)
      BY <2>1, <2>4, <3>1 DEF CallOK
    <3>4. Claim(r.id, r.cv, r.secret, r.session)'
      BY <1>5, <3>2, <3>3 DEF Claim, Exists, Verify
    <3>5. r.session # NoSession => r.session \in SessionsOf(r.id)'
      BY <1>5, <3>3 DEF SessionsOf, Verify
    <3> QED  BY <1>5, <2>4, <2>5, <3>3, <3>4, <3>5 DEF CallOK, Exists, Verify
  <2>10. \A d \in Call : call'[d] = call[d] \/ CallOK(d)'  BY <2>5, <2>9
  <2> QED  BY <1>5, <2>6, <2>7, <2>8, <2>10, StepIInv DEF Verify
<1> QED  BY <1>1, <1>2, <1>3, <1>4, <1>5

LEMMA FillStep ==
  ASSUME IInv, NEW n \in Node, Fill(n)
  PROVE  IInv'
<1> USE DEF doc, history, Fill
<1>1. TypeOK'  BY DEF IInv, TypeOK
<1>2. DocStep  BY QuietDoc DEF At
<1>3. /\ ended' \subseteq 1..sessions' /\ sessions <= sessions'
      /\ \A x, y \in tokens' : x.session = y.session => x.id = y.id
  BY DEF IInv, TypeOK, SessionsOK
<1>4. \A m \in Node : cache'[m] = cache[m] \/ cache'[m] = users'  BY DEF IInv, TypeOK
<1> QED  BY <1>1, <1>2, <1>3, <1>4, StepIInv

(* A call that dies between the new password and the revocation is noted.  *)
LEMMA FailStep ==
  ASSUME IInv, NEW c \in Call, Fail(c)
  PROVE  IInv'
<1> USE DEF doc, Fail, Finish
<1>1. call'[c] = Idle /\ \A d \in Call \ {c} : call'[d] = call[d]  BY DEF IInv, TypeOK
<1>2. TypeOK'
  <2>1. call[c].step = "bump" => call[c].id \in Id
    <3>1. call[c].step = "bump" => Claim(call[c].id, call[c].cv, call[c].secret, call[c].session)
      BY DEF IInv, CallsOK, CallOK
    <3> QED  BY <3>1 DEF Claim, IInv, TypeOK
  <2>2. cut' \subseteq Id  BY <2>1 DEF IInv, TypeOK
  <2> QED  BY <2>2 DEF IInv, TypeOK
<1>3. DocStep
  <2>1. \A d \in Call : At(d, "bump") =>
          (At(d, "bump")' /\ call'[d].id = call[d].id) \/ call[d].id \in cut'
    BY <1>1 DEF At
  <2>2. UNCHANGED <<users, drawn, ended>> /\ cut \subseteq cut'  OBVIOUS
  <2> QED  BY <2>1, <2>2, QuietDoc
<1>4. /\ ended' \subseteq 1..sessions' /\ sessions <= sessions'
      /\ \A x, y \in tokens' : x.session = y.session => x.id = y.id
  BY DEF IInv, TypeOK, SessionsOK
<1> QED  BY <1>1, <1>2, <1>3, <1>4, StepIInv

-----------------------------------------------------------------------------
(* Steps that hand out a token.                                            *)

(* A token of a new session, for a call whose claim on that version is     *)
(* sound.                                                                  *)
LEMMA NewTokenStep ==
  ASSUME IInv, NEW c \in Call, call[c] # Idle, NEW cv \in 1..MaxVersion, NEW secret \in Secret,
         NewToken(c, cv, secret), UNCHANGED <<doc, cache, history>>,
         call[c].step \notin {"create", "bump"},
         Claim(call[c].id, cv, secret, NoSession),
         (Answer(c) /\ call[c].session # NoSession) \/ Finish(c)
  PROVE  IInv'
<1> USE DEF doc, history
<1> PICK r \in CallState : r = call[c]  BY CallType DEF IInv
<1> DEFINE tk == [id |-> r.id, cv |-> cv, secret |-> secret, session |-> sessions + 1]
<1>1. sessions \in Nat /\ sessions < MaxSessions /\ MaxSessions \in Nat /\ sessions' = sessions + 1
      /\ tokens' = tokens \cup {tk}
  BY SessionBoundAssumption DEF NewToken, IInv, TypeOK
<1>2. r.id \in Id  BY DEF Claim, IInv, TypeOK
<1>3. tk \in Token /\ tk.id = r.id /\ tk.cv = cv /\ tk.secret = secret /\ tk.session = sessions + 1
  BY <1>1, <1>2 DEF Token
<1> HIDE DEF tk
<1>4. call' \in [Call -> CallState \cup {Idle}] /\ \A d \in Call \ {c} : call'[d] = call[d]
  BY MoveType DEF IInv
<1>5. TypeOK'  BY <1>1, <1>3, <1>4 DEF IInv, TypeOK
<1>6. \A d \in Call : At(d, "bump") => At(d, "bump")' /\ call'[d].id = call[d].id
  BY <1>4 DEF At
<1>7. DocStep  BY <1>6, QuietDoc
<1>8. \A x \in tokens : x.session <= sessions /\ x.session \in Nat
  BY SessionBoundAssumption DEF IInv, TypeOK, TokensOK, Token
<1>9. ended' \subseteq 1..sessions' /\ sessions <= sessions' /\ ended' \subseteq Nat
  BY <1>1 DEF IInv, SessionsOK
<1>10. \A x, y \in tokens' : x.session = y.session => x.id = y.id
  BY <1>1, <1>3, <1>8 DEF IInv, SessionsOK
<1>11. \A i : Unrevoked(i) => Unrevoked(i)'  BY <1>6 DEF Unrevoked
<1>12. Claim(r.id, cv, secret, sessions + 1)
  <2>1. sessions + 1 \notin ended  BY <1>1 DEF IInv, SessionsOK
  <2> QED  BY <2>1 DEF Claim
<1>14. \A x \in tokens' \ tokens :
        Claim(x.id, x.cv, x.secret, x.session)' /\ x.session <= sessions'
  BY <1>1, <1>3, <1>11, <1>12 DEF Claim, Exists
<1>15. call'[c] = Idle \/ CallOK(c)'  BY <1>1, <1>5, <1>7, <1>9, MoverOK
<1>16. \A d \in Call : call'[d] = call[d] \/ call'[d] = Idle \/ CallOK(d)'  BY <1>4, <1>15
<1> QED  BY <1>1, <1>5, <1>7, <1>9, <1>10, <1>14, <1>16, StepIInv

LEMMA MintStep ==
  ASSUME IInv, NEW c \in Call, MintLogin(c) \/ MintChanged(c)
  PROVE  IInv'
<1> USE DEF At
<1>1. NoSession \notin ended
  <2>1. \A e \in ended : e \in Nat  BY SessionBoundAssumption DEF IInv, TypeOK
  <2> QED  BY <2>1, SessionBoundAssumption
<1>2. call[c] # Idle /\ call[c].step \in {"mint", "remint"}  BY DEF MintLogin, MintChanged
<1>3. CallOK(c)  BY <1>2 DEF IInv, CallsOK
<1>4. /\ Claim(call[c].id, call[c].cv, call[c].secret, call[c].session)
      /\ Exists(call[c].id) => call[c].fresh <= users[call[c].id].cv
  BY <1>2, <1>3 DEF CallOK
<1>5. CASE MintLogin(c)
  <2>1. Claim(call[c].id, call[c].cv, call[c].secret, NoSession)  BY <1>1, <1>4 DEF Claim
  <2>2. call[c].cv \in 1..MaxVersion /\ call[c].secret \in Secret  BY <1>2, CallType DEF IInv
  <2> QED  BY <1>2, <1>5, <2>1, <2>2, NewTokenStep DEF MintLogin
<1>6. CASE MintChanged(c)
  <2>1. Claim(call[c].id, call[c].fresh, Changed, NoSession)  BY <1>1, <1>4 DEF Claim
  <2>2. call[c].fresh \in 1..MaxVersion /\ Changed \in Secret  BY <1>2, CallType DEF IInv, Secret
  <2>3. call[c].session # NoSession  BY <1>3, <1>6 DEF MintChanged, CallOK
  <2> QED  BY <1>2, <1>6, <2>1, <2>2, <2>3, NewTokenStep DEF MintChanged
<1> QED  BY <1>5, <1>6

(* A renewed token claims what its call does.                              *)
LEMMA RenewStep ==
  ASSUME IInv, NEW c \in Call, Renew(c)
  PROVE  IInv'
<1> USE DEF doc, history, Renew
<1> PICK r \in CallState : r = call[c]  BY CallType DEF IInv, At
<1> PICK tk : tk = [id |-> r.id, cv |-> r.cv, secret |-> r.secret, session |-> r.session]
  OBVIOUS
<1>1. tokens' = tokens \cup {tk}  BY DEF RenewWith
<1>2. /\ Claim(r.id, r.cv, r.secret, r.session)
      /\ r.session # NoSession /\ r.session \in SessionsOf(r.id)
  BY DEF At, IInv, CallsOK, CallOK
<1>3. r.id \in Id  BY <1>2 DEF Claim, IInv, TypeOK
<1>4. tk \in Token /\ tk.id = r.id /\ tk.cv = r.cv /\ tk.secret = r.secret /\ tk.session = r.session
  BY <1>2, <1>3 DEF Token, CallState
<1>5. call'[c] = Idle /\ \A d \in Call \ {c} : call'[d] = call[d]  BY DEF Finish, IInv, TypeOK
<1>6. TypeOK'  BY <1>1, <1>4 DEF IInv, TypeOK, Finish
<1>7. \A d \in Call : At(d, "bump") => At(d, "bump")' /\ call'[d].id = call[d].id
  BY <1>5 DEF At
<1>8. DocStep  BY <1>7, QuietDoc
<1>9. PICK t \in tokens : t.id = r.id /\ t.session = r.session  BY <1>2 DEF SessionsOf
<1>10. /\ ended' \subseteq 1..sessions' /\ sessions <= sessions'
       /\ tk.session <= sessions'
       /\ \A x, y \in tokens' : x.session = y.session => x.id = y.id
  BY <1>1, <1>4, <1>9 DEF IInv, TypeOK, SessionsOK, TokensOK
<1>11. \A i : Unrevoked(i) => Unrevoked(i)'  BY <1>7 DEF Unrevoked
<1>12. Claim(tk.id, tk.cv, tk.secret, tk.session)'
  <2>1. Claim(r.id, r.cv, r.secret, r.session)'  BY <1>2, <1>11 DEF Claim, Exists
  <2> QED  BY <1>4, <2>1
<1>13. \A x \in tokens' \ tokens :
        Claim(x.id, x.cv, x.secret, x.session)' /\ x.session <= sessions'
  <2>1. \A x \in tokens' \ tokens : x = tk  BY <1>1
  <2> QED  BY <1>10, <1>12, <2>1
<1> QED  BY <1>1, <1>5, <1>6, <1>8, <1>10, <1>13, StepIInv

-----------------------------------------------------------------------------
(* Steps that change the document.                                         *)

Moves(c) ==
  \/ Advance(c, "bump")
  \/ Answer(c) /\ call[c].session # NoSession
  \/ \E cv \in 1..MaxVersion :
       Revoked(c, cv) /\ (call[c].id \in DOMAIN users' => cv <= users'[call[c].id].cv)

LEMMA DocMove ==
  ASSUME IInv, NEW c \in Call, call[c] # Idle, call[c].step # "create",
         Moves(c), UNCHANGED <<cache, tokens, sessions>>,
         users' \in UsersDoc, drawn' \subseteq Id, DOMAIN users' \subseteq drawn',
         passwords' \in 0..MaxPasswords, cut' \subseteq Id, ended' \subseteq 1..sessions,
         DocStep
  PROVE  IInv'
<1>1. call' \in [Call -> CallState \cup {Idle}] /\ \A d \in Call \ {c} : call'[d] = call[d]
  BY MoveType DEF IInv, Moves, Step
<1>2. sessions \in Nat /\ sessions <= MaxSessions /\ MaxSessions \in Nat
  BY SessionBoundAssumption DEF IInv, TypeOK
<1>3. ended' \subseteq 1..MaxSessions /\ ended' \subseteq Nat  BY <1>2
<1>4. TypeOK'  BY <1>1, <1>3 DEF IInv, TypeOK
<1>5. call'[c] = Idle \/ CallOK(c)'  BY <1>3, <1>4, MoverOK DEF Moves
<1>6. \A d \in Call : call'[d] = call[d] \/ call'[d] = Idle \/ CallOK(d)'  BY <1>1, <1>5
<1>7. \A x, y \in tokens' : x.session = y.session => x.id = y.id  BY DEF IInv, SessionsOK
<1> QED  BY <1>2, <1>4, <1>6, <1>7, StepIInv

(* Only account i is touched, and the tokens of i are no longer good, or   *)
(* its record but for the password and the role is as it was.              *)
LEMMA OneAccount ==
  ASSUME IInv, NEW c \in Call, NEW i \in Id, users' \in UsersDoc,
         \A d \in Call \ {c} : call'[d] = call[d],
         At(c, "bump") => call[c].id = i,
         drawn \subseteq drawn', cut \ {i} \subseteq cut',
         \A j \in drawn \ {i} : Exists(j)' => Exists(j) /\ users'[j] = users[j],
         \/ End(i) /\ UNCHANGED tokens /\ (Exists(i)' => Exists(i) /\ users'[i].cv > users[i].cv)
         \/ /\ UNCHANGED ended
            /\ Exists(i)' /\ i \in drawn =>
                 /\ Exists(i) /\ users'[i].cv = users[i].cv
                 /\ users'[i].pw = users[i].pw \/ Unrevoked(i)'
                 /\ Unrevoked(i) => Unrevoked(i)'
  PROVE  DocStep
<1>1. \A j : j # i /\ Unrevoked(j) => Unrevoked(j)'  BY DEF Unrevoked, At
<1>2. \A j \in DOMAIN users : users[j].cv \in Nat  BY UsersType DEF IInv, TypeOK
<1>3. \A j \in drawn \ {i} : Kept(j)  BY <1>1, <1>2 DEF Kept, Exists
<1>4. CASE End(i) /\ UNCHANGED tokens /\ (Exists(i)' => Exists(i) /\ users'[i].cv > users[i].cv)
  <2>1. ASSUME Exists(i)' PROVE Exists(i) /\ users'[i].cv > users[i].cv /\ users[i].cv \in Nat
    BY <1>2, <1>4, <2>1 DEF Exists
  <2>2. Exists(i)' => users'[i].cv # users[i].cv /\ users'[i].cv >= users[i].cv
    <3>1. Exists(i)' => users'[i].cv \in Nat  BY UsersType DEF Exists
    <3> QED  BY <2>1, <3>1
  <2>3. Kept(i)  BY <2>1, <2>2 DEF Kept
  <2>4. \A j \in drawn : \A s \in SessionsOf(j) : s \in ended' /\ s \notin ended => j = i
    BY <1>4 DEF End, SessionsOf, IInv, SessionsOK
  <2> QED  BY <1>3, <2>2, <2>3, <2>4 DEF DocStep, Exists
<1>5. CASE /\ UNCHANGED ended
           /\ Exists(i)' /\ i \in drawn =>
                /\ Exists(i) /\ users'[i].cv = users[i].cv
                /\ users'[i].pw = users[i].pw \/ Unrevoked(i)'
                /\ Unrevoked(i) => Unrevoked(i)'
  <2>1. i \in drawn => Kept(i)  BY <1>2, <1>5 DEF Kept, Exists
  <2> QED  BY <1>3, <1>5, <2>1 DEF DocStep
<1> QED  BY <1>4, <1>5

(* What an account's sessions are numbered.                                *)
LEMMA EndType ==
  ASSUME IInv, NEW i, End(i)
  PROVE  ended' \subseteq 1..sessions /\ cut' \subseteq Id
<1>1. \A tk \in tokens : tk.session \in 1..sessions
  BY SessionBoundAssumption DEF IInv, TypeOK, TokensOK, Token
<1> QED  BY <1>1 DEF End, SessionsOf, IInv, SessionsOK, TypeOK

(* The tokens of an account are revoked.                                   *)
LEMMA BumpDoc ==
  ASSUME IInv, NEW c \in Call, NEW i, Bump(i), UNCHANGED tokens,
         \A d \in Call \ {c} : call'[d] = call[d],
         At(c, "bump") => call[c].id = i
  PROVE  /\ DocStep
         /\ users' \in UsersDoc /\ drawn' \subseteq Id /\ DOMAIN users' \subseteq drawn'
         /\ passwords' \in 0..MaxPasswords /\ cut' \subseteq Id /\ ended' \subseteq 1..sessions
         /\ i \in DOMAIN users' /\ users'[i].cv = users[i].cv + 1
         /\ users[i].cv + 1 \in 1..MaxVersion
<1>1. i \in DOMAIN users /\ i \in Id /\ users[i] \in User /\ users[i].cv < MaxVersion
      /\ users[i].cv \in 1..MaxVersion /\ MaxVersion \in Nat
  BY UsersType, SessionBoundAssumption DEF Bump, Exists, IInv, TypeOK
<1> DEFINE r == [users[i] EXCEPT !.cv = @ + 1]
<1>2. users[i].cv + 1 \in 1..MaxVersion  BY <1>1
<1>3. r \in User /\ r.cv = users[i].cv + 1  BY <1>1, <1>2 DEF User
<1>4. Put(i, r)  BY DEF Bump
<1> HIDE DEF r
<1>5. /\ users' \in UsersDoc /\ DOMAIN users' = DOMAIN users \cup {i} /\ users'[i] = r
      /\ \A j \in DOMAIN users \ {i} : users'[j] = users[j]
  BY <1>1, <1>3, <1>4, PutType DEF IInv, TypeOK
<1>6. users'[i].cv > users[i].cv  BY <1>1, <1>3, <1>5
<1>7. \A j \in drawn \ {i} : Exists(j)' => Exists(j) /\ users'[j] = users[j]
  BY <1>5 DEF Exists
<1>8. DocStep  BY <1>1, <1>5, <1>6, <1>7, OneAccount DEF Bump, End, Exists
<1>9. ended' \subseteq 1..sessions /\ cut' \subseteq Id  BY EndType DEF Bump
<1> QED  BY <1>1, <1>2, <1>3, <1>5, <1>8, <1>9 DEF Bump, IInv, TypeOK

LEMMA RevokeStep ==
  ASSUME IInv, NEW c \in Call, Logout(c) \/ (BumpAfterSet(c) /\ Exists(call[c].id))
  PROVE  IInv'
<1> USE DEF At
<1> PICK i : i = call[c].id  OBVIOUS
<1>1. call[c] # Idle /\ call[c].step \in {"handle", "bump"} /\ Bump(i)
      /\ UNCHANGED <<cache, tokens, sessions>>
  BY DEF Logout, BumpAfterSet
<1>2. CallOK(c)  BY <1>1 DEF IInv, CallsOK
<1>3. Answer(c) \/ Finish(c) \/ \E cv \in 1..MaxVersion : Revoked(c, cv)
  <2>1. users[i].cv + 1 \in 1..MaxVersion
    <3>1. i \in DOMAIN users /\ users[i].cv \in 1..MaxVersion /\ users[i].cv < MaxVersion /\ MaxVersion \in Nat
      BY <1>1, UsersType, SessionBoundAssumption DEF Bump, Exists, IInv, TypeOK
    <3> QED  BY <3>1
  <2> QED  BY <2>1 DEF Logout, BumpAfterSet
<1>4. \A d \in Call \ {c} : call'[d] = call[d]  BY <1>1, <1>3, MoveType DEF IInv
<1>5. /\ DocStep
      /\ users' \in UsersDoc /\ drawn' \subseteq Id /\ DOMAIN users' \subseteq drawn'
      /\ passwords' \in 0..MaxPasswords /\ cut' \subseteq Id /\ ended' \subseteq 1..sessions
      /\ i \in DOMAIN users' /\ users'[i].cv = users[i].cv + 1
      /\ users[i].cv + 1 \in 1..MaxVersion
  BY <1>1, <1>4, BumpDoc
<1>6. Moves(c)
  <2>1. CASE Logout(c)  BY <1>1, <1>2, <2>1 DEF Logout, CallOK, Moves
  <2>2. CASE BumpAfterSet(c) /\ Exists(call[c].id)
    <3>1. Revoked(c, users[i].cv + 1)  BY <2>2 DEF BumpAfterSet
    <3>2. users[i].cv + 1 <= users'[i].cv
      <4>1. users[i].cv + 1 \in Nat  BY <1>5
      <4> QED  BY <1>5, <4>1
    <3> QED  BY <1>5, <3>1, <3>2 DEF Moves
  <2> QED  BY <2>1, <2>2
<1> QED  BY <1>1, <1>5, <1>6, DocMove

(* A handler's answer leaves every call alone but its own.                 *)
LEMMA AnswerFacts ==
  ASSUME IInv, NEW c \in Call, At(c, "handle"), Answer(c)
  PROVE  /\ call[c] # Idle /\ call[c].step # "create" /\ ~At(c, "bump")
         /\ call' \in [Call -> CallState \cup {Idle}]
         /\ \A d \in Call \ {c} : call'[d] = call[d]
         /\ Moves(c)
         /\ \A i : Unrevoked(i) /\ i \in cut' => Unrevoked(i)'
<1> USE DEF At
<1>1. call[c].session # NoSession  BY DEF IInv, CallsOK, CallOK
<1>2. call' \in [Call -> CallState \cup {Idle}] /\ \A d \in Call \ {c} : call'[d] = call[d]
  BY MoveType DEF IInv
<1> QED  BY <1>1, <1>2 DEF Moves, Unrevoked

LEMMA AdminStep ==
  ASSUME IInv, NEW c \in Call,
         Regenerate(c) \/ CreateUser(c) \/ UpdateUser(c) \/ DeleteUser(c)
  PROVE  IInv'
<1>1. At(c, "handle") /\ Answer(c) /\ UNCHANGED <<cache, tokens, sessions>>
  BY DEF Regenerate, CreateUser, UpdateUser, DeleteUser
<1>2. /\ call[c] # Idle /\ call[c].step # "create" /\ ~At(c, "bump") /\ Moves(c)
      /\ \A d \in Call \ {c} : call'[d] = call[d]
  BY <1>1, AnswerFacts
<1>3. passwords \in 0..MaxPasswords /\ MaxPasswords \in Nat /\ MaxVersion \in Nat \ {0}
  BY SessionBoundAssumption DEF IInv, TypeOK
<1>4. \A i : i \in cut' /\ Unrevoked(i) => Unrevoked(i)'  BY <1>1, AnswerFacts
<1>5. CASE Regenerate(c)
  <2>1. PICK i \in DOMAIN users :
          /\ passwords < MaxPasswords /\ users[i].cv < MaxVersion
          /\ Put(i, [users[i] EXCEPT !.pw = passwords + 1, !.cv = @ + 1])
          /\ passwords' = passwords + 1
          /\ End(i)
    BY <1>5 DEF Regenerate
  <2>2. i \in Id /\ users[i] \in User /\ users[i].cv \in 1..MaxVersion
    BY UsersType DEF IInv, TypeOK
  <2>3. passwords + 1 \in Password /\ users[i].cv + 1 \in 1..MaxVersion
    BY <1>3, <2>1, <2>2 DEF Password
  <2> PICK r : r = [users[i] EXCEPT !.pw = passwords + 1, !.cv = @ + 1]  OBVIOUS
  <2>4. r \in User /\ r.cv = users[i].cv + 1  BY <2>2, <2>3 DEF User
  <2>5. /\ users' \in UsersDoc /\ DOMAIN users' = DOMAIN users \cup {i} /\ users'[i] = r
        /\ \A j \in DOMAIN users \ {i} : users'[j] = users[j]
    BY <2>1, <2>2, <2>4, PutType DEF IInv, TypeOK
  <2>6. users'[i].cv > users[i].cv  BY <2>2, <2>4, <2>5
  <2>7. \A j \in drawn \ {i} : Exists(j)' => Exists(j) /\ users'[j] = users[j]
    BY <2>5 DEF Exists
  <2>8. drawn' = drawn  BY <1>5 DEF Regenerate
  <2>9. DocStep  BY <1>1, <1>2, <2>1, <2>2, <2>5, <2>6, <2>7, <2>8, OneAccount DEF End, Exists
  <2>10. ended' \subseteq 1..sessions /\ cut' \subseteq Id  BY <2>1, EndType
  <2>11. passwords' \in 0..MaxPasswords  BY <1>3, <2>1
  <2> QED  BY <1>1, <1>2, <2>5, <2>8, <2>9, <2>10, <2>11, DocMove DEF IInv, TypeOK
<1>6. CASE CreateUser(c)
  <2>1. PICK i \in Id, admin \in BOOLEAN : Create(i, admin)  BY <1>6 DEF CreateUser
  <2>2. i \notin drawn /\ passwords' = passwords + 1 /\ passwords + 1 \in Password
        /\ drawn' = drawn \cup {i} /\ UNCHANGED history
    BY <1>3, <1>6, <2>1 DEF Create, CreateUser, Password
  <2> PICK r : r = [admin |-> admin, pw |-> passwords + 1, cv |-> 1]  OBVIOUS
  <2>3. r \in User  BY <1>3, <2>2 DEF User
  <2>4. /\ users' \in UsersDoc /\ DOMAIN users' = DOMAIN users \cup {i}
        /\ \A j \in DOMAIN users \ {i} : users'[j] = users[j]
    BY <2>1, <2>3, PutType DEF Create, IInv, TypeOK
  <2>5. \A j \in drawn \ {i} : Exists(j)' => Exists(j) /\ users'[j] = users[j]
    BY <2>4 DEF Exists
  <2>6. DocStep  BY <1>2, <2>2, <2>4, <2>5, OneAccount DEF history
  <2>7. passwords' \in 0..MaxPasswords /\ drawn' \subseteq Id /\ DOMAIN users' \subseteq drawn'
        /\ cut' \subseteq Id /\ ended' \subseteq 1..sessions
    BY <1>3, <2>1, <2>2, <2>4 DEF Create, IInv, TypeOK, history, SessionsOK
  <2> QED  BY <1>1, <1>2, <2>4, <2>6, <2>7, DocMove
<1>7. CASE UpdateUser(c)
  <2>1. PICK i \in DOMAIN users, admin \in BOOLEAN : Put(i, [users[i] EXCEPT !.admin = admin])
    BY <1>7 DEF UpdateUser
  <2>2. UNCHANGED <<drawn, passwords, history>>  BY <1>7 DEF UpdateUser
  <2>3. i \in Id /\ users[i] \in User  BY UsersType DEF IInv, TypeOK
  <2> PICK r : r = [users[i] EXCEPT !.admin = admin]  OBVIOUS
  <2>4. r \in User /\ r.cv = users[i].cv /\ r.pw = users[i].pw  BY <2>3 DEF User
  <2>5. /\ users' \in UsersDoc /\ DOMAIN users' = DOMAIN users \cup {i} /\ users'[i] = r
        /\ \A j \in DOMAIN users \ {i} : users'[j] = users[j]
    BY <2>1, <2>3, <2>4, PutType DEF IInv, TypeOK
  <2>6. \A j \in drawn \ {i} : Exists(j)' => Exists(j) /\ users'[j] = users[j]
    BY <2>5 DEF Exists
  <2>7. Unrevoked(i) => Unrevoked(i)'
    BY <1>2, <2>2 DEF Unrevoked, At, history
  <2>8. Exists(i) /\ users'[i].cv = users[i].cv /\ users'[i].pw = users[i].pw
    BY <2>4, <2>5 DEF Exists
  <2>9. DocStep  BY <1>2, <2>2, <2>3, <2>5, <2>6, <2>7, <2>8, OneAccount DEF history
  <2>10. drawn' \subseteq Id /\ DOMAIN users' \subseteq drawn' /\ passwords' \in 0..MaxPasswords
         /\ cut' \subseteq Id /\ ended' \subseteq 1..sessions
    BY <2>2, <2>5 DEF IInv, TypeOK, history, SessionsOK
  <2> QED  BY <1>1, <1>2, <2>5, <2>9, <2>10, DocMove
<1>8. CASE DeleteUser(c)
  <2>1. PICK i \in DOMAIN users : users' = [j \in DOMAIN users \ {i} |-> users[j]] /\ End(i)
    BY <1>8 DEF DeleteUser
  <2>2. UNCHANGED <<drawn, passwords>>  BY <1>8 DEF DeleteUser
  <2>3. i \in Id /\ DOMAIN users \subseteq Id /\ \A j \in DOMAIN users : users[j] \in User
    BY UsersType DEF IInv, TypeOK
  <2>4. DOMAIN users' = DOMAIN users \ {i} /\ users' \in [DOMAIN users \ {i} -> User]
        /\ \A j \in DOMAIN users' : users'[j] = users[j]
    BY <2>1, <2>3
  <2>5. users' \in UsersDoc  BY <2>3, <2>4 DEF UsersDoc
  <2>6. \A j \in drawn \ {i} : Exists(j)' => Exists(j) /\ users'[j] = users[j]
    BY <2>4 DEF Exists
  <2>7. ~Exists(i)'  BY <2>4 DEF Exists
  <2>8. DocStep  BY <1>1, <1>2, <2>1, <2>2, <2>3, <2>5, <2>6, <2>7, OneAccount DEF End
  <2>9. ended' \subseteq 1..sessions /\ cut' \subseteq Id  BY <2>1, EndType
  <2>10. drawn' \subseteq Id /\ DOMAIN users' \subseteq drawn' /\ passwords' \in 0..MaxPasswords
    BY <2>2, <2>4 DEF IInv, TypeOK
  <2> QED  BY <1>1, <1>2, <2>5, <2>8, <2>9, <2>10, DocMove
<1> QED  BY <1>5, <1>6, <1>7, <1>8

(* The password is replaced: the tokens it had got are still good, and the *)
(* call that will revoke them is on its way.                               *)
LEMMA SetPasswordStep ==
  ASSUME IInv, NEW c \in Call, SetPassword(c), Exists(call[c].id)
  PROVE  IInv'
<1> PICK i : i = call[c].id  OBVIOUS
<1>1. /\ call[c] # Idle /\ call[c].step = "set" /\ Replace(i) /\ Advance(c, "bump")
      /\ UNCHANGED <<cache, tokens, sessions>>
  BY DEF SetPassword, At
<1>2. call' \in [Call -> CallState \cup {Idle}] /\ \A d \in Call \ {c} : call'[d] = call[d]
  BY <1>1, MoveType DEF IInv, Step
<1>3. i \in DOMAIN users /\ i \in Id /\ users[i] \in User
      /\ passwords + 1 \in Password /\ passwords + 1 \in 0..MaxPasswords
  BY <1>1, UsersType, SessionBoundAssumption DEF Replace, Exists, IInv, TypeOK, Password
<1> PICK r : r = [users[i] EXCEPT !.pw = passwords + 1]  OBVIOUS
<1>4. r \in User /\ r.cv = users[i].cv  BY <1>3 DEF User
<1>5. Put(i, r)  BY <1>1 DEF Replace
<1>6. /\ users' \in UsersDoc /\ DOMAIN users' = DOMAIN users \cup {i} /\ users'[i] = r
      /\ \A j \in DOMAIN users \ {i} : users'[j] = users[j]
  BY <1>3, <1>4, <1>5, PutType DEF IInv, TypeOK
<1>7. \A j \in drawn \ {i} : Exists(j)' => Exists(j) /\ users'[j] = users[j]
  BY <1>6 DEF Exists
<1>8. Unrevoked(i)'
  <2>1. call[c] \in CallState  BY <1>1, CallType DEF IInv
  <2>2. call'[c] = [call[c] EXCEPT !.step = "bump"]  BY <1>1 DEF Advance, IInv, TypeOK
  <2>3. call'[c] \in CallState /\ call'[c].step = "bump" /\ call'[c].id = i
    BY <2>1, <2>2 DEF CallState, Step
  <2> QED  BY <2>3, IdleAssumption DEF Unrevoked, At
<1>9. UNCHANGED <<drawn, history>>  BY <1>1 DEF Replace
<1>10. DocStep
  <2>1. Exists(i) /\ users'[i].cv = users[i].cv  BY <1>3, <1>4, <1>6 DEF Exists
  <2> QED  BY <1>1, <1>2, <1>3, <1>6, <1>7, <1>8, <1>9, <2>1, OneAccount DEF history, At
<1>11. /\ drawn' \subseteq Id /\ DOMAIN users' \subseteq drawn' /\ passwords' \in 0..MaxPasswords
       /\ cut' \subseteq Id /\ ended' \subseteq 1..sessions
  BY <1>1, <1>3, <1>6, <1>9 DEF Replace, IInv, TypeOK, history, SessionsOK
<1>12. Moves(c)  BY <1>1 DEF Moves
<1>13. call[c].step # "create"  BY <1>1
<1> QED  BY <1>1, <1>6, <1>10, <1>11, <1>12, <1>13, DocMove

(* The first account is made, and its call knows it.                       *)
LEMMA SetupCreateStep ==
  ASSUME IInv, NEW c \in Call, SetupCreate(c)
  PROVE  IInv'
<1> USE DEF history
<1>1. call[c] # Idle /\ call[c].step = "create"  BY DEF SetupCreate, At
<1>2. PICK i \in Id :
        /\ Create(i, TRUE)
        /\ call' = [call EXCEPT ![c].step = "mint", ![c].id = i, ![c].secret = passwords + 1]
  BY DEF SetupCreate
<1>3. UNCHANGED <<cache, tokens, sessions, history>>  BY DEF SetupCreate
<1>4. i \notin drawn /\ passwords' = passwords + 1 /\ passwords + 1 \in Password
      /\ passwords + 1 \in 0..MaxPasswords /\ drawn' = drawn \cup {i}
  BY <1>2, SessionBoundAssumption DEF Create, Password, IInv, TypeOK
<1> PICK r \in CallState : r = call[c]  BY <1>1, CallType DEF IInv
<1> PICK n : n = [r EXCEPT !.step = "mint", !.id = i, !.secret = passwords + 1]  OBVIOUS
<1>5. r.session = NoSession  BY <1>1 DEF IInv, CallsOK, CallOK
<1>6. n \in CallState /\ n.step = "mint" /\ n.id = i /\ n.secret = passwords + 1
      /\ n.cv = r.cv /\ n.fresh = r.fresh /\ n.session = NoSession
  BY <1>4, <1>5 DEF CallState, Step, Secret
<1>7. call'[c] = n /\ \A d \in Call \ {c} : call'[d] = call[d]
  BY <1>2 DEF IInv, TypeOK
<1> PICK u : u = [admin |-> TRUE, pw |-> passwords + 1, cv |-> 1]  OBVIOUS
<1>8. u \in User /\ u.pw = passwords + 1 /\ u.cv = 1
  BY <1>4, SessionBoundAssumption DEF User
<1>9. /\ users' \in UsersDoc /\ DOMAIN users' = DOMAIN users \cup {i} /\ users'[i] = u
      /\ \A j \in DOMAIN users \ {i} : users'[j] = users[j]
  BY <1>2, <1>8, PutType DEF Create, IInv, TypeOK
<1>10. TypeOK'
  BY <1>2, <1>3, <1>4, <1>6, <1>7, <1>9 DEF IInv, TypeOK
<1>11. DocStep
  <2>1. \A j \in drawn \ {i} : Exists(j)' => Exists(j) /\ users'[j] = users[j]
    BY <1>9 DEF Exists
  <2> QED  BY <1>1, <1>3, <1>4, <1>7, <1>9, <2>1, OneAccount DEF At
<1>12. CallOK(c)'
  <2>1. r.cv = 1 /\ r.fresh = 1  BY <1>1 DEF IInv, CallsOK, CallOK
  <2>2. NoSession \notin ended'
    <3>1. \A e \in ended : e \in Nat  BY SessionBoundAssumption DEF IInv, TypeOK
    <3> QED  BY <1>3, <3>1, SessionBoundAssumption
  <2>3. Claim(i, 1, u.pw, NoSession)'
    BY <1>4, <1>8, <1>9, <2>2 DEF Claim, Exists
  <2> QED  BY <1>6, <1>7, <1>8, <1>9, <2>1, <2>3 DEF CallOK, Exists
<1>13. \A d \in Call : call'[d] = call[d] \/ CallOK(d)'  BY <1>7, <1>12
<1>14. /\ ended' \subseteq 1..sessions' /\ sessions <= sessions'
       /\ \A x, y \in tokens' : x.session = y.session => x.id = y.id
  BY <1>3 DEF IInv, TypeOK, SessionsOK
<1> QED  BY <1>3, <1>10, <1>11, <1>13, <1>14, StepIInv

-----------------------------------------------------------------------------
LEMMA NextIInv == IInv /\ [Next]_vars => IInv'
<1> SUFFICES ASSUME IInv, [Next]_vars PROVE IInv'  OBVIOUS
<1>1. ASSUME NEW c \in Call,
             \/ SignIn(c) \/ Authorize(c) \/ Handle(c) \/ ResetAdmin(c)
             \/ SetPassword(c) \/ BumpAfterSet(c) \/ MintChanged(c)
             \/ Renew(c) \/ Respond(c) \/ Fail(c)
      PROVE  IInv'
  <2>1. CASE SignIn(c)
    BY <2>1, SignInStep, MintStep, SetupCreateStep DEF SignIn
  <2>2. CASE Authorize(c) \/ ResetAdmin(c)  BY <2>2, SignInStep
  <2>3. CASE Handle(c)
    BY <2>3, QuietStep, RevokeStep, AdminStep DEF Handle
  <2>4. CASE SetPassword(c)  BY <2>4, QuietStep, SetPasswordStep
  <2>5. CASE BumpAfterSet(c)  BY <2>5, QuietStep, RevokeStep
  <2>6. CASE MintChanged(c)  BY <2>6, MintStep
  <2>7. CASE Renew(c)  BY <2>7, RenewStep
  <2>8. CASE Respond(c)  BY <2>8, QuietStep
  <2>9. CASE Fail(c)  BY <2>9, FailStep
  <2> QED  BY <1>1, <2>1, <2>2, <2>3, <2>4, <2>5, <2>6, <2>7, <2>8, <2>9
<1>2. CASE \E n \in Node : Fill(n)  BY <1>2, FillStep
<1>3. CASE UNCHANGED vars
  <2>1. TypeOK'  BY <1>3 DEF IInv, TypeOK, vars
  <2>2. TokensOK' /\ SessionsOK'
    BY <1>3 DEF IInv, TokensOK, SessionsOK, vars, Claim, Exists, Unrevoked, At
  <2>3. CallsOK'
    BY <1>3 DEF IInv, CallsOK, CallOK, vars, Claim, Exists, Unrevoked, At, SessionsOf
  <2>4. CachesOK'  BY <1>3 DEF IInv, CachesOK, vars, Exists
  <2> QED  BY <2>1, <2>2, <2>3, <2>4 DEF IInv
<1> QED  BY <1>1, <1>2, <1>3 DEF Next

(* Every reachable state: claims are sound, caches say nothing newer than  *)
(* the store, and a session belongs to one account.                        *)
THEOREM ClaimsSound == Spec => []IInv
BY InitIInv, NextIInv, PTL DEF Spec

(* control/users.rs, http/auth.rs: the values stay what their types say.   *)
THEOREM TypeCorrect == Spec => []TypeOK
<1>1. IInv => TypeOK  BY DEF IInv
<1> QED  BY <1>1, ClaimsSound, PTL

(* No token got with a password that has been replaced stays good once the *)
(* change has run to its end, whatever sign-ins were half way.             *)
THEOREM ReplacedPasswordOut == Spec => []OldPasswordOut
<1>1. IInv => OldPasswordOut
  BY DEF IInv, TokensOK, Claim, OldPasswordOut, Good
<1> QED  BY <1>1, ClaimsSound, PTL

(* A session that was ended is never good again, whatever request of it    *)
(* was being served and whatever caches were stale.                        *)
THEOREM RevokedStaysOut == Spec => []RevokedForGood
<1>1. IInv => RevokedForGood
  BY DEF IInv, TokensOK, Claim, RevokedForGood, Good
<1> QED  BY <1>1, ClaimsSound, PTL
=============================================================================
