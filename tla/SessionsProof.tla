---------------------------- MODULE SessionsProof ----------------------------
(***************************************************************************)
(* A spent refresh token is refused for every number of calls, every life  *)
(* of a session and every clock.  The argument: a call is spent when its   *)
(* session can no longer be found alive, which nothing undoes, for a call  *)
(* writes its own session once and before anyone can present it; and a     *)
(* call that arrived with a spent token is kept off the way to "put".  The *)
(* browser implements these sessions, and leaves no fetch behind.          *)
(***************************************************************************)
EXTENDS WebClient, TLAPS

\* Nobody will find the session of s alive again.
Dead(s) == callPc[s] \in Issued /\ ~(session[s].state = "live" /\ time < session[s].until)

SpentAreDead == \A s \in spent : Dead(s)

\* A token is presented only once its session has been written.
PresentedAreIssued ==
  \A c \in Call : presented[c] # NoToken => callPc[presented[c].id] \in Issued

\* A call that looks at a session or revokes it was given a token.
TokenAtHand ==
  \A c \in Call : callPc[c] \in {"get", "revoke get", "revoke set"} => presented[c] # NoToken

\* A call that arrived with a spent token does not get to write a session.
StaleIsKeptOff ==
  \A c \in stale :
    /\ callPc[c] \notin {"idle", "verify", "put", "rotated"}
    /\ callPc[c] \in {"revoke get", "revoke set"} => resume[c] # "put"
    /\ presented[c].id \in spent

SessionsInv ==
  SessionsTypeOK /\ SpentAreDead /\ PresentedAreIssued /\ TokenAtHand /\ StaleIsKeptOff

LEMMA SessionsInitInv == SessionsInit => SessionsInv
BY SessionsAssumption
   DEF SessionsInit, SessionsInv, SessionsTypeOK, SpentAreDead, PresentedAreIssued, TokenAtHand,
       StaleIsKeptOff, Key, NoKey, Token, NoToken

\* No call has number 0, so no token without a session is spent.
LEMMA TokenIds ==
  ASSUME NEW t \in Token
  PROVE  /\ t # NoToken => t.id \in Call
         /\ t = NoToken => t.id \notin Call
         /\ t.genuine \in BOOLEAN
<1>1. CASE t = NoToken
  BY <1>1, SessionsAssumption DEF NoToken, Call
<1>2. CASE t # NoToken
  BY <1>2 DEF Token
<1>. QED
  BY <1>1, <1>2

LEMMA KeyTyped ==
  ASSUME NEW k \in Key PROVE k.expires \in Nat /\ k.until \in Nat
<1>1. CASE k = NoKey
  BY <1>1 DEF NoKey
<1>2. CASE k # NoKey
  BY <1>2 DEF Key
<1>. QED
  BY <1>1, <1>2

\* What every arriving call does.
LEMMA ArriveInv ==
  ASSUME SessionsInv, NEW c \in Call, NEW t \in ClientTokens, NEW label,
         Arrive(c, t, label), calledAt' \in [Call -> Nat],
         resume' \in [Call -> {"refused", "logged out", "put"}],
         \A d \in Call : d # c => resume'[d] = resume[d],
         \/ label = "verify" /\ t = NoToken
         \/ label \in {"refused", "logged out"} /\ t = NoToken
         \/ label = "get" /\ t # NoToken
         \/ label = "revoke get" /\ t # NoToken /\ resume'[c] = "logged out"
  PROVE  SessionsInv'
<1>1. /\ callPc[c] = "idle"
      /\ callPc' = [callPc EXCEPT ![c] = label]
      /\ presented' = [presented EXCEPT ![c] = t]
      /\ stale' = IF t.id \in spent THEN stale \cup {c} ELSE stale
      /\ UNCHANGED <<time, session, spent>>
  BY DEF Arrive, Fresh, Reach
<1>2. t \in Token /\ (t # NoToken => callPc[t.id] \in Issued)
  BY DEF ClientTokens
<1>3. SessionsTypeOK'
  BY <1>1, <1>2 DEF SessionsInv, SessionsTypeOK, Answered, Awaiting
<1>4. /\ callPc'[c] = label /\ presented'[c] = t
      /\ \A d \in Call : d # c => callPc'[d] = callPc[d] /\ presented'[d] = presented[d]
  BY <1>1 DEF SessionsInv, SessionsTypeOK
<1>5. \A s \in Call : callPc[s] \in Issued => s # c /\ callPc'[s] = callPc[s]
  BY <1>1, <1>4 DEF Issued
<1>6. SpentAreDead'
  BY <1>1, <1>5 DEF SessionsInv, SessionsTypeOK, SpentAreDead, Dead
<1>7. PresentedAreIssued'
  <2>1. \A d \in Call : presented[d] # NoToken => presented[d].id \in Call
    BY TokenIds DEF SessionsInv, SessionsTypeOK
  <2>2. t # NoToken => callPc'[t.id] \in Issued
    BY <1>2, <1>5, TokenIds
  <2>3. ASSUME NEW d \in Call, d # c, presented[d] # NoToken
        PROVE  callPc'[presented[d].id] \in Issued
    BY <1>5, <2>1, <2>3 DEF SessionsInv, PresentedAreIssued
  <2>. QED
    BY <1>4, <2>2, <2>3 DEF PresentedAreIssued
<1>8. TokenAtHand'
  BY <1>4 DEF SessionsInv, TokenAtHand
<1>9. StaleIsKeptOff'
  <2>1. c \notin stale
    BY <1>1 DEF SessionsInv, StaleIsKeptOff
  <2>2. t.id \in spent => t # NoToken
    BY <1>2, TokenIds DEF SessionsInv, SessionsTypeOK
  <2>3. stale \subseteq Call
    BY DEF SessionsInv, SessionsTypeOK
  <2>4. ASSUME NEW d \in stale
        PROVE  /\ callPc'[d] \notin {"idle", "verify", "put", "rotated"}
               /\ callPc'[d] \in {"revoke get", "revoke set"} => resume'[d] # "put"
               /\ presented'[d].id \in spent'
    <3>1. d \in Call /\ d # c
      BY <2>1, <2>3
    <3>2. /\ callPc'[d] = callPc[d] /\ resume'[d] = resume[d]
          /\ presented'[d] = presented[d] /\ spent' = spent
      BY <1>1, <1>4, <3>1
    <3>. QED
      BY <3>2 DEF SessionsInv, StaleIsKeptOff
  <2>5. ASSUME t.id \in spent
        PROVE  /\ callPc'[c] \notin {"idle", "verify", "put", "rotated"}
               /\ callPc'[c] \in {"revoke get", "revoke set"} => resume'[c] # "put"
               /\ presented'[c].id \in spent'
    <3>1. label = "get" \/ (label = "revoke get" /\ resume'[c] = "logged out")
      BY <2>2, <2>5
    <3>2. callPc'[c] = label /\ presented'[c] = t /\ spent' = spent
      BY <1>1, <1>4
    <3>. QED
      BY <2>5, <3>1, <3>2
  <2>. QED
    BY <1>1, <2>4, <2>5 DEF StaleIsKeptOff
<1>. QED
  BY <1>3, <1>6, <1>7, <1>8, <1>9 DEF SessionsInv

LEMMA LoginInv ==
  ASSUME SessionsInv, NEW c \in Call, Login(c) PROVE SessionsInv'
<1>1. NoToken \in ClientTokens
  BY DEF ClientTokens, Token
<1>. QED
  BY <1>1, ArriveInv DEF Login, SessionsInv, SessionsTypeOK

LEMMA RefreshInv ==
  ASSUME SessionsInv, NEW c \in Call, NEW t \in ClientTokens, Refresh(c, t) PROVE SessionsInv'
<1>1. /\ calledAt' \in [Call -> Nat] /\ UNCHANGED resume
      /\ resume \in [Call -> {"refused", "logged out", "put"}]
  BY DEF Refresh, SessionsInv, SessionsTypeOK
<1>2. CASE t = NoToken
  BY <1>1, <1>2, ArriveInv DEF Refresh
<1>3. CASE t # NoToken
  BY <1>1, <1>3, ArriveInv DEF Refresh
<1>. QED
  BY <1>2, <1>3

LEMMA LogoutInv ==
  ASSUME SessionsInv, NEW c \in Call, NEW t \in ClientTokens, Logout(c, t) PROVE SessionsInv'
<1>1. /\ calledAt' \in [Call -> Nat]
      /\ resume' \in [Call -> {"refused", "logged out", "put"}]
      /\ resume'[c] = "logged out"
      /\ \A d \in Call : d # c => resume'[d] = resume[d]
  BY DEF Logout, SessionsInv, SessionsTypeOK
<1>2. CASE t = NoToken
  BY <1>1, <1>2, ArriveInv DEF Logout
<1>3. CASE t # NoToken
  BY <1>1, <1>3, ArriveInv DEF Logout
<1>. QED
  BY <1>2, <1>3

\* A step of a call under way that writes no session: what it may reach, and
\* that nothing becomes spent but a session that is dead.
LEMMA ProceedInv ==
  ASSUME SessionsInv, NEW c \in Call, NEW label \in Answered \cup Awaiting,
         callPc[c] \in Awaiting, Reach(c, label),
         UNCHANGED <<time, session, presented, stale>>,
         calledAt' \in [Call -> Nat],
         resume' \in [Call -> {"refused", "logged out", "put"}],
         \A d \in Call : d # c => resume'[d] = resume[d],
         spent \subseteq spent', spent' \subseteq Call, \A s \in spent' \ spent : Dead(s),
         label \in {"get", "revoke get", "revoke set"} => presented[c] # NoToken,
         c \in stale => /\ label \notin {"verify", "put", "rotated"}
                        /\ label \in {"revoke get", "revoke set"} => resume'[c] # "put"
  PROVE  SessionsInv'
<1>1. /\ callPc'[c] = label
      /\ \A d \in Call : d # c => callPc'[d] = callPc[d]
      /\ callPc' \in [Call -> Answered \cup Awaiting \cup {"idle"}]
  BY DEF Reach, SessionsInv, SessionsTypeOK
<1>2. SessionsTypeOK'
  BY <1>1 DEF SessionsInv, SessionsTypeOK
<1>3. \A s \in Call : callPc[s] \in Issued => s # c /\ callPc'[s] = callPc[s]
  BY <1>1 DEF Issued, Awaiting
<1>4. SpentAreDead'
  BY <1>3 DEF SessionsInv, SpentAreDead, Dead
<1>5. PresentedAreIssued'
  <2>1. \A d \in Call : presented[d] # NoToken => presented[d].id \in Call
    BY TokenIds DEF SessionsInv, SessionsTypeOK
  <2>. QED
    BY <1>3, <2>1 DEF SessionsInv, PresentedAreIssued
<1>6. TokenAtHand'
  BY <1>1 DEF SessionsInv, TokenAtHand
<1>7. StaleIsKeptOff'
  <2>1. stale \subseteq Call
    BY DEF SessionsInv, SessionsTypeOK
  <2>2. label # "idle"
    BY DEF Answered, Awaiting, Issued
  <2>. QED
    BY <1>1, <2>1, <2>2 DEF SessionsInv, StaleIsKeptOff
<1>. QED
  BY <1>2, <1>4, <1>5, <1>6, <1>7 DEF SessionsInv

LEMMA VerifyInv ==
  ASSUME SessionsInv, NEW c \in Call, VerifyIdToken(c) PROVE SessionsInv'
<1>1. PICK label \in {"put", "denied"} : Reach(c, label)
  BY DEF VerifyIdToken
<1>2. /\ callPc[c] = "verify"
      /\ UNCHANGED <<time, session, presented, resume, spent, stale>>
      /\ calledAt' \in [Call -> Nat]
      /\ resume \in [Call -> {"refused", "logged out", "put"}]
      /\ spent \subseteq Call
  BY DEF VerifyIdToken, SessionsInv, SessionsTypeOK
<1>3. c \notin stale
  BY <1>2 DEF SessionsInv, StaleIsKeptOff
<1>4. label \in Answered \cup Awaiting /\ callPc[c] \in Awaiting
  BY <1>1, <1>2 DEF Answered, Awaiting, Issued
<1>. QED
  BY <1>1, <1>2, <1>3, <1>4, ProceedInv

\* The session of a spent token is not found alive, so it is not rotated.
LEMMA CheckSessionInv ==
  ASSUME SessionsInv, NEW c \in Call, CheckSession(c) PROVE SessionsInv'
<1>1. /\ callPc[c] = "get"
      /\ presented[c] # NoToken
      /\ presented[c].id \in Call
      /\ UNCHANGED <<time, session, presented, calledAt, spent, stale>>
      /\ calledAt \in [Call -> Nat]
      /\ resume \in [Call -> {"refused", "logged out", "put"}]
      /\ spent \subseteq Call
  BY TokenIds DEF CheckSession, SessionsInv, SessionsTypeOK, TokenAtHand
<1>2. callPc[c] \in Awaiting /\ {"refused", "revoke get"} \subseteq Answered \cup Awaiting
  BY <1>1 DEF Answered, Awaiting
<1>3. CASE Reach(c, "refused") /\ UNCHANGED resume
  BY <1>1, <1>2, <1>3, ProceedInv
<1>4. CASE /\ KeyThere(presented[c].id)
           /\ Reach(c, "revoke get")
           /\ resume' = [resume EXCEPT ![c] =
                IF /\ session[presented[c].id].state = "live"
                   /\ session[presented[c].id].expires > calledAt[c]
                   /\ presented[c].genuine
                THEN "put" ELSE "refused"]
  <2>1. ASSUME c \in stale PROVE session[presented[c].id].state # "live"
    BY <1>4, <2>1 DEF SessionsInv, StaleIsKeptOff, SpentAreDead, Dead, KeyThere
  <2>2. /\ resume' \in [Call -> {"refused", "logged out", "put"}]
        /\ \A d \in Call : d # c => resume'[d] = resume[d]
        /\ c \in stale => resume'[c] # "put"
    BY <1>1, <1>4, <2>1
  <2>. QED
    BY <1>1, <1>2, <1>4, <2>2, ProceedInv
<1>. QED
  BY <1>3, <1>4 DEF CheckSession

\* A session whose key is gone is spent, and dead.
LEMMA RevokeGetInv ==
  ASSUME SessionsInv, NEW c \in Call, RevokeGet(c) PROVE SessionsInv'
<1>1. /\ callPc[c] = "revoke get"
      /\ presented[c] # NoToken
      /\ presented[c].id \in Call
      /\ callPc[presented[c].id] \in Issued
      /\ UNCHANGED <<time, session, presented, calledAt, resume, stale>>
      /\ calledAt \in [Call -> Nat]
      /\ resume \in [Call -> {"refused", "logged out", "put"}]
      /\ spent \subseteq Call
      /\ c \in stale => resume[c] # "put"
  BY TokenIds DEF RevokeGet, SessionsInv, SessionsTypeOK, TokenAtHand, PresentedAreIssued,
     StaleIsKeptOff
<1>2. callPc[c] \in Awaiting
      /\ {"refused", "logged out", "put", "revoke set"} \subseteq Answered \cup Awaiting
  BY <1>1 DEF Answered, Awaiting
<1>3. CASE Reach(c, "revoke set") /\ UNCHANGED spent
  BY <1>1, <1>2, <1>3, ProceedInv
<1>4. CASE /\ ~KeyThere(presented[c].id)
           /\ Reach(c, resume[c])
           /\ spent' = spent \cup {presented[c].id}
  <2>1. Dead(presented[c].id)
    BY <1>1, <1>4 DEF Dead, KeyThere
  <2>2. /\ resume[c] \in {"refused", "logged out", "put"}
        /\ resume[c] \in Answered \cup Awaiting
    BY <1>1, <1>2
  <2>3. \A s \in spent' \ spent : Dead(s)
    BY <1>4, <2>1
  <2>4. spent \subseteq spent' /\ spent' \subseteq Call
    BY <1>1, <1>4
  <2>. QED
    BY <1>1, <1>2, <1>4, <2>2, <2>3, <2>4, ProceedInv
<1>. QED
  BY <1>3, <1>4 DEF RevokeGet

\* A session that is written revoked, or deleted, is dead.
LEMMA RevokeSetInv ==
  ASSUME SessionsInv, NEW c \in Call, RevokeSet(c) PROVE SessionsInv'
<1>. DEFINE s == presented[c].id
<1>1. /\ callPc[c] = "revoke set"
      /\ presented[c] # NoToken
      /\ s \in Call
      /\ callPc[s] \in Issued
      /\ UNCHANGED <<time, presented, calledAt, resume, stale>>
      /\ spent' = spent \cup {s}
      /\ spent \subseteq Call
      /\ c \in stale => resume[c] # "put"
      /\ resume[c] \in {"refused", "logged out", "put"}
      /\ Reach(c, resume[c])
  BY TokenIds DEF RevokeSet, SessionsInv, SessionsTypeOK, TokenAtHand, PresentedAreIssued,
     StaleIsKeptOff
<1>2. /\ session' \in [Call -> Key]
      /\ session'[s].state # "live"
      /\ \A d \in Call : d # s => session'[d] = session[d]
  <2>1. session[s] \in Key /\ session[s].expires \in Nat
    BY <1>1, KeyTyped DEF SessionsInv, SessionsTypeOK
  <2>2. [state |-> "revoked", expires |-> session[s].expires, until |-> session[s].expires]
          \in Key /\ NoKey \in Key
    BY <2>1 DEF Key
  <2>3. NoKey.state # "live"
    BY DEF NoKey
  <2>4. PICK k \in Key : session' = [session EXCEPT ![s] = k] /\ k.state # "live"
    BY <2>1, <2>2, <2>3 DEF RevokeSet
  <2>. QED
    BY <1>1, <2>4 DEF SessionsInv, SessionsTypeOK
<1>. HIDE DEF s
<1>3. /\ callPc'[c] = resume[c]
      /\ \A d \in Call : d # c => callPc'[d] = callPc[d]
      /\ callPc' \in [Call -> Answered \cup Awaiting \cup {"idle"}]
  BY <1>1 DEF Reach, SessionsInv, SessionsTypeOK, Answered, Awaiting
<1>4. \A d \in Call : callPc[d] \in Issued => d # c /\ callPc'[d] = callPc[d]
  BY <1>1, <1>3 DEF Issued
<1>5. SessionsTypeOK'
  BY <1>1, <1>2, <1>3 DEF SessionsInv, SessionsTypeOK
<1>6. SpentAreDead'
  BY <1>1, <1>2, <1>4 DEF SessionsInv, SpentAreDead, Dead
<1>7. PresentedAreIssued'
  <2>1. \A d \in Call : presented[d] # NoToken => presented[d].id \in Call
    BY TokenIds DEF SessionsInv, SessionsTypeOK
  <2>. QED
    BY <1>1, <1>4, <2>1 DEF SessionsInv, PresentedAreIssued
<1>8. TokenAtHand'
  BY <1>1, <1>3 DEF SessionsInv, TokenAtHand
<1>9. StaleIsKeptOff'
  BY <1>1, <1>3 DEF SessionsInv, SessionsTypeOK, StaleIsKeptOff
<1>. QED
  BY <1>5, <1>6, <1>7, <1>8, <1>9 DEF SessionsInv

\* A call writes its own session, which nobody has presented yet.
LEMMA PutSessionInv ==
  ASSUME SessionsInv, NEW c \in Call, PutSession(c) PROVE SessionsInv'
<1>1. /\ callPc[c] = "put"
      /\ UNCHANGED <<time, presented, calledAt, resume, spent, stale>>
      /\ callPc'[c] \in Issued
      /\ \A d \in Call : d # c => callPc'[d] = callPc[d]
      /\ callPc' \in [Call -> Answered \cup Awaiting \cup {"idle"}]
  BY DEF PutSession, Reach, SessionsInv, SessionsTypeOK, Issued, Answered
<1>2. /\ session' \in [Call -> Key]
      /\ \A d \in Call : d # c => session'[d] = session[d]
  <2>1. calledAt[c] \in Nat /\ time \in Nat /\ RefreshTtl \in Nat
    BY SessionsAssumption DEF SessionsInv, SessionsTypeOK
  <2>2. [state |-> "live", expires |-> calledAt[c] + RefreshTtl, until |-> time + RefreshTtl]
          \in Key
    BY <2>1 DEF Key
  <2>. QED
    BY <2>2 DEF PutSession, SessionsInv, SessionsTypeOK
<1>3. \A d \in Call : callPc[d] \in Issued => d # c /\ callPc'[d] = callPc[d]
  BY <1>1 DEF Issued
<1>4. SessionsTypeOK'
  BY <1>1, <1>2 DEF SessionsInv, SessionsTypeOK
<1>5. SpentAreDead'
  BY <1>1, <1>2, <1>3 DEF SessionsInv, SessionsTypeOK, SpentAreDead, Dead
<1>6. PresentedAreIssued'
  <2>1. \A d \in Call : presented[d] # NoToken => presented[d].id \in Call
    BY TokenIds DEF SessionsInv, SessionsTypeOK
  <2>. QED
    BY <1>1, <1>3, <2>1 DEF SessionsInv, PresentedAreIssued
<1>7. TokenAtHand'
  BY <1>1 DEF SessionsInv, TokenAtHand, Issued
<1>8. StaleIsKeptOff'
  <2>1. c \notin stale
    BY <1>1 DEF SessionsInv, StaleIsKeptOff
  <2>. QED
    BY <1>1, <2>1 DEF SessionsInv, SessionsTypeOK, StaleIsKeptOff
<1>. QED
  BY <1>4, <1>5, <1>6, <1>7, <1>8 DEF SessionsInv

LEMMA FailInv ==
  ASSUME SessionsInv, NEW c \in Call, Fail(c) PROVE SessionsInv'
<1>1. /\ callPc[c] \in Awaiting
      /\ UNCHANGED <<time, session, presented, calledAt, resume, spent, stale>>
      /\ calledAt \in [Call -> Nat]
      /\ resume \in [Call -> {"refused", "logged out", "put"}]
      /\ spent \subseteq Call
      /\ Reach(c, "failed") \/ Reach(c, "refused")
      /\ {"failed", "refused"} \subseteq Answered \cup Awaiting
  BY DEF Fail, SessionsInv, SessionsTypeOK, Answered
<1>2. CASE Reach(c, "failed")
  BY <1>1, <1>2, ProceedInv
<1>3. CASE Reach(c, "refused")
  BY <1>1, <1>3, ProceedInv
<1>. QED
  BY <1>1, <1>2, <1>3

\* Time does not bring a session back.
LEMMA TickInv ==
  ASSUME SessionsInv, Tick PROVE SessionsInv'
<1>1. \A s \in spent : session[s].until \in Nat
  BY KeyTyped DEF SessionsInv, SessionsTypeOK
<1>2. /\ time \in Nat /\ time' = time + 1
      /\ UNCHANGED <<session, callPc, presented, calledAt, resume, spent, stale>>
  BY DEF Tick, SessionsInv, SessionsTypeOK
<1>3. SpentAreDead'
  BY <1>1, <1>2 DEF SessionsInv, SpentAreDead, Dead
<1>4. SessionsTypeOK'
  <2>1. time' \in Nat
    BY <1>2
  <2>2. /\ session' = session /\ callPc' = callPc /\ presented' = presented
        /\ calledAt' = calledAt /\ resume' = resume /\ spent' = spent /\ stale' = stale
    BY <1>2
  <2>. QED
    BY <2>1, <2>2 DEF SessionsInv, SessionsTypeOK
<1>5. PresentedAreIssued' /\ TokenAtHand' /\ StaleIsKeptOff'
  BY <1>2 DEF SessionsInv, PresentedAreIssued, TokenAtHand, StaleIsKeptOff
<1>. QED
  BY <1>3, <1>4, <1>5 DEF SessionsInv

LEMMA SessionsStepInv == SessionsInv /\ [SessionsNext]_sessionVars => SessionsInv'
<1>. SUFFICES ASSUME SessionsInv, [SessionsNext]_sessionVars PROVE SessionsInv'
  OBVIOUS
<1>1. ASSUME NEW c \in Call, Login(c) PROVE SessionsInv'
  BY <1>1, LoginInv
<1>2. ASSUME NEW c \in Call, NEW t \in ClientTokens, Refresh(c, t) \/ Logout(c, t)
      PROVE  SessionsInv'
  BY <1>2, RefreshInv, LogoutInv
<1>3. ASSUME NEW c \in Call, Serve(c) PROVE SessionsInv'
  BY <1>3, VerifyInv, CheckSessionInv, RevokeGetInv, RevokeSetInv, PutSessionInv, FailInv
     DEF Serve
<1>4. CASE Tick
  BY <1>4, TickInv
<1>5. CASE UNCHANGED sessionVars
  BY <1>5 DEF sessionVars, SessionsInv, SessionsTypeOK, SpentAreDead, Dead, PresentedAreIssued,
     TokenAtHand, StaleIsKeptOff
<1>. QED
  BY <1>1, <1>2, <1>3, <1>4, <1>5 DEF SessionsNext

LEMMA SessionsAlwaysInv == SessionsSpec => []SessionsInv
BY SessionsInitInv, SessionsStepInv, PTL DEF SessionsSpec

\* Every variable of the refresh sessions stays in its type.
THEOREM SessionsTyped == SessionsSpec => []SessionsTypeOK
<1>1. SessionsInv => SessionsTypeOK
  BY DEF SessionsInv
<1>. QED
  BY <1>1, SessionsAlwaysInv, PTL

\* A refresh that arrives with the token of a session that has been revoked,
\* by a rotation, a logout or a wrong secret, never rotates it.
THEOREM SessionsSpentTokenRefused == SessionsSpec => []SpentTokenRefused
<1>1. SessionsInv => SpentTokenRefused
  BY DEF SessionsInv, StaleIsKeptOff, SpentTokenRefused
<1>. QED
  BY <1>1, SessionsAlwaysInv, PTL

(***************************************************************************)
(* The browser.                                                            *)
(***************************************************************************)

\* A step moves one call on, if any, and never one that has its answer.
LEMMA OneCallMoves ==
  ASSUME SessionsTypeOK, [SessionsNext]_sessionVars
  PROVE  \/ UNCHANGED callPc
         \/ \E c \in Call : \E label \in Answered \cup Awaiting :
              callPc[c] \notin Answered /\ callPc' = [callPc EXCEPT ![c] = label]
<1>. USE DEF Answered, Awaiting, Issued, Reach
<1>1. ASSUME NEW c \in Call, Login(c)
      PROVE  callPc[c] \notin Answered /\ callPc' = [callPc EXCEPT ![c] = "verify"]
  BY <1>1 DEF Login, Arrive, Fresh
<1>2. ASSUME NEW c \in Call, NEW t, Refresh(c, t) \/ Logout(c, t)
      PROVE  \E label \in Answered \cup Awaiting :
               callPc[c] \notin Answered /\ callPc' = [callPc EXCEPT ![c] = label]
  BY <1>2 DEF Refresh, Logout, Arrive, Fresh
<1>3. ASSUME NEW c \in Call, Serve(c)
      PROVE  \E label \in Answered \cup Awaiting :
               callPc[c] \notin Answered /\ callPc' = [callPc EXCEPT ![c] = label]
  <2>1. resume[c] \in Answered \cup Awaiting
    BY DEF SessionsTypeOK
  <2>2. CASE VerifyIdToken(c)
    BY <2>2 DEF VerifyIdToken
  <2>3. CASE CheckSession(c)
    BY <2>3 DEF CheckSession
  <2>4. CASE RevokeGet(c)
    BY <2>1, <2>4 DEF RevokeGet
  <2>5. CASE RevokeSet(c)
    BY <2>1, <2>5 DEF RevokeSet
  <2>6. CASE PutSession(c)
    BY <2>6 DEF PutSession
  <2>7. CASE Fail(c)
    BY <2>7 DEF Fail
  <2>. QED
    BY <1>3, <2>2, <2>3, <2>4, <2>5, <2>6, <2>7 DEF Serve
<1>4. CASE Tick \/ UNCHANGED sessionVars
  BY <1>4 DEF Tick, sessionVars
<1>. QED
  BY <1>1, <1>2, <1>3, <1>4 DEF SessionsNext

LEMMA AnswersStand ==
  ASSUME SessionsTypeOK, [SessionsNext]_sessionVars, NEW c \in Call
  PROVE  /\ callPc[c] \in Answered => callPc'[c] = callPc[c]
         /\ callPc[c] # "idle" => callPc'[c] # "idle"
<1>1. callPc \in [Call -> Answered \cup Awaiting \cup {"idle"}]
  BY DEF SessionsTypeOK
<1>. QED
  BY <1>1, OneCallMoves DEF Answered, Awaiting, Issued

\* The cookie is a token that the API issued, or none.
CookieInv == SessionsInv /\ cookie \in ClientTokens

\* What the browser does to the sessions is what clients of them do.
LEMMA WebStepIsSessionsStep ==
  CookieInv /\ [WebNext]_webVars => [SessionsNext]_sessionVars
<1>. SUFFICES ASSUME CookieInv, [WebNext]_webVars PROVE [SessionsNext]_sessionVars
  OBVIOUS
<1>1. ASSUME NEW f \in Fetch, SendFetch(f) \/ FetchSettles(f) \/ Unauthorized(f)
      PROVE  UNCHANGED sessionVars
  BY <1>1 DEF SendFetch, FetchSettles, Unauthorized
<1>2. ASSUME NEW f \in Fetch, StartRefresh(f) PROVE SessionsNext
  BY <1>2 DEF StartRefresh, SendRefresh, CookieInv, SessionsNext
<1>3. ASSUME NEW t \in Tab, OpenPage(t) PROVE SessionsNext
  BY <1>3 DEF OpenPage, SendRefresh, CookieInv, SessionsNext
<1>4. ASSUME NEW t \in Tab, LeavePage(t) PROVE UNCHANGED sessionVars
  BY <1>4 DEF LeavePage
<1>5. ASSUME NEW t \in Tab, GoogleLogin(t) PROVE SessionsNext
  BY <1>5 DEF GoogleLogin, SessionsNext
<1>6. ASSUME NEW c \in Call, AnswerComes(c) \/ GiveUp(c) PROVE UNCHANGED sessionVars
  BY <1>6 DEF AnswerComes, GiveUp, Conclude
<1>7. ASSUME NEW c \in Call, Elsewhere(c) PROVE SessionsNext
  BY <1>7 DEF Elsewhere, SessionsNext
<1>8. CASE Server
  BY <1>8 DEF Server, SessionsNext
<1>9. CASE UNCHANGED webVars
  BY <1>9 DEF webVars
<1>. QED
  BY <1>1, <1>2, <1>3, <1>4, <1>5, <1>6, <1>7, <1>8, <1>9 DEF WebNext, Browser

LEMMA CookieStep == CookieInv /\ [WebNext]_webVars => CookieInv'
<1>. SUFFICES ASSUME CookieInv, [WebNext]_webVars PROVE CookieInv'
  OBVIOUS
<1>1. SessionsInv' /\ [SessionsNext]_sessionVars /\ SessionsTypeOK
  BY WebStepIsSessionsStep, SessionsStepInv DEF CookieInv, SessionsInv
<1>2. \A t \in ClientTokens : t \in ClientTokens'
  <2>. SUFFICES ASSUME NEW t \in ClientTokens PROVE t \in ClientTokens'
    OBVIOUS
  <2>1. t \in Token
    BY DEF ClientTokens
  <2>2. CASE t = NoToken
    BY <2>1, <2>2 DEF ClientTokens
  <2>3. CASE t # NoToken
    <3>1. t.id \in Call /\ callPc[t.id] \in Issued
      BY <2>1, <2>3, TokenIds DEF ClientTokens
    <3>2. callPc'[t.id] = callPc[t.id]
      BY <1>1, <3>1, AnswersStand DEF Answered
    <3>. QED
      BY <2>1, <3>1, <3>2 DEF ClientTokens
  <2>. QED
    BY <2>2, <2>3
<1>3. CASE UNCHANGED cookie
  BY <1>1, <1>2, <1>3 DEF CookieInv
<1>4. ASSUME NEW c \in Call, AnswerComes(c) PROVE cookie' \in ClientTokens'
  <2>1. CASE callPc[c] \in Issued
    <3>1. cookie' = [id |-> c, genuine |-> TRUE]
      BY <1>4, <2>1 DEF AnswerComes, CookieAfter, Issued
    <3>2. cookie' \in Token /\ cookie'.id = c
      BY <3>1 DEF Token
    <3>3. callPc'[c] \in Issued
      BY <1>1, <2>1, AnswersStand DEF Answered
    <3>. QED
      BY <3>2, <3>3 DEF ClientTokens
  <2>2. CASE callPc[c] \notin Issued
    <3>1. cookie' \in {NoToken, cookie}
      BY <1>4, <2>2 DEF AnswerComes, CookieAfter
    <3>2. NoToken \in ClientTokens
      BY DEF ClientTokens, Token
    <3>. QED
      BY <1>2, <3>1, <3>2 DEF CookieInv
  <2>. QED
    BY <2>1, <2>2
<1>5. UNCHANGED cookie \/ \E c \in Call : AnswerComes(c)
  BY DEF WebNext, Browser, SendFetch, FetchSettles, Unauthorized, StartRefresh, OpenPage,
     LeavePage, GoogleLogin, GiveUp, Elsewhere, webVars, browserVars
<1>. QED
  BY <1>1, <1>3, <1>4, <1>5 DEF CookieInv

LEMMA CookieInit == WebInit => CookieInv
BY SessionsInitInv DEF WebInit, CookieInv, ClientTokens, Token

\* The browser is a client of the refresh sessions like any other: its tabs, their
\* single flights, its pages and the answers that are late or lost implement
\* Sessions (api-client.ts:178, routes/auth.ts:256).
THEOREM WebImplementsSessions == WebSpec => SessionsSpec
<1>1. WebInit => SessionsInit
  BY DEF WebInit
<1>. QED
  BY <1>1, CookieInit, CookieStep, WebStepIsSessionsStep, PTL DEF WebSpec, SessionsSpec

\* So a spent token is refused from a browser too.
THEOREM WebSpentTokenRefused == WebSpec => []SpentTokenRefused
BY WebImplementsSessions, SessionsSpentTokenRefused, PTL

\* What makes NobodyStranded inductive: the browser waits for one call of a fetch
\* that refreshes, a tab has one such fetch while it is marked refreshing and none
\* otherwise, and its queue holds the fetches of the tab that are queued.
CallsInv ==
  /\ heard \subseteq Call /\ \A c \in heard : callPc[c] # "idle"
  /\ waiter \in [Call -> Tab \cup Fetch \cup {Nobody}]
  /\ \A c \in Call : callPc[c] = "idle" => waiter[c] = Nobody
  /\ \A c \in Waiting : waiter[c] \in Fetch => fetchPc[waiter[c]] = "refreshing"
  /\ \A c, d \in Waiting : waiter[c] \in Fetch /\ waiter[c] = waiter[d] => c = d
  /\ \A f \in Fetch : fetchPc[f] = "refreshing" => \E c \in Waiting : waiter[c] = f

FlightInv ==
  /\ fetchPc \in [Fetch -> {"idle", "sent", "queued", "refreshing", "resent", "settled"}]
  /\ queue \in [Tab -> SUBSET Fetch]
  /\ \A f \in Fetch : fetchPc[f] = "refreshing" => TabOf[f] \in refreshing
  /\ \A f, g \in Fetch :
       fetchPc[f] = "refreshing" /\ fetchPc[g] = "refreshing" /\ TabOf[f] = TabOf[g] => f = g
  /\ \A t \in refreshing : \E f \in Fetch : TabOf[f] = t /\ fetchPc[f] = "refreshing"
  /\ \A f \in Fetch, t \in Tab : f \in queue[t] <=> TabOf[f] = t /\ fetchPc[f] = "queued"
  /\ \A f \in Fetch : fetchPc[f] = "queued" => TabOf[f] \in refreshing

StrandInv == CookieInv /\ CallsInv /\ FlightInv

LEMMA StrandTypes ==
  ASSUME StrandInv
  PROVE  callPc \in [Call -> Answered \cup Awaiting \cup {"idle"}] /\ SessionsTypeOK
BY DEF StrandInv, CookieInv, SessionsInv, SessionsTypeOK

\* A call that is sent is waited for; nobody waited for it before.
LEMMA SentIsAwaited ==
  ASSUME StrandInv, NEW c \in Call, NEW w \in Tab \cup Fetch,
         \E label \in Answered \cup Awaiting : Arrive(c, presented'[c], label),
         waiter' = [waiter EXCEPT ![c] = w], heard' = heard
  PROVE  /\ Waiting' = Waiting \cup {c} /\ c \notin Waiting
         /\ waiter'[c] = w /\ \A d \in Waiting : waiter'[d] = waiter[d]
         /\ waiter' \in [Call -> Tab \cup Fetch \cup {Nobody}]
         /\ heard' \subseteq Call /\ \A d \in heard' : callPc'[d] # "idle"
         /\ \A d \in Call : callPc'[d] = "idle" => waiter'[d] = Nobody
<1>1. w # Nobody
  BY WebClientAssumption DEF Nobody
<1>2. PICK label \in Answered \cup Awaiting :
        callPc[c] = "idle" /\ callPc' = [callPc EXCEPT ![c] = label]
  BY DEF Arrive, Fresh, Reach
<1>3. label # "idle"
  BY DEF Answered, Awaiting, Issued
<1>4. /\ callPc'[c] # "idle" /\ waiter'[c] = w
      /\ \A d \in Call : d # c => callPc'[d] = callPc[d] /\ waiter'[d] = waiter[d]
  BY <1>2, <1>3, StrandTypes DEF StrandInv, CallsInv
<1>5. c \notin heard /\ heard \subseteq Call
  BY <1>2 DEF StrandInv, CallsInv
<1>6. ASSUME NEW d \in Call PROVE d \in Waiting' <=> d \in Waiting \/ d = c
  BY <1>1, <1>4, <1>5 DEF Waiting
<1>7. c \notin Waiting /\ Waiting \subseteq Call /\ Waiting' \subseteq Call
  BY <1>2 DEF Waiting
<1>. QED
  BY <1>4, <1>5, <1>6, <1>7 DEF StrandInv, CallsInv

\* A call of a page leaves the fetches alone.
LEMMA PageCallInv ==
  ASSUME StrandInv, CookieInv', NEW c \in Call, NEW t \in Tab,
         \E label \in Answered \cup Awaiting : Arrive(c, presented'[c], label),
         waiter' = [waiter EXCEPT ![c] = t], UNCHANGED <<heard, fetchPc, queue, refreshing>>
  PROVE  StrandInv'
<1>1. t \notin Fetch
  BY WebClientAssumption
<1>2. FlightInv'
  BY DEF StrandInv, FlightInv
<1>3. /\ Waiting' = Waiting \cup {c} /\ waiter'[c] = t
      /\ \A d \in Waiting : waiter'[d] = waiter[d]
  BY SentIsAwaited
<1>4. CallsInv'
  <2>1. \A d \in Waiting' : waiter'[d] \in Fetch => d \in Waiting /\ waiter'[d] = waiter[d]
    BY <1>1, <1>3
  <2>2. \A g \in Fetch : fetchPc'[g] = "refreshing" => \E d \in Waiting' : waiter'[d] = g
    BY <1>3 DEF StrandInv, CallsInv
  <2>3. \A d \in Waiting' : waiter'[d] \in Fetch => fetchPc'[waiter'[d]] = "refreshing"
    BY <2>1 DEF StrandInv, CallsInv
  <2>4. \A d, e \in Waiting' : waiter'[d] \in Fetch /\ waiter'[d] = waiter'[e] => d = e
    BY <2>1 DEF StrandInv, CallsInv
  <2>. QED
    BY <2>2, <2>3, <2>4, SentIsAwaited DEF CallsInv
<1>. QED
  BY <1>2, <1>4 DEF StrandInv

LEMMA StartRefreshInv ==
  ASSUME StrandInv, CookieInv', NEW f \in Fetch, StartRefresh(f) PROVE StrandInv'
<1>1. PICK c \in Call : SendRefresh(c, f)
  BY DEF StartRefresh
<1>2. /\ fetchPc[f] = "sent" /\ TabOf[f] \notin refreshing /\ TabOf[f] \in Tab
      /\ fetchPc' = [fetchPc EXCEPT ![f] = "refreshing"]
      /\ refreshing' = refreshing \cup {TabOf[f]} /\ UNCHANGED <<queue, heard>>
  BY WebClientAssumption DEF StartRefresh
<1>3. fetchPc'[f] = "refreshing" /\ \A g \in Fetch : g # f => fetchPc'[g] = fetchPc[g]
  BY <1>2 DEF StrandInv, FlightInv
<1>4. FlightInv'
  <2>1. fetchPc' \in [Fetch -> {"idle", "sent", "queued", "refreshing", "resent", "settled"}]
    BY <1>2 DEF StrandInv, FlightInv
  <2>. QED
    BY <1>2, <1>3, <2>1 DEF StrandInv, FlightInv
<1>5. /\ waiter' = [waiter EXCEPT ![c] = f]
      /\ \E label \in Answered \cup Awaiting : Arrive(c, presented'[c], label)
  <2>1. Arrive(c, cookie, IF cookie = NoToken THEN "refused" ELSE "get")
        /\ waiter' = [waiter EXCEPT ![c] = f]
    BY <1>1 DEF SendRefresh, Refresh
  <2>2. presented'[c] = cookie
    BY <2>1 DEF Arrive, StrandInv, CookieInv, SessionsInv, SessionsTypeOK
  <2>. QED
    BY <2>1, <2>2 DEF Answered, Awaiting
<1>6. \A d \in Waiting : waiter[d] # f
  BY <1>2 DEF StrandInv, CallsInv
<1>7. /\ Waiting' = Waiting \cup {c} /\ waiter'[c] = f
      /\ \A d \in Waiting : waiter'[d] = waiter[d]
  BY <1>2, <1>5, SentIsAwaited
<1>8. CallsInv'
  <2>1. \A g \in Fetch : fetchPc'[g] = "refreshing" => \E d \in Waiting' : waiter'[d] = g
    BY <1>3, <1>7 DEF StrandInv, CallsInv
  <2>2. \A d \in Waiting' : waiter'[d] \in Fetch => fetchPc'[waiter'[d]] = "refreshing"
    BY <1>3, <1>6, <1>7 DEF StrandInv, CallsInv
  <2>3. \A d, e \in Waiting' : waiter'[d] \in Fetch /\ waiter'[d] = waiter'[e] => d = e
    BY <1>6, <1>7 DEF StrandInv, CallsInv
  <2>4. /\ waiter' \in [Call -> Tab \cup Fetch \cup {Nobody}]
        /\ heard' \subseteq Call /\ \A d \in heard' : callPc'[d] # "idle"
        /\ \A d \in Call : callPc'[d] = "idle" => waiter'[d] = Nobody
    BY <1>2, <1>5, SentIsAwaited
  <2>. QED
    BY <2>1, <2>2, <2>3, <2>4 DEF CallsInv
<1>. QED
  BY <1>4, <1>8 DEF StrandInv

\* The end of a call settles the fetch that sent it and the queue of its tab.
LEMMA ConcludeInv ==
  ASSUME StrandInv, CookieInv', NEW c \in Waiting, NEW success \in BOOLEAN, Conclude(c, success)
  PROVE  StrandInv'
<1>1. /\ c \in Call /\ heard' = heard \cup {c} /\ UNCHANGED <<callPc, waiter>>
      /\ waiter[c] \in Tab \cup Fetch /\ callPc[c] # "idle"
  BY DEF Conclude, sessionVars, Waiting, StrandInv, CallsInv
<1>2. Waiting' = Waiting \ {c}
  BY <1>1 DEF Waiting
<1>3. /\ heard' \subseteq Call /\ \A d \in heard' : callPc'[d] # "idle"
      /\ \A d \in Call : callPc'[d] = "idle" => waiter'[d] = Nobody
      /\ waiter' \in [Call -> Tab \cup Fetch \cup {Nobody}]
  BY <1>1 DEF StrandInv, CallsInv
<1>4. CASE waiter[c] \in Tab
  <2>1. waiter[c] \notin Fetch /\ UNCHANGED <<fetchPc, queue, refreshing>>
    BY <1>4, WebClientAssumption DEF Conclude, ShowPage
  <2>2. FlightInv'
    BY <2>1 DEF StrandInv, FlightInv
  <2>3. CallsInv'
    BY <1>1, <1>2, <1>3, <2>1 DEF StrandInv, CallsInv
  <2>. QED
    BY <2>2, <2>3 DEF StrandInv
<1>5. CASE waiter[c] \in Fetch
  <2>. DEFINE f == waiter[c]
              t == TabOf[f]
              to == IF success THEN "resent" ELSE "settled"
  <2>1. f \notin Tab /\ t \in Tab /\ f \in Fetch
    BY <1>5, WebClientAssumption
  <2>2. /\ fetchPc' = [g \in Fetch |-> IF g = f \/ g \in queue[t] THEN to ELSE fetchPc[g]]
        /\ queue' = [queue EXCEPT ![t] = {}]
        /\ refreshing' = refreshing \ {t}
    BY <2>1 DEF Conclude, Flush
  <2>3. to \in {"resent", "settled"}
    OBVIOUS
  <2>4. fetchPc[f] = "refreshing" /\ \A d \in Waiting : d # c => waiter[d] # f
    BY <2>1 DEF StrandInv, CallsInv
  <2>. HIDE DEF to, f, t
  <2>5. /\ queue'[t] = {} /\ \A u \in Tab : u # t => queue'[u] = queue[u]
        /\ queue' \in [Tab -> SUBSET Fetch]
    BY <2>1, <2>2 DEF StrandInv, FlightInv
  <2>6. /\ fetchPc'[f] = to
        /\ \A g \in Fetch : g \in queue[t] => fetchPc'[g] = to
        /\ \A g \in Fetch : g # f /\ g \notin queue[t] => fetchPc'[g] = fetchPc[g]
        /\ fetchPc' \in [Fetch -> {"idle", "sent", "queued", "refreshing", "resent", "settled"}]
    BY <2>1, <2>2, <2>3 DEF StrandInv, FlightInv
  <2>7. \A g \in Fetch : g \in queue[t] <=> TabOf[g] = t /\ fetchPc[g] = "queued"
    BY <2>1 DEF StrandInv, FlightInv
  <2>8. ASSUME NEW g \in Fetch
        PROVE  /\ fetchPc'[g] = "refreshing" <=> g # f /\ fetchPc[g] = "refreshing"
               /\ fetchPc'[g] = "queued" <=> TabOf[g] # t /\ fetchPc[g] = "queued"
    <3>1. CASE g = f
      BY <2>3, <2>4, <2>6, <3>1
    <3>2. CASE g \in queue[t]
      BY <2>3, <2>6, <2>7, <3>2
    <3>3. CASE g # f /\ g \notin queue[t]
      BY <2>6, <2>7, <3>3
    <3>. QED
      BY <3>1, <3>2, <3>3
  <2>9. \A g \in Fetch : fetchPc[g] = "refreshing" /\ TabOf[g] = t => g = f
    BY <2>1, <2>4 DEF StrandInv, FlightInv, t
  <2>10. FlightInv'
    <3>1. \A g \in Fetch : fetchPc'[g] = "refreshing" => TabOf[g] \in refreshing'
      BY <2>2, <2>8, <2>9 DEF StrandInv, FlightInv
    <3>2. \A u \in refreshing' : \E g \in Fetch : TabOf[g] = u /\ fetchPc'[g] = "refreshing"
      BY <2>2, <2>8 DEF StrandInv, FlightInv, t
    <3>3. ASSUME NEW g \in Fetch, NEW u \in Tab
          PROVE  g \in queue'[u] <=> TabOf[g] = u /\ fetchPc'[g] = "queued"
      BY <2>5, <2>8 DEF StrandInv, FlightInv
    <3>4. \A g \in Fetch : fetchPc'[g] = "queued" => TabOf[g] \in refreshing'
      BY <2>2, <2>8 DEF StrandInv, FlightInv
    <3>5. \A g, h \in Fetch :
            fetchPc'[g] = "refreshing" /\ fetchPc'[h] = "refreshing" /\ TabOf[g] = TabOf[h] => g = h
      BY <2>8 DEF StrandInv, FlightInv
    <3>. QED
      BY <2>5, <2>6, <3>1, <3>2, <3>3, <3>4, <3>5 DEF FlightInv
  <2>11. CallsInv'
    <3>1. \A d \in Waiting' : d \in Waiting /\ d # c /\ waiter'[d] = waiter[d] /\ waiter[d] # f
      BY <1>1, <1>2, <2>4
    <3>2. \A g \in Fetch : fetchPc'[g] = "refreshing" => \E d \in Waiting' : waiter'[d] = g
      BY <1>1, <1>2, <2>8 DEF StrandInv, CallsInv, f
    <3>3. \A d \in Waiting' : waiter'[d] \in Fetch => fetchPc'[waiter'[d]] = "refreshing"
      BY <2>8, <3>1 DEF StrandInv, CallsInv
    <3>4. \A d, e \in Waiting' : waiter'[d] \in Fetch /\ waiter'[d] = waiter'[e] => d = e
      BY <3>1 DEF StrandInv, CallsInv
    <3>. QED
      BY <1>3, <3>2, <3>3, <3>4 DEF CallsInv
  <2>. QED
    BY <2>10, <2>11 DEF StrandInv
<1>. QED
  BY <1>1, <1>4, <1>5

\* A step that neither sends a call of the browser nor ends one.
LEMMA WaitingKept ==
  ASSUME StrandInv, [SessionsNext]_sessionVars, UNCHANGED <<waiter, heard>>
  PROVE  /\ Waiting' = Waiting
         /\ heard' \subseteq Call /\ \A d \in heard' : callPc'[d] # "idle"
         /\ waiter' \in [Call -> Tab \cup Fetch \cup {Nobody}]
         /\ \A d \in Call : callPc'[d] = "idle" => waiter'[d] = Nobody
<1>1. \A d \in Call : callPc[d] # "idle" => callPc'[d] # "idle"
  BY StrandTypes, AnswersStand
<1>2. \A d \in Call : d \in Waiting' <=> d \in Waiting
  BY <1>1 DEF Waiting, StrandInv, CallsInv
<1>. QED
  BY <1>1, <1>2 DEF Waiting, StrandInv, CallsInv

LEMMA KeptInv ==
  ASSUME StrandInv, CookieInv', [SessionsNext]_sessionVars,
         UNCHANGED <<waiter, heard, fetchPc, queue, refreshing>>
  PROVE  StrandInv'
BY WaitingKept DEF StrandInv, CallsInv, FlightInv

\* A fetch that does not refresh, and will not, moves on.
LEMMA FetchInv ==
  ASSUME StrandInv, CookieInv', UNCHANGED sessionVars, UNCHANGED <<waiter, heard, refreshing>>,
         NEW f \in Fetch, NEW to \in {"sent", "settled", "queued"},
         fetchPc[f] \in {"idle", "sent", "resent"}, fetchPc' = [fetchPc EXCEPT ![f] = to],
         \/ to # "queued" /\ UNCHANGED queue
         \/ /\ to = "queued" /\ TabOf[f] \in refreshing
            /\ queue' = [queue EXCEPT ![TabOf[f]] = @ \cup {f}]
  PROVE  StrandInv'
<1>1. /\ fetchPc'[f] = to /\ \A g \in Fetch : g # f => fetchPc'[g] = fetchPc[g]
      /\ fetchPc' \in [Fetch -> {"idle", "sent", "queued", "refreshing", "resent", "settled"}]
  BY DEF StrandInv, FlightInv
<1>2. \A g \in Fetch : fetchPc'[g] = "refreshing" <=> fetchPc[g] = "refreshing"
  BY <1>1
<1>3. CallsInv'
  BY <1>2, WaitingKept DEF StrandInv, CallsInv
<1>4. queue' \in [Tab -> SUBSET Fetch] /\ TabOf[f] \in Tab
  <2>1. TabOf[f] \in Tab /\ queue \in [Tab -> SUBSET Fetch]
    BY WebClientAssumption DEF StrandInv, FlightInv
  <2>2. queue[TabOf[f]] \cup {f} \in SUBSET Fetch
    BY <2>1
  <2>. QED
    BY <2>1, <2>2
<1>5. ASSUME NEW g \in Fetch, NEW t \in Tab
      PROVE  g \in queue'[t] <=> TabOf[g] = t /\ fetchPc'[g] = "queued"
  <2>1. g \in queue'[t] <=> g \in queue[t] \/ (to = "queued" /\ g = f /\ t = TabOf[f])
    BY <1>4 DEF StrandInv, FlightInv
  <2>. QED
    BY <1>1, <2>1 DEF StrandInv, FlightInv
<1>6. FlightInv'
  BY <1>1, <1>2, <1>4, <1>5 DEF StrandInv, FlightInv
<1>. QED
  BY <1>3, <1>6 DEF StrandInv

LEMMA StrandStep == StrandInv /\ [WebNext]_webVars => StrandInv'
<1>. SUFFICES ASSUME StrandInv, [WebNext]_webVars PROVE StrandInv'
  OBVIOUS
<1>0. CookieInv' /\ [SessionsNext]_sessionVars
  BY CookieStep, WebStepIsSessionsStep DEF StrandInv
<1>1. ASSUME NEW f \in Fetch, SendFetch(f) PROVE StrandInv'
  BY <1>0, <1>1, FetchInv DEF SendFetch
<1>2. ASSUME NEW f \in Fetch, FetchSettles(f) PROVE StrandInv'
  BY <1>0, <1>2, FetchInv DEF FetchSettles
<1>3. ASSUME NEW f \in Fetch, Unauthorized(f) PROVE StrandInv'
  BY <1>0, <1>3, FetchInv DEF Unauthorized
<1>4. ASSUME NEW f \in Fetch, StartRefresh(f) PROVE StrandInv'
  BY <1>0, <1>4, StartRefreshInv
<1>5. ASSUME NEW t \in Tab, OpenPage(t) PROVE StrandInv'
  <2>1. PICK c \in Call : SendRefresh(c, t) /\ UNCHANGED <<heard, fetchPc, queue, refreshing>>
    BY <1>5 DEF OpenPage
  <2>2. /\ Arrive(c, cookie, IF cookie = NoToken THEN "refused" ELSE "get")
        /\ waiter' = [waiter EXCEPT ![c] = t]
    BY <2>1 DEF SendRefresh, Refresh
  <2>3. presented'[c] = cookie
    BY <2>2, StrandTypes DEF Arrive, SessionsTypeOK
  <2>4. \E label \in Answered \cup Awaiting : Arrive(c, presented'[c], label)
    BY <2>2, <2>3 DEF Answered, Awaiting
  <2>. QED
    BY <1>0, <2>1, <2>2, <2>4, PageCallInv
<1>6. ASSUME NEW t \in Tab, LeavePage(t) PROVE StrandInv'
  BY <1>0, <1>6, KeptInv DEF LeavePage
<1>7. ASSUME NEW t \in Tab, GoogleLogin(t) PROVE StrandInv'
  <2>1. PICK c \in Call : Login(c) /\ waiter' = [waiter EXCEPT ![c] = t]
    BY <1>7 DEF GoogleLogin
  <2>2. Arrive(c, NoToken, "verify") /\ UNCHANGED <<heard, fetchPc, queue, refreshing>>
    BY <1>7, <2>1 DEF GoogleLogin, Login
  <2>3. presented'[c] = NoToken
    BY <2>2, StrandTypes DEF Arrive, SessionsTypeOK
  <2>4. \E label \in Answered \cup Awaiting : Arrive(c, presented'[c], label)
    BY <2>2, <2>3 DEF Awaiting
  <2>. QED
    BY <1>0, <2>1, <2>2, <2>4, PageCallInv
<1>8. ASSUME NEW c \in Call, AnswerComes(c) PROVE StrandInv'
  <2>1. (callPc[c] \in Issued) \in BOOLEAN /\ Conclude(c, callPc[c] \in Issued) /\ c \in Waiting
    BY <1>8 DEF AnswerComes
  <2>2. PICK success \in BOOLEAN : Conclude(c, success)
    BY <2>1
  <2>. QED
    BY <1>0, <2>1, <2>2, ConcludeInv
<1>9. ASSUME NEW c \in Call, GiveUp(c) PROVE StrandInv'
  BY <1>0, <1>9, ConcludeInv DEF GiveUp
<1>10. ASSUME NEW c \in Call, Elsewhere(c) PROVE StrandInv'
  BY <1>0, <1>10, KeptInv DEF Elsewhere
<1>11. CASE UNCHANGED browserVars
  BY <1>0, <1>11, KeptInv DEF browserVars
<1>. QED
  BY <1>1, <1>2, <1>3, <1>4, <1>5, <1>6, <1>7, <1>8, <1>9, <1>10, <1>11
     DEF WebNext, Browser, webVars

LEMMA StrandInit == WebInit => StrandInv
<1>1. WebInit => CallsInv /\ FlightInv
  BY DEF WebInit, SessionsInit, CallsInv, FlightInv, Waiting
<1>. QED
  BY <1>1, CookieInit DEF StrandInv

\* No fetch of any number of tabs is stranded in a queue, whichever answers are late
\* or lost (api-client.ts:229).
THEOREM WebNobodyStranded == WebSpec => []NobodyStranded
<1>1. StrandInv => NobodyStranded
  <2>. SUFFICES ASSUME StrandInv, NEW f \in Fetch
                PROVE  /\ fetchPc[f] = "queued" =>
                            /\ f \in queue[TabOf[f]]
                            /\ \E g \in Fetch : TabOf[g] = TabOf[f] /\ fetchPc[g] = "refreshing"
                       /\ fetchPc[f] = "refreshing" => \E c \in Waiting : waiter[c] = f
    BY DEF NobodyStranded
  <2>1. TabOf[f] \in Tab
    BY WebClientAssumption
  <2>. QED
    BY <2>1 DEF StrandInv, FlightInv, CallsInv
<1>. QED
  BY <1>1, StrandInit, StrandStep, PTL DEF WebSpec

(***************************************************************************)
(* The types of the browser.                                               *)
(***************************************************************************)

\* What StrandInv leaves out of WebTypeOK: the tabs, their pages and the bounds.
TabsTyped ==
  /\ apiToken \subseteq Tab
  /\ refreshing \subseteq Tab
  /\ page \in [Tab -> {"none", "restoring", "open"}]
  /\ pageCall \in [Tab -> Call \cup {NoCall}]
  /\ openings \in Nat
  /\ trouble \in BOOLEAN

LEMMA ConcludeTyped ==
  ASSUME StrandInv, TabsTyped, NEW c \in Waiting, NEW success \in BOOLEAN, Conclude(c, success),
         trouble' \in BOOLEAN
  PROVE  TabsTyped'
<1>. DEFINE w == waiter[c]
            t == TabOfWaiter(w)
<1>1. w \in Tab \cup Fetch
  BY DEF Waiting, StrandInv, CallsInv
<1>2. t \in Tab
  BY <1>1, WebClientAssumption DEF TabOfWaiter
<1>3. apiToken' \subseteq apiToken \cup {t} /\ UNCHANGED <<pageCall, openings>>
  BY DEF Conclude
<1>4. CASE w \in Tab
  <2>1. /\ page' = IF pageCall[w] = c
                   THEN [page EXCEPT ![w] = IF success THEN "open" ELSE "none"]
                   ELSE page
        /\ UNCHANGED refreshing
    BY <1>4 DEF Conclude, ShowPage
  <2>. HIDE DEF w, t
  <2>. QED
    BY <1>2, <1>3, <2>1 DEF TabsTyped
<1>5. CASE w \notin Tab
  <2>1. refreshing' \subseteq refreshing /\ UNCHANGED page
    BY <1>5 DEF Conclude, Flush
  <2>. HIDE DEF w, t
  <2>. QED
    BY <1>2, <1>3, <2>1 DEF TabsTyped
<1>. QED
  BY <1>4, <1>5

LEMMA TabsStep == StrandInv /\ TabsTyped /\ [WebNext]_webVars => TabsTyped'
<1>. SUFFICES ASSUME StrandInv, TabsTyped, [WebNext]_webVars PROVE TabsTyped'
  OBVIOUS
<1>1. ASSUME NEW f \in Fetch, SendFetch(f) \/ FetchSettles(f) \/ Unauthorized(f) PROVE TabsTyped'
  BY <1>1 DEF SendFetch, FetchSettles, Unauthorized, TabsTyped
<1>2. \A c \in Call, w \in Tab \cup Fetch : SendRefresh(c, w) => trouble' \in BOOLEAN
  BY DEF SendRefresh, TabsTyped
<1>3. ASSUME NEW f \in Fetch, StartRefresh(f) PROVE TabsTyped'
  <2>1. TabOf[f] \in Tab
    BY WebClientAssumption
  <2>2. trouble' \in BOOLEAN
    BY <1>2, <1>3 DEF StartRefresh
  <2>. QED
    BY <1>3, <2>1, <2>2 DEF StartRefresh, TabsTyped
<1>4. ASSUME NEW t \in Tab, OpenPage(t) PROVE TabsTyped'
  <2>1. PICK c \in Call : SendRefresh(c, t) /\ pageCall' = [pageCall EXCEPT ![t] = c]
    BY <1>4 DEF OpenPage
  <2>2. trouble' \in BOOLEAN
    BY <1>2, <2>1
  <2>. QED
    BY <1>4, <2>1, <2>2 DEF OpenPage, TabsTyped
<1>5. ASSUME NEW t \in Tab, LeavePage(t) PROVE TabsTyped'
  BY <1>5 DEF LeavePage, TabsTyped
<1>6. ASSUME NEW t \in Tab, GoogleLogin(t) PROVE TabsTyped'
  <2>1. trouble' \in BOOLEAN
    BY <1>6 DEF GoogleLogin, TabsTyped
  <2>. QED
    BY <1>6, <2>1 DEF GoogleLogin, TabsTyped
<1>7. ASSUME NEW c \in Call, AnswerComes(c) PROVE TabsTyped'
  <2>1. trouble' \in BOOLEAN
    BY <1>7 DEF AnswerComes, TabsTyped
  <2>2. (callPc[c] \in Issued) \in BOOLEAN /\ Conclude(c, callPc[c] \in Issued) /\ c \in Waiting
    BY <1>7 DEF AnswerComes
  <2>3. PICK success \in BOOLEAN : Conclude(c, success)
    BY <2>2
  <2>. QED
    BY <2>1, <2>2, <2>3, ConcludeTyped
<1>8. ASSUME NEW c \in Call, GiveUp(c) PROVE TabsTyped'
  BY <1>8, ConcludeTyped DEF GiveUp
<1>9. ASSUME NEW c \in Call, Elsewhere(c) PROVE TabsTyped'
  BY <1>9 DEF Elsewhere, TabsTyped
<1>10. CASE Server /\ UNCHANGED browserVars
  BY <1>10 DEF browserVars, TabsTyped
<1>11. CASE UNCHANGED webVars
  BY <1>11 DEF webVars, browserVars, TabsTyped
<1>. QED
  BY <1>1, <1>3, <1>4, <1>5, <1>6, <1>7, <1>8, <1>9, <1>10, <1>11 DEF WebNext, Browser

\* The state of the browser keeps its shape, with any number of tabs and answers
\* that are late or lost: a tab is marked refreshing, queues fetches and waits for a
\* call of its own page, and a call has one sender.
THEOREM WebTyped == WebSpec => []WebTypeOK
<1>1. WebInit => TabsTyped
  <2>. SUFFICES ASSUME WebInit PROVE TabsTyped
    OBVIOUS
  <2>1. page \in [Tab -> {"none", "restoring", "open"}]
    BY DEF WebInit
  <2>2. pageCall \in [Tab -> Call \cup {NoCall}]
    BY DEF WebInit
  <2>3. apiToken \subseteq Tab /\ refreshing \subseteq Tab /\ openings \in Nat
    BY DEF WebInit
  <2>4. trouble \in BOOLEAN
    BY DEF WebInit
  <2>. QED
    BY <2>1, <2>2, <2>3, <2>4 DEF TabsTyped
<1>2. StrandInv /\ TabsTyped => WebTypeOK
  <2>1. ClientTokens \subseteq Token
    BY DEF ClientTokens
  <2>. QED
    BY <2>1 DEF StrandInv, CookieInv, SessionsInv, CallsInv, FlightInv, TabsTyped, WebTypeOK
<1>. QED
  BY <1>1, <1>2, StrandInit, StrandStep, TabsStep, PTL DEF WebSpec

(***************************************************************************)
(* Staying signed in.                                                      *)
(***************************************************************************)

Somebody == \E c \in Call : callPc[c] \in Issued
SignedIn == cookie # NoToken /\ session[cookie.id].state = "live"

\* A session's key lives for RefreshTtl at least, and a call reads a clock that
\* does not run ahead.  The browser presents its cookie as it got it.
LivesInv ==
  /\ \A s \in Call : session[s].state # "none" =>
       session[s].expires >= RefreshTtl /\ session[s].until >= RefreshTtl
  /\ \A c \in Call : calledAt[c] <= time
  /\ cookie # NoToken => cookie.genuine

\* What the only call of the browser that is under way has come to, when nothing
\* happened that may end a session: a login has touched none, a refresh has found
\* the cookie's session alive or is to write the next one, whatever it has revoked.
UnderWay(c) ==
  /\ callPc[c] \in {"verify", "denied"} => (Somebody => SignedIn)
  /\ callPc[c] = "get" => presented[c] = cookie /\ SignedIn
  /\ callPc[c] \in {"revoke get", "revoke set"} => resume[c] = "put"
  /\ callPc[c] \in Issued => session[c].state = "live"
  /\ callPc[c] = "refused" => ~Somebody
  /\ callPc[c] # "logged out"

OneAtATime ==
  /\ \A c, d \in Waiting : c = d
  /\ \A c \in Call : callPc[c] # "idle" => c \in Waiting \cup heard
  /\ \A c \in heard : callPc[c] \in Answered
  /\ Waiting = {} => (Somebody => SignedIn)
  /\ \A c \in Waiting : UnderWay(c)

\* What makes StaysSignedIn inductive.
SignedInv ==
  /\ StrandInv
  /\ LivesInv
  /\ ~trouble /\ time < RefreshTtl => OneAtATime

LEMMA LivesStep ==
  ASSUME StrandInv, LivesInv, [WebNext]_webVars
  PROVE  LivesInv'
<1>0. /\ RefreshTtl \in Nat /\ time \in Nat /\ session \in [Call -> Key]
      /\ calledAt \in [Call -> Nat] /\ [SessionsNext]_sessionVars
  BY SessionsAssumption, WebStepIsSessionsStep
     DEF StrandInv, CookieInv, SessionsInv, SessionsTypeOK
<1>1. cookie' # NoToken => cookie'.genuine
  <2>1. UNCHANGED cookie \/ \E c \in Call : AnswerComes(c)
    BY DEF WebNext, Browser, SendFetch, FetchSettles, Unauthorized, StartRefresh, OpenPage,
       LeavePage, GoogleLogin, GiveUp, Elsewhere, webVars, browserVars
  <2>2. ASSUME NEW c \in Call, AnswerComes(c)
        PROVE  cookie' \in {[id |-> c, genuine |-> TRUE], NoToken, cookie}
    BY <2>2 DEF AnswerComes, CookieAfter
  <2>. QED
    BY <2>1, <2>2 DEF LivesInv
<1>2. ASSUME UNCHANGED <<session, calledAt>>, time' = time
      PROVE  LivesInv'
  BY <1>1, <1>2 DEF LivesInv
<1>3. ASSUME NEW c \in Call, calledAt' = [calledAt EXCEPT ![c] = time], UNCHANGED <<time, session>>
      PROVE  LivesInv'
  <2>1. \A d \in Call : calledAt'[d] = IF d = c THEN time ELSE calledAt[d]
    BY <1>0, <1>3
  <2>2. \A d \in Call : calledAt'[d] <= time'
    BY <1>0, <1>3, <2>1 DEF LivesInv
  <2>. QED
    BY <1>1, <1>3, <2>2 DEF LivesInv
<1>4. ASSUME NEW c \in Call, Login(c) PROVE LivesInv'
  BY <1>2, <1>4 DEF Login, Arrive
<1>5. ASSUME NEW c \in Call, NEW t, Refresh(c, t) PROVE LivesInv'
  BY <1>3, <1>5 DEF Refresh, Arrive
<1>6. ASSUME NEW c \in Call, NEW t, Logout(c, t) PROVE LivesInv'
  BY <1>2, <1>6 DEF Logout, Arrive
<1>7. ASSUME NEW c \in Call, VerifyIdToken(c) PROVE LivesInv'
  BY <1>3, <1>7 DEF VerifyIdToken
<1>8. ASSUME NEW c \in Call, CheckSession(c) \/ RevokeGet(c) \/ Fail(c) PROVE LivesInv'
  BY <1>2, <1>8 DEF CheckSession, RevokeGet, Fail
<1>9. ASSUME NEW c \in Call, NEW s \in Call, NEW k \in Key, session' = [session EXCEPT ![s] = k],
             UNCHANGED <<time, calledAt>>,
             k.state # "none" => k.expires >= RefreshTtl /\ k.until >= RefreshTtl
      PROVE  LivesInv'
  BY <1>0, <1>1, <1>9 DEF LivesInv
<1>10. ASSUME NEW c \in Call, RevokeSet(c) PROVE LivesInv'
  <2>1. PICK s : s = presented[c].id
    OBVIOUS
  <2>2. PICK k : k = IF session[s].expires <= time THEN NoKey
                     ELSE [state |-> "revoked", expires |-> session[s].expires,
                           until |-> session[s].expires]
    OBVIOUS
  <2>3. session' = [session EXCEPT ![s] = k] /\ UNCHANGED <<time, calledAt>>
    BY <1>10, <2>1, <2>2 DEF RevokeSet
  <2>4. s \in Call
    BY <1>10, <2>1, TokenIds
       DEF RevokeSet, StrandInv, CookieInv, SessionsInv, SessionsTypeOK, TokenAtHand
  <2>5. session[s].expires \in Nat /\ session[s] \in Key
    BY <1>0, <2>4, KeyTyped
  <2>6. k \in Key
    BY <2>2, <2>5 DEF Key
  <2>7. k.state # "none" => k.expires >= RefreshTtl /\ k.until >= RefreshTtl
    <3>1. CASE session[s].expires <= time
      BY <2>2, <3>1 DEF NoKey
    <3>2. CASE ~(session[s].expires <= time)
      <4>1. session[s].state # "none"
        <5>1. session[s] # NoKey
          BY <1>0, <2>5, <3>2 DEF NoKey
        <5>. QED
          BY <2>5, <5>1 DEF Key
      <4>2. k.expires = session[s].expires /\ k.until = session[s].expires
        BY <2>2, <3>2
      <4>. QED
        BY <2>4, <4>1, <4>2 DEF LivesInv
    <3>. QED
      BY <3>1, <3>2
  <2>. QED
    BY <1>9, <2>3, <2>4, <2>6, <2>7
<1>11. ASSUME NEW c \in Call, PutSession(c) PROVE LivesInv'
  <2>1. PICK k : k = [state |-> "live", expires |-> calledAt[c] + RefreshTtl,
                      until |-> time + RefreshTtl]
    OBVIOUS
  <2>2. session' = [session EXCEPT ![c] = k] /\ UNCHANGED <<time, calledAt>>
    BY <1>11, <2>1 DEF PutSession
  <2>3. calledAt[c] \in Nat
    BY <1>0
  <2>4. k \in Key /\ k.expires >= RefreshTtl /\ k.until >= RefreshTtl
    BY <1>0, <2>1, <2>3 DEF Key
  <2>. QED
    BY <1>9, <2>2, <2>4
<1>12. CASE Tick
  <2>1. time' = time + 1 /\ UNCHANGED <<session, calledAt>>
    BY <1>12 DEF Tick
  <2>2. \A c \in Call : calledAt[c] <= time + 1
    BY <1>0 DEF LivesInv
  <2>. QED
    BY <1>1, <2>1, <2>2 DEF LivesInv
<1>13. CASE UNCHANGED sessionVars
  BY <1>2, <1>13 DEF sessionVars
<1>. QED
  BY <1>0, <1>4, <1>5, <1>6, <1>7, <1>8, <1>10, <1>11, <1>12, <1>13 DEF SessionsNext, Serve

\* A refresh is sent when no other call is under way.
LEMMA SendSigned ==
  ASSUME StrandInv, OneAtATime, NEW c \in Call, NEW w \in Tab \cup Fetch, SendRefresh(c, w),
         Waiting = {}, UNCHANGED <<cookie, heard>>
  PROVE  OneAtATime'
<1>1. /\ Refresh(c, cookie) /\ waiter' = [waiter EXCEPT ![c] = w]
      /\ UNCHANGED <<session, resume>>
  BY DEF SendRefresh, Refresh, Arrive
<1>2. PICK label : label = IF cookie = NoToken THEN "refused" ELSE "get"
  OBVIOUS
<1>3. /\ callPc[c] = "idle" /\ callPc'[c] = label /\ presented'[c] = cookie
      /\ \A d \in Call : d # c => callPc'[d] = callPc[d]
  BY <1>1, <1>2, StrandTypes DEF Refresh, Arrive, Fresh, Reach, SessionsTypeOK
<1>4. \E l \in Answered \cup Awaiting : Arrive(c, presented'[c], l)
  BY <1>1, <1>2, <1>3 DEF Refresh, Answered, Awaiting
<1>5. Waiting' = {c}
  BY <1>1, <1>4, SentIsAwaited
<1>6. Somebody' = Somebody /\ SignedIn' = SignedIn /\ (Somebody => SignedIn)
  BY <1>1, <1>2, <1>3 DEF Somebody, SignedIn, Issued, OneAtATime
<1>7. cookie # NoToken => Somebody
  BY TokenIds DEF StrandInv, CookieInv, ClientTokens, Somebody
<1>8. cookie = NoToken => ~SignedIn
  BY DEF SignedIn
<1>9. UnderWay(c)'
  BY <1>2, <1>3, <1>6, <1>7, <1>8 DEF UnderWay, Issued
<1>10. \A d \in heard : d # c /\ callPc'[d] \in Answered
  BY <1>3 DEF OneAtATime, StrandInv, CallsInv, Answered, Issued
<1>. QED
  BY <1>3, <1>5, <1>9, <1>10 DEF OneAtATime

LEMMA LoginSigned ==
  ASSUME StrandInv, OneAtATime, NEW c \in Call, NEW w \in Tab, Login(c),
         waiter' = [waiter EXCEPT ![c] = w], Waiting = {}, UNCHANGED <<cookie, heard>>
  PROVE  OneAtATime'
<1>1. /\ callPc[c] = "idle" /\ callPc'[c] = "verify" /\ presented'[c] = NoToken
      /\ \A d \in Call : d # c => callPc'[d] = callPc[d]
      /\ UNCHANGED <<session, resume>> /\ Arrive(c, NoToken, "verify")
  BY StrandTypes DEF Login, Arrive, Fresh, Reach, SessionsTypeOK
<1>2. \E l \in Answered \cup Awaiting : Arrive(c, presented'[c], l)
  BY <1>1 DEF Awaiting
<1>3. Waiting' = {c}
  BY <1>2, SentIsAwaited
<1>4. Somebody' = Somebody /\ SignedIn' = SignedIn /\ (Somebody => SignedIn)
  BY <1>1 DEF Somebody, SignedIn, Issued, OneAtATime
<1>5. UnderWay(c)'
  BY <1>1, <1>4 DEF UnderWay, Issued
<1>6. \A d \in heard : d # c /\ callPc'[d] \in Answered
  BY <1>1 DEF OneAtATime, StrandInv, CallsInv, Answered, Issued
<1>. QED
  BY <1>1, <1>3, <1>5, <1>6 DEF OneAtATime

\* The answer of the only call brings the cookie of a live session.
LEMMA AnswerSigned ==
  ASSUME StrandInv, OneAtATime, NEW c \in Call, AnswerComes(c), ~trouble'
  PROVE  OneAtATime'
<1>1. /\ c \in Waiting /\ callPc[c] \in Answered /\ callPc[c] # "failed"
      /\ cookie' = CookieAfter(c) /\ heard' = heard \cup {c}
      /\ UNCHANGED <<session, callPc, presented, resume, waiter>>
  BY DEF AnswerComes, Conclude, sessionVars
<1>2. Waiting = {c} /\ UnderWay(c)
  BY <1>1 DEF OneAtATime
<1>3. Waiting' = {}
  BY <1>1, <1>2 DEF Waiting
<1>4. Somebody' = Somebody
  BY <1>1 DEF Somebody
<1>5. Somebody => SignedIn'
  <2>1. CASE callPc[c] \in Issued
    <3>1. cookie' = [id |-> c, genuine |-> TRUE]
      BY <1>1, <2>1 DEF CookieAfter, Issued
    <3>2. cookie'.id = c /\ cookie' # NoToken
      BY <3>1, SessionsAssumption DEF NoToken, Call
    <3>. QED
      BY <1>1, <1>2, <2>1, <3>2 DEF SignedIn, UnderWay
  <2>2. CASE callPc[c] = "denied"
    <3>1. cookie' = cookie
      BY <1>1, <2>2 DEF CookieAfter, Issued
    <3>. QED
      BY <1>1, <1>2, <2>2, <3>1 DEF SignedIn, UnderWay
  <2>3. CASE callPc[c] \in {"refused", "logged out"}
    BY <1>2, <2>3 DEF UnderWay
  <2>. QED
    BY <1>1, <2>1, <2>2, <2>3 DEF Answered
<1>6. \A d \in Call : callPc'[d] # "idle" => d \in heard'
  BY <1>1, <1>2 DEF OneAtATime
<1>. QED
  BY <1>1, <1>3, <1>4, <1>5, <1>6 DEF OneAtATime

\* The API serves the only call that is under way.
LEMMA ServeSigned ==
  ASSUME StrandInv, LivesInv, OneAtATime, time < RefreshTtl,
         NEW c \in Call, Serve(c), UNCHANGED browserVars
  PROVE  OneAtATime'
<1>0. /\ RefreshTtl \in Nat /\ time \in Nat /\ SessionsTypeOK /\ TokenAtHand
      /\ [SessionsNext]_sessionVars /\ UNCHANGED <<cookie, waiter, heard>>
  BY SessionsAssumption
     DEF StrandInv, CookieInv, SessionsInv, SessionsTypeOK, SessionsNext, browserVars
<1>1. callPc[c] \in Awaiting
  BY DEF Serve, VerifyIdToken, CheckSession, RevokeGet, RevokeSet, PutSession, Fail, Awaiting
<1>2. c \notin heard /\ callPc[c] # "idle" /\ callPc[c] \notin Issued
  BY <1>1 DEF OneAtATime, Awaiting, Answered, Issued
<1>3. Waiting = {c} /\ UnderWay(c) /\ Waiting' = Waiting
  BY <1>0, <1>2, WaitingKept DEF OneAtATime
<1>4. \A d \in Call : d # c => callPc'[d] = callPc[d]
  <2>1. \E label : callPc' = [callPc EXCEPT ![c] = label]
    BY DEF Serve, VerifyIdToken, CheckSession, RevokeGet, RevokeSet, PutSession, Fail, Reach
  <2>. QED
    BY <1>0, <2>1 DEF SessionsTypeOK
<1>5. ASSUME UNCHANGED session, callPc'[c] \notin Issued
      PROVE  Somebody' = Somebody /\ SignedIn' = SignedIn
  BY <1>0, <1>2, <1>4, <1>5 DEF Somebody, SignedIn
<1>6. ASSUME NEW label, Reach(c, label) PROVE callPc'[c] = label
  BY <1>0, <1>6 DEF Reach, SessionsTypeOK
<1>7. UnderWay(c)'
  <2>1. CASE VerifyIdToken(c)
    <3>1. callPc'[c] \in {"put", "denied"} /\ callPc[c] = "verify" /\ UNCHANGED session
      BY <1>6, <2>1 DEF VerifyIdToken
    <3>2. callPc'[c] \notin Issued
      BY <3>1 DEF Issued
    <3>3. Somebody' = Somebody /\ SignedIn' = SignedIn
      BY <1>5, <3>1, <3>2
    <3>4. Somebody => SignedIn
      BY <1>3, <3>1 DEF UnderWay
    <3>. QED
      BY <3>1, <3>2, <3>3, <3>4 DEF UnderWay
  <2>2. CASE CheckSession(c)
    <3>1. PICK s : s = presented[c].id
      OBVIOUS
    <3>2. callPc[c] = "get" /\ presented[c] = cookie /\ cookie # NoToken
          /\ session[s].state = "live" /\ s \in Call
      BY <1>0, <1>3, <2>2, <3>1, TokenIds DEF CheckSession, UnderWay, SignedIn, SessionsTypeOK
    <3>3. session[s].expires >= RefreshTtl /\ session[s].until >= RefreshTtl /\ cookie.genuine
          /\ calledAt[c] <= time
      BY <3>2 DEF LivesInv
    <3>4. session[s].expires \in Nat /\ session[s].until \in Nat /\ calledAt[c] \in Nat
      BY <1>0, <3>2, KeyTyped DEF SessionsTypeOK
    <3>5. KeyThere(s) /\ session[s].expires > calledAt[c]
      BY <1>0, <3>2, <3>3, <3>4 DEF KeyThere
    <3>6. Reach(c, "revoke get") /\ resume' = [resume EXCEPT ![c] = "put"]
      BY <2>2, <3>1, <3>2, <3>3, <3>5 DEF CheckSession
    <3>7. callPc'[c] = "revoke get" /\ resume'[c] = "put"
      BY <1>0, <1>6, <3>6 DEF SessionsTypeOK
    <3>. QED
      BY <3>7 DEF UnderWay, Issued
  <2>3. CASE RevokeGet(c) \/ RevokeSet(c)
    <3>1. resume[c] = "put" /\ resume' = resume
      BY <1>3, <2>3 DEF RevokeGet, RevokeSet, UnderWay
    <3>2. callPc'[c] \in {"revoke set", "put"}
      BY <1>6, <2>3, <3>1 DEF RevokeGet, RevokeSet
    <3>. QED
      BY <3>1, <3>2 DEF UnderWay, Issued
  <2>4. CASE PutSession(c)
    <3>1. session'[c].state = "live"
      BY <1>0, <2>4 DEF PutSession, SessionsTypeOK
    <3>2. callPc'[c] \in Issued
      BY <1>6, <2>4 DEF PutSession, Issued
    <3>. QED
      BY <3>1, <3>2 DEF UnderWay, Issued
  <2>5. CASE Fail(c)
    <3>1. callPc'[c] = "failed"
      BY <1>3, <1>6, <2>5 DEF Fail, UnderWay
    <3>. QED
      BY <3>1 DEF UnderWay, Issued
  <2>. QED
    BY <2>1, <2>2, <2>3, <2>4, <2>5 DEF Serve
<1>8. \A d \in Call : callPc'[d] # "idle" => d \in Waiting' \cup heard'
  BY <1>0, <1>3, <1>4 DEF OneAtATime
<1>9. \A d \in heard' : callPc'[d] \in Answered
  BY <1>0, <1>2, <1>4 DEF OneAtATime, StrandInv, CallsInv
<1>. QED
  BY <1>3, <1>7, <1>8, <1>9 DEF OneAtATime

LEMMA SignedStep == SignedInv /\ [WebNext]_webVars => SignedInv'
<1>. SUFFICES ASSUME SignedInv, [WebNext]_webVars PROVE SignedInv'
  OBVIOUS
<1>1. StrandInv' /\ LivesInv' /\ StrandInv /\ LivesInv
  BY StrandStep, LivesStep DEF SignedInv
<1>. SUFFICES ASSUME ~trouble', time' < RefreshTtl PROVE OneAtATime'
  BY <1>1 DEF SignedInv
<1>2. ~trouble
  BY DEF WebNext, Browser, SendFetch, FetchSettles, Unauthorized, StartRefresh, OpenPage,
     SendRefresh, LeavePage, GoogleLogin, AnswerComes, GiveUp, Elsewhere, webVars, browserVars
<1>3. time < RefreshTtl
  <2>1. time \in Nat /\ RefreshTtl \in Nat /\ [SessionsNext]_sessionVars
    BY <1>1, SessionsAssumption, WebStepIsSessionsStep
       DEF StrandInv, CookieInv, SessionsInv, SessionsTypeOK
  <2>2. time' = time \/ time' = time + 1
    BY <2>1 DEF SessionsNext, Tick, Login, Refresh, Logout, Arrive, Serve, VerifyIdToken,
       CheckSession, RevokeGet, RevokeSet, PutSession, Fail, sessionVars
  <2>. QED
    BY <2>1, <2>2
<1>4. OneAtATime
  BY <1>2, <1>3 DEF SignedInv
<1>5. ASSUME UNCHANGED <<session, callPc, presented, resume, cookie, waiter, heard>>
      PROVE  OneAtATime'
  BY <1>4, <1>5 DEF OneAtATime, Waiting, Somebody, SignedIn, UnderWay
<1>6. ASSUME NEW f \in Fetch, SendFetch(f) \/ FetchSettles(f) \/ Unauthorized(f)
      PROVE  OneAtATime'
  BY <1>5, <1>6 DEF SendFetch, FetchSettles, Unauthorized, sessionVars
<1>7. ASSUME NEW f \in Fetch, StartRefresh(f) PROVE OneAtATime'
  <2>1. PICK c \in Call : SendRefresh(c, f)
    BY <1>7 DEF StartRefresh
  <2>2. TabOf[f] \notin refreshing /\ UNCHANGED <<cookie, heard>> /\ ~Overlaps(f)
    BY <1>7, <2>1 DEF StartRefresh, SendRefresh
  <2>3. ASSUME NEW d \in Waiting PROVE FALSE
    <3>1. waiter[d] \in Fetch /\ TabOf[waiter[d]] = TabOf[f]
      BY <1>1, <2>2, <2>3 DEF Overlaps, Waiting, StrandInv, CallsInv
    <3>2. TabOf[waiter[d]] \in refreshing
      BY <1>1, <2>3, <3>1 DEF StrandInv, CallsInv, FlightInv
    <3>. QED
      BY <2>2, <3>1, <3>2
  <2>. QED
    BY <1>1, <1>4, <2>1, <2>2, <2>3, SendSigned
<1>8. ASSUME NEW t \in Tab, OpenPage(t) PROVE OneAtATime'
  <2>1. PICK c \in Call : SendRefresh(c, t)
    BY <1>8 DEF OpenPage
  <2>2. UNCHANGED <<cookie, heard>> /\ ~Overlaps(t)
    BY <1>8, <2>1 DEF OpenPage, SendRefresh
  <2>3. Waiting = {}
    BY <2>2 DEF Overlaps
  <2>. QED
    BY <1>1, <1>4, <2>1, <2>2, <2>3, SendSigned
<1>9. ASSUME NEW t \in Tab, LeavePage(t) PROVE OneAtATime'
  BY <1>5, <1>9 DEF LeavePage, sessionVars
<1>10. ASSUME NEW t \in Tab, GoogleLogin(t) PROVE OneAtATime'
  <2>1. PICK c \in Call : /\ Login(c) /\ waiter' = [waiter EXCEPT ![c] = t]
                          /\ Waiting = {}
    BY <1>10 DEF GoogleLogin
  <2>. QED
    BY <1>1, <1>4, <1>10, <2>1, LoginSigned DEF GoogleLogin
<1>11. ASSUME NEW c \in Call, AnswerComes(c) PROVE OneAtATime'
  BY <1>1, <1>4, <1>11, AnswerSigned
<1>12. ASSUME NEW c \in Call, GiveUp(c) \/ Elsewhere(c) PROVE FALSE
  BY <1>12 DEF GiveUp, Elsewhere
<1>13. CASE Server /\ UNCHANGED browserVars
  <2>1. CASE Tick
    BY <1>5, <1>13, <2>1 DEF Tick, browserVars
  <2>2. ASSUME NEW c \in Call, Serve(c) PROVE OneAtATime'
    BY <1>1, <1>3, <1>4, <1>13, <2>2, ServeSigned
  <2>. QED
    BY <1>13, <2>1, <2>2 DEF Server
<1>14. CASE UNCHANGED webVars
  BY <1>5, <1>14 DEF webVars, sessionVars, browserVars
<1>. QED
  BY <1>6, <1>7, <1>8, <1>9, <1>10, <1>11, <1>12, <1>13, <1>14 DEF WebNext, Browser

\* Refreshing by itself never signs the user out, however many fetches meet a 401
\* at once and wherever the rotation stands: the cookie at rest names a live
\* session as long as every answer arrives and no other call of the browser or of
\* a copy of the cookie comes between (api-client.ts:178, routes/auth.ts:256).
THEOREM WebStaysSignedIn == WebSpec => []StaysSignedIn
<1>1. WebInit => SignedInv
  <2>. SUFFICES ASSUME WebInit PROVE SignedInv
    OBVIOUS
  <2>1. SessionsInit /\ cookie = NoToken /\ heard = {} /\ Waiting = {} /\ ~Somebody
    BY DEF WebInit, SessionsInit, Waiting, Somebody, Issued
  <2>2. LivesInv
    BY <2>1 DEF SessionsInit, LivesInv, NoKey
  <2>3. OneAtATime
    BY <2>1 DEF SessionsInit, OneAtATime
  <2>. QED
    BY <2>2, <2>3, StrandInit DEF SignedInv
<1>2. SignedInv => StaysSignedIn
  BY DEF SignedInv, OneAtATime, Somebody, SignedIn, StaysSignedIn
<1>. QED
  BY <1>1, <1>2, SignedStep, PTL DEF WebSpec
=============================================================================
