------------------------------ MODULE Sessions ------------------------------
(***************************************************************************)
(* The refresh sessions of one subject: Google login, refresh with its     *)
(* rotation, and logout, over the session keys in Redis.  Every handler    *)
(* awaits Redis between its steps, so calls interleave; a call may end at  *)
(* any of them, with an error or with its process.                         *)
(*                                                                         *)
(* A call issues at most one session, so the call stands for the session's *)
(* random id.  Plans are left out: what login and refresh do with the      *)
(* profile is in Billing; a refresh finds it, for a login wrote it before. *)
(*                                                                         *)
(* A definition whose name ends in Slip is a mutant of the one after it.   *)
(***************************************************************************)
EXTENDS Integers

CONSTANTS
  MaxCalls,   \* bound: calls of /api/auth/*
  RefreshTtl, \* AUTH_REFRESH_TTL_SECONDS
  LastTick    \* bound: the clock stops here

ASSUME SessionsAssumption ==
  /\ MaxCalls \in Nat
  /\ RefreshTtl \in Nat \ {0}
  /\ LastTick \in Nat

Call == 1..MaxCalls

VARIABLES
  time,       \* deps.now()
  session,    \* session[s]: the Redis key of session s
  callPc,     \* callPc[c]: where call c stands, or how it was answered
  presented,  \* presented[c]: the refresh token in the cookie of c
  calledAt,   \* calledAt[c]: the clock c read when it arrived
  resume,     \* resume[c]: what c does once it has revoked a session
  spent,      \* history: sessions that a call has revoked
  stale       \* history: calls that arrived with a token of one of those

sessionVars == <<time, session, callPc, presented, calledAt, resume, spent, stale>>

\* A key that is not there; a record, and when Redis drops the key.
NoKey   == [state |-> "none", expires |-> 0, until |-> 0]
Key     == [state : {"live", "revoked"}, expires : Nat, until : Nat] \cup {NoKey}
NoToken == [id |-> 0, genuine |-> FALSE]
Token   == [id : Call, genuine : BOOLEAN] \cup {NoToken}

Issued   == {"logged in", "rotated"}
Answered == Issued \cup {"denied", "refused", "logged out", "failed"}
Awaiting == {"verify", "get", "revoke get", "revoke set", "put"}

KeyThere(s) == session[s].state # "none" /\ time < session[s].until

\* Calls are numbered in the order they arrive.
Fresh(c) == callPc[c] = "idle" /\ \A d \in 1..(c - 1) : callPc[d] # "idle"

\* A token that a client was given, or one with another secret.
ClientTokens == {t \in Token : t = NoToken \/ callPc[t.id] \in Issued}
-----------------------------------------------------------------------------
SessionsInit ==
  /\ time = 0
  /\ session = [s \in Call |-> NoKey]
  /\ callPc = [c \in Call |-> "idle"]
  /\ presented = [c \in Call |-> NoToken]
  /\ calledAt = [c \in Call |-> 0]
  /\ resume = [c \in Call |-> "refused"]
  /\ spent = {}
  /\ stale = {}

Reach(c, label) == callPc' = [callPc EXCEPT ![c] = label]

Arrive(c, token, label) ==
  /\ Fresh(c)
  /\ Reach(c, label)
  /\ presented' = [presented EXCEPT ![c] = token]
  /\ stale' = IF token.id \in spent THEN stale \cup {c} ELSE stale
  /\ UNCHANGED <<time, session, spent>>

\* POST /api/auth/google, up to the verification of the id token.
Login(c) == Arrive(c, NoToken, "verify") /\ UNCHANGED <<calledAt, resume>>

\* A request with no readable cookie is refused without asking Redis.
Refresh(c, token) ==
  /\ Arrive(c, token, IF token = NoToken THEN "refused" ELSE "get")
  /\ calledAt' = [calledAt EXCEPT ![c] = time]
  /\ UNCHANGED resume

\* Logging out needs the id of the token only.
Logout(c, token) ==
  /\ Arrive(c, token, IF token = NoToken THEN "logged out" ELSE "revoke get")
  /\ resume' = [resume EXCEPT ![c] = "logged out"]
  /\ UNCHANGED calledAt

\* Google finds the id token valid, and the handler reads the clock, or not.
VerifyIdToken(c) ==
  /\ callPc[c] = "verify"
  /\ \E label \in {"put", "denied"} : Reach(c, label)
  /\ calledAt' = [calledAt EXCEPT ![c] = time]
  /\ UNCHANGED <<time, session, presented, resume, spent, stale>>

\* The revoked flag is forgotten: only the expiry counts.
CheckSessionRevokedSlip(c) ==
  LET s == presented[c].id
  IN  /\ callPc[c] = "get"
      /\ IF ~KeyThere(s)
         THEN Reach(c, "refused") /\ UNCHANGED resume
         ELSE LET valid == session[s].expires > calledAt[c] /\ presented[c].genuine
              IN  /\ Reach(c, "revoke get")
                  /\ resume' = [resume EXCEPT ![c] = IF valid THEN "put" ELSE "refused"]
      /\ UNCHANGED <<time, session, presented, calledAt, spent, stale>>

\* What a refresh finds under the session's key: nothing, a session it must
\* not accept, a token with another secret, or a session to rotate.
CheckSession(c) ==
  LET s == presented[c].id
  IN  /\ callPc[c] = "get"
      /\ IF ~KeyThere(s)
         THEN Reach(c, "refused") /\ UNCHANGED resume
         ELSE LET valid == /\ session[s].state = "live"
                           /\ session[s].expires > calledAt[c]
                           /\ presented[c].genuine
              IN  /\ Reach(c, "revoke get")
                  /\ resume' = [resume EXCEPT ![c] = IF valid THEN "put" ELSE "refused"]
      /\ UNCHANGED <<time, session, presented, calledAt, spent, stale>>

\* revokeAuthRefreshSession reads the record and writes it back revoked, for
\* as long as the session would have lasted.
RevokeGet(c) ==
  LET s == presented[c].id
  IN  /\ callPc[c] = "revoke get"
      /\ IF KeyThere(s)
         THEN Reach(c, "revoke set") /\ UNCHANGED spent
         ELSE Reach(c, resume[c]) /\ spent' = spent \cup {s}
      /\ UNCHANGED <<time, session, presented, calledAt, resume, stale>>

RevokeSet(c) ==
  LET s == presented[c].id
  IN  /\ callPc[c] = "revoke set"
      /\ session' = [session EXCEPT ![s] =
                       IF @.expires <= time THEN NoKey
                       ELSE [state |-> "revoked", expires |-> @.expires, until |-> @.expires]]
      /\ spent' = spent \cup {s}
      /\ Reach(c, resume[c])
      /\ UNCHANGED <<time, presented, calledAt, resume, stale>>

\* The session of a login, or the one a refresh rotates to: its expiry counts
\* from the arrival of the call, the life of its key from this write.
PutSession(c) ==
  /\ callPc[c] = "put"
  /\ session' = [session EXCEPT ![c] = [state   |-> "live",
                                        expires |-> calledAt[c] + RefreshTtl,
                                        until   |-> time + RefreshTtl]]
  /\ Reach(c, IF presented[c] = NoToken THEN "logged in" ELSE "rotated")
  /\ UNCHANGED <<time, presented, calledAt, resume, spent, stale>>

\* Redis fails, or the process dies.  A failing revocation of a token with a
\* wrong secret is ignored; anything else answers 500 or not at all.
Fail(c) ==
  /\ callPc[c] \in Awaiting
  /\ \/ Reach(c, "failed")
     \/ /\ callPc[c] \in {"revoke get", "revoke set"} /\ resume[c] = "refused"
        /\ ~presented[c].genuine
        /\ Reach(c, "refused")
  /\ UNCHANGED <<time, session, presented, calledAt, resume, spent, stale>>

Tick ==
  /\ time < LastTick
  /\ time' = time + 1
  /\ UNCHANGED <<session, callPc, presented, calledAt, resume, spent, stale>>

Serve(c) ==
  \/ VerifyIdToken(c) \/ CheckSession(c)
  \/ RevokeGet(c) \/ RevokeSet(c) \/ PutSession(c)
  \/ Fail(c)

SessionsNext ==
  \/ Tick
  \/ \E c \in Call :
       \/ Login(c)
       \/ \E token \in ClientTokens : Refresh(c, token) \/ Logout(c, token)
       \/ Serve(c)

SessionsSpec == SessionsInit /\ [][SessionsNext]_sessionVars
-----------------------------------------------------------------------------
(* Properties.                                                             *)

\* Every variable stays in its type.
SessionsTypeOK ==
  /\ time \in Nat
  /\ session \in [Call -> Key]
  /\ callPc \in [Call -> Answered \cup Awaiting \cup {"idle"}]
  /\ presented \in [Call -> Token]
  /\ calledAt \in [Call -> Nat]
  /\ resume \in [Call -> {"refused", "logged out", "put"}]
  /\ spent \subseteq Call
  /\ stale \subseteq Call

\* A token whose session was revoked before a refresh arrived, by a rotation,
\* a logout or a wrong secret, is not rotated by that refresh, whatever reads
\* and writes of other calls and whatever failures lie in between.
SpentTokenRefused == \A c \in stale : callPc[c] # "rotated"
=============================================================================
