------------------------------ MODULE Cleanup ------------------------------
(***************************************************************************)
(* POST /api/cleanup: objects are deleted and each deletion is audited,    *)
(* under an idempotency key whose record says whether a request with that  *)
(* key is under way (102) or answered (202).  Requests interleave at every *)
(* await and may die there; a client that got no answer asks again.  In    *)
(* Gateway a plan of the MCP gateway is one such client.                   *)
(*                                                                         *)
(* A definition whose name ends in Slip is a mutant of the one after it.   *)
(***************************************************************************)
EXTENDS Integers, Sequences

CONSTANTS
  Object,     \* object keys under tmp/
  IdemKey,    \* idempotency keys
  MaxCleans,  \* bound: requests
  MaxUploads, \* bound: objects uploaded again
  MaxMishaps  \* bound: failures, and records that expire

ASSUME CleanupAssumption ==
  {MaxCleans, MaxUploads, MaxMishaps} \subseteq Nat /\ IdemKey # {}

Clean == 1..MaxCleans

VARIABLES
  objects,    \* the objects in the bucket
  idem,       \* idem[k]: the idempotency record of key k
  cleanPc,    \* cleanPc[c]: where request c stands
  want,       \* want[c]: the key and the objects of c
  outcome,    \* outcome[c]: what storage said was deleted, and was not
  unaudited,  \* unaudited[c]: audit entries c has yet to append
  audit,      \* the deletion audit: who, what and with which result
  answer,     \* answer[c]: the body c was answered with
  guarded,    \* history: requests that came when the record of their key said
              \* answered, and still does
  uploads,    \* objects uploaded again so far
  mishaps     \* failures and expirations so far

cleanVars == <<objects, idem, cleanPc, want, outcome, unaudited, audit, answer, guarded,
               uploads, mishaps>>

NoRecord  == [status |-> 0, signature |-> {}, deleted |-> {}]
NoOutcome == [deleted |-> {}, notFound |-> {}]

\* Where a request has written its own mark and is not answered yet.
Working == {"delete", "audit", "finish"}
-----------------------------------------------------------------------------
CleanupInit ==
  /\ objects = Object
  /\ idem = [k \in IdemKey |-> NoRecord]
  /\ cleanPc = [c \in Clean |-> "idle"]
  /\ want = [c \in Clean |-> [key |-> CHOOSE k \in IdemKey : TRUE, objects |-> {}]]
  /\ outcome = [c \in Clean |-> NoOutcome]
  /\ unaudited = [c \in Clean |-> {}]
  /\ audit = {}
  /\ answer = [c \in Clean |-> {}]
  /\ guarded = {}
  /\ uploads = 0
  /\ mishaps = 0

CleanGoto(c, label) == cleanPc' = [cleanPc EXCEPT ![c] = label]

\* A request with a key and at least one well-formed object key.
RequestCleanup(c, k, objs) ==
  /\ cleanPc[c] = "idle" /\ \A d \in 1..(c - 1) : cleanPc[d] # "idle"
  /\ objs # {}
  /\ CleanGoto(c, "lookup")
  /\ want' = [want EXCEPT ![c] = [key |-> k, objects |-> objs]]
  /\ guarded' = IF idem[k].status = 202 THEN guarded \cup {c} ELSE guarded
  /\ UNCHANGED <<objects, idem, outcome, unaudited, audit, answer, uploads, mishaps>>

\* A record of the same objects is never replayed...
LookupForgetfulSlip(c) ==
  LET r == idem[want[c].key]
  IN  /\ cleanPc[c] = "lookup"
      /\ CleanGoto(c, IF r # NoRecord /\ r.signature # want[c].objects THEN "conflict" ELSE "mark")
      /\ UNCHANGED <<objects, idem, want, outcome, unaudited, audit, answer, guarded, uploads,
                     mishaps>>

\* ... or whatever its status is.
LookupHastySlip(c) ==
  LET r == idem[want[c].key]
  IN  /\ cleanPc[c] = "lookup"
      /\ CleanGoto(c, IF r = NoRecord THEN "mark"
                      ELSE IF r.signature # want[c].objects THEN "conflict" ELSE "answered")
      /\ answer' = [answer EXCEPT ![c] = IF r.signature = want[c].objects THEN r.signature ELSE {}]
      /\ UNCHANGED <<objects, idem, want, outcome, unaudited, audit, guarded, uploads, mishaps>>

\* A key used for other objects is a conflict, an answered one is replayed, and
\* one that is under way is started over.
Lookup(c) ==
  LET r == idem[want[c].key]
  IN  /\ cleanPc[c] = "lookup"
      /\ CleanGoto(c, IF r = NoRecord THEN "mark"
                      ELSE IF r.signature # want[c].objects THEN "conflict"
                      ELSE IF r.status = 202 THEN "answered" ELSE "mark")
      /\ answer' = [answer EXCEPT ![c] =
                      IF r.signature = want[c].objects /\ r.status = 202 THEN r.deleted ELSE {}]
      /\ UNCHANGED <<objects, idem, want, outcome, unaudited, audit, guarded, uploads, mishaps>>

SetRecord(c, status, deleted) ==
  idem' = [idem EXCEPT ![want[c].key] =
             [status |-> status, signature |-> want[c].objects, deleted |-> deleted]]

MarkInProgress(c) ==
  /\ cleanPc[c] = "mark"
  /\ SetRecord(c, 102, {})
  /\ CleanGoto(c, "delete")
  /\ guarded' = {d \in guarded : want[d].key # want[c].key}
  /\ UNCHANGED <<objects, want, outcome, unaudited, audit, answer, uploads, mishaps>>

\* S3 reports a key as deleted whether or not there was an object; a key it
\* could not delete is taken for one that was not found.
DeleteObjects(c) ==
  /\ cleanPc[c] = "delete"
  /\ \E refused \in SUBSET want[c].objects :
       LET deleted == want[c].objects \ refused
       IN  /\ refused = {} \/ (mishaps < MaxMishaps)
           /\ mishaps' = IF refused = {} THEN mishaps ELSE mishaps + 1
           /\ objects' = objects \ deleted
           /\ outcome' = [outcome EXCEPT ![c] = [deleted |-> deleted, notFound |-> refused]]
           /\ unaudited' = [unaudited EXCEPT ![c] = (deleted \X {"success"}) \cup
                                                    (refused \X {"not_found"})]
  /\ CleanGoto(c, "audit")
  /\ UNCHANGED <<idem, want, audit, answer, guarded, uploads>>

\* One entry after the other, the deleted objects first.
AppendAudit(c) ==
  /\ cleanPc[c] = "audit"
  /\ IF unaudited[c] = {}
     THEN CleanGoto(c, "finish") /\ UNCHANGED <<unaudited, audit>>
     ELSE \E entry \in unaudited[c] :
            /\ entry[2] = "success" \/ \A other \in unaudited[c] : other[2] # "success"
            /\ audit' = audit \cup {<<c, entry[1], entry[2]>>}
            /\ unaudited' = [unaudited EXCEPT ![c] = @ \ {entry}]
            /\ UNCHANGED cleanPc
  /\ UNCHANGED <<objects, idem, want, outcome, answer, guarded, uploads, mishaps>>

Finish(c) ==
  /\ cleanPc[c] = "finish"
  /\ SetRecord(c, 202, outcome[c].deleted)
  /\ CleanGoto(c, "answered")
  /\ answer' = [answer EXCEPT ![c] = outcome[c].deleted]
  /\ UNCHANGED <<objects, want, outcome, unaudited, audit, guarded, uploads, mishaps>>

\* Storage or the repository throws, or the process dies: no answer but 500.
\* The deletion may have taken effect.
CleanFails(c) ==
  /\ cleanPc[c] \in {"lookup", "mark"} \cup Working
  /\ mishaps < MaxMishaps
  /\ mishaps' = mishaps + 1
  /\ CleanGoto(c, "failed")
  /\ objects' \in {objects} \cup {o \in {objects \ want[c].objects} : cleanPc[c] = "delete"}
  /\ UNCHANGED <<idem, want, outcome, unaudited, audit, answer, guarded, uploads>>

\* A record expires: its key may be used again.
ForgetKey(k) ==
  /\ idem[k] # NoRecord
  /\ mishaps < MaxMishaps
  /\ mishaps' = mishaps + 1
  /\ idem' = [idem EXCEPT ![k] = NoRecord]
  /\ guarded' = {c \in guarded : want[c].key # k}
  /\ UNCHANGED <<objects, cleanPc, want, outcome, unaudited, audit, answer, uploads>>

\* An object is uploaded, or stored by a worker, under a key that was deleted.
UploadAgain(o) ==
  /\ o \notin objects
  /\ uploads < MaxUploads
  /\ uploads' = uploads + 1
  /\ objects' = objects \cup {o}
  /\ UNCHANGED <<idem, cleanPc, want, outcome, unaudited, audit, answer, guarded, mishaps>>

HandleCleanup(c) ==
  Lookup(c) \/ MarkInProgress(c) \/ DeleteObjects(c) \/ AppendAudit(c) \/ Finish(c)

CleanupWorld ==
  \/ \E c \in Clean : HandleCleanup(c) \/ CleanFails(c)
  \/ \E k \in IdemKey : ForgetKey(k)
  \/ \E o \in Object : UploadAgain(o)

CleanupNext ==
  \/ CleanupWorld
  \/ \E c \in Clean, k \in IdemKey, objs \in SUBSET Object : RequestCleanup(c, k, objs)

CleanupSpec == CleanupInit /\ [][CleanupNext]_cleanVars
-----------------------------------------------------------------------------
(* Properties.                                                             *)

\* Every variable stays in its type.
CleanupTypeOK ==
  /\ objects \subseteq Object
  /\ idem \in [IdemKey -> [status : {0, 102, 202}, signature : SUBSET Object,
                           deleted : SUBSET Object]]
  /\ cleanPc \in [Clean -> {"idle", "lookup", "mark", "conflict", "answered", "failed"}
                             \cup Working]
  /\ want \in [Clean -> [key : IdemKey, objects : SUBSET Object]]
  /\ outcome \in [Clean -> [deleted : SUBSET Object, notFound : SUBSET Object]]
  /\ unaudited \in [Clean -> SUBSET (Object \X {"success", "not_found"})]
  /\ audit \subseteq Clean \X Object \X {"success", "not_found"}
  /\ answer \in [Clean -> SUBSET Object]
  /\ guarded \subseteq Clean
  /\ {uploads, mishaps} \subseteq Nat

\* What an answer says was deleted has been audited, even when the request that
\* deleted it is not the one that answers: a replay speaks for a request that
\* appended every entry, and one that died in between is never replayed.
AnswerIsAudited ==
  \A c \in Clean : cleanPc[c] = "answered" =>
    \A o \in answer[c] : \E d \in Clean : <<d, o, "success">> \in audit

\* A request that comes when the record of its key says answered deletes
\* nothing for as long as it does, so an object that was uploaded again is safe
\* from a retry.  (A second request that was under way when the first one was
\* answered puts the record back to 102, and its expiry removes it.)
AnsweredKeyGuards == \A c \in guarded : cleanPc[c] \notin {"mark"} \cup Working
=============================================================================
