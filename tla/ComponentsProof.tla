--------------------------- MODULE ComponentsProof ---------------------------
(***************************************************************************)
(* The components that share no state, for every value of their constants: *)
(* cleanups (their types, and what an answered idempotency key promises),  *)
(* the gateway (a client of cleanup), the tool page (a cleanup names one   *)
(* run), background removal (the provider is spared), the contract between *)
(* the API and the worker (a job means the same to both), the rate limits  *)
(* (bursts), the migrations (the journal); and all of them side by side,   *)
(* with the browser and Postgres, which have modules of their own.         *)
(***************************************************************************)
EXTENDS MCClients, SessionsProof, PostgresProof, TLAPS

(***************************************************************************)
(* Cleanup.                                                                *)
(***************************************************************************)

LEMMA CleanupTypeStep == CleanupTypeOK /\ [CleanupNext]_cleanVars => CleanupTypeOK'
<1>. SUFFICES ASSUME CleanupTypeOK, [CleanupNext]_cleanVars PROVE CleanupTypeOK'
  OBVIOUS
<1>. USE DEF CleanupTypeOK, Clean, Working
<1>1. ASSUME NEW c \in Clean, NEW k \in IdemKey, NEW objs \in SUBSET Object,
             RequestCleanup(c, k, objs)
      PROVE  CleanupTypeOK'
  <2>1. want' \in [Clean -> [key : IdemKey, objects : SUBSET Object]]
    BY <1>1 DEF RequestCleanup
  <2>2. cleanPc' \in [Clean -> {"idle", "lookup", "mark", "conflict", "answered", "failed"}
                                 \cup Working]
    BY <1>1 DEF RequestCleanup, CleanGoto
  <2>3. guarded' \subseteq Clean
    BY <1>1 DEF RequestCleanup
  <2>. QED
    BY <1>1, <2>1, <2>2, <2>3 DEF RequestCleanup
<1>2. ASSUME NEW c \in Clean, Lookup(c) PROVE CleanupTypeOK'
  <2>1. want[c].key \in IdemKey
    OBVIOUS
  <2>2. idem[want[c].key].deleted \in SUBSET Object
    BY <2>1
  <2>. QED
    BY <1>2, <2>2 DEF Lookup, CleanGoto
<1>3. ASSUME NEW c \in Clean, MarkInProgress(c) PROVE CleanupTypeOK'
  BY <1>3 DEF MarkInProgress, SetRecord, CleanGoto
<1>4. ASSUME NEW c \in Clean, DeleteObjects(c) PROVE CleanupTypeOK'
  <2>1. want[c].objects \in SUBSET Object
    OBVIOUS
  <2>2. PICK refused \in SUBSET want[c].objects :
          /\ mishaps' = IF refused = {} THEN mishaps ELSE mishaps + 1
          /\ objects' = objects \ (want[c].objects \ refused)
          /\ outcome' = [outcome EXCEPT ![c] =
               [deleted |-> want[c].objects \ refused, notFound |-> refused]]
          /\ unaudited' = [unaudited EXCEPT ![c] =
               ((want[c].objects \ refused) \X {"success"}) \cup (refused \X {"not_found"})]
    BY <1>4 DEF DeleteObjects
  <2>3. ((want[c].objects \ refused) \X {"success"}) \cup (refused \X {"not_found"})
          \in SUBSET (Object \X {"success", "not_found"})
    BY <2>1
  <2>. QED
    BY <1>4, <2>1, <2>2, <2>3 DEF DeleteObjects, CleanGoto
<1>5. ASSUME NEW c \in Clean, AppendAudit(c) PROVE CleanupTypeOK'
  <2>1. CASE unaudited[c] = {}
    BY <1>5, <2>1 DEF AppendAudit, CleanGoto
  <2>2. CASE unaudited[c] # {}
    <3>1. PICK entry \in unaudited[c] :
            /\ audit' = audit \cup {<<c, entry[1], entry[2]>>}
            /\ unaudited' = [unaudited EXCEPT ![c] = @ \ {entry}]
            /\ UNCHANGED cleanPc
      BY <1>5, <2>2 DEF AppendAudit
    <3>2. entry \in Object \X {"success", "not_found"}
      BY <3>1
    <3>3. <<c, entry[1], entry[2]>> \in Clean \X Object \X {"success", "not_found"}
      BY <3>2
    <3>4. audit' \subseteq Clean \X Object \X {"success", "not_found"}
      BY <3>1, <3>3
    <3>5. unaudited' \in [Clean -> SUBSET (Object \X {"success", "not_found"})]
      BY <3>1
    <3>. QED
      BY <1>5, <3>1, <3>4, <3>5 DEF AppendAudit
  <2>. QED
    BY <2>1, <2>2
<1>6. ASSUME NEW c \in Clean, Finish(c) PROVE CleanupTypeOK'
  BY <1>6 DEF Finish, SetRecord, CleanGoto
<1>7. ASSUME NEW c \in Clean, CleanFails(c) PROVE CleanupTypeOK'
  BY <1>7 DEF CleanFails, CleanGoto
<1>8. ASSUME NEW k \in IdemKey, ForgetKey(k) PROVE CleanupTypeOK'
  <2>1. NoRecord \in [status : {0, 102, 202}, signature : SUBSET Object, deleted : SUBSET Object]
    BY DEF NoRecord
  <2>2. idem' \in [IdemKey -> [status : {0, 102, 202}, signature : SUBSET Object,
                               deleted : SUBSET Object]]
    BY <1>8, <2>1 DEF ForgetKey
  <2>3. guarded' \subseteq Clean
    BY <1>8 DEF ForgetKey
  <2>4. {uploads', mishaps'} \subseteq Nat
    BY <1>8 DEF ForgetKey
  <2>5. UNCHANGED <<objects, cleanPc, want, outcome, unaudited, audit, answer>>
    BY <1>8 DEF ForgetKey
  <2>. QED
    BY <2>2, <2>3, <2>4, <2>5
<1>9. ASSUME NEW o \in Object, UploadAgain(o) PROVE CleanupTypeOK'
  BY <1>9 DEF UploadAgain
<1>10. CASE UNCHANGED cleanVars
  BY <1>10 DEF cleanVars
<1>. QED
  BY <1>1, <1>2, <1>3, <1>4, <1>5, <1>6, <1>7, <1>8, <1>9, <1>10
     DEF CleanupNext, CleanupWorld, HandleCleanup

LEMMA CleanupInitTyped == CleanupInit => CleanupTypeOK
BY CleanupAssumption DEF CleanupInit, CleanupTypeOK, NoRecord, NoOutcome, Working

\* Cleanup stays in its types.
THEOREM CleanupTyped == CleanupSpec => []CleanupTypeOK
BY CleanupInitTyped, CleanupTypeStep, PTL DEF CleanupSpec

\* What holds of the requests in guarded, and makes AnsweredKeyGuards inductive:
\* the record of their key says answered, so they look it up and end.
GuardInv ==
  \A c \in guarded : /\ cleanPc[c] \in {"lookup", "conflict", "answered", "failed"}
                     /\ idem[want[c].key].status = 202

LEMMA GuardStep == CleanupTypeOK /\ GuardInv /\ [CleanupNext]_cleanVars => GuardInv'
<1>. SUFFICES ASSUME CleanupTypeOK, GuardInv, [CleanupNext]_cleanVars,
                     NEW g \in guarded'
              PROVE  /\ cleanPc'[g] \in {"lookup", "conflict", "answered", "failed"}
                     /\ idem'[want'[g].key].status = 202
  BY DEF GuardInv
<1>. DEFINE Kept == /\ cleanPc'[g] \in {"lookup", "conflict", "answered", "failed"}
                    /\ idem'[want'[g].key].status = 202
<1>1. /\ DOMAIN cleanPc = Clean /\ DOMAIN want = Clean /\ DOMAIN idem = IdemKey
      /\ guarded \subseteq Clean
      /\ \A c \in Clean : want[c].key \in IdemKey
  BY DEF CleanupTypeOK
<1>2. g \in guarded => /\ cleanPc[g] \in {"lookup", "conflict", "answered", "failed"}
                       /\ idem[want[g].key].status = 202
  BY DEF GuardInv
<1>3. ASSUME NEW c \in Clean, NEW k \in IdemKey, NEW objs \in SUBSET Object,
             RequestCleanup(c, k, objs)
      PROVE  Kept
  <2>1. CASE g = c
    <3>1. c \notin guarded
      BY <1>2, <1>3, <2>1 DEF RequestCleanup
    <3>. QED
      BY <1>1, <1>3, <2>1, <3>1 DEF RequestCleanup, CleanGoto
  <2>2. CASE g # c
    BY <1>1, <1>2, <1>3, <2>2 DEF RequestCleanup, CleanGoto
  <2>. QED
    BY <2>1, <2>2
<1>4. ASSUME NEW c \in Clean, Lookup(c) PROVE Kept
  BY <1>1, <1>2, <1>4 DEF Lookup, CleanGoto, NoRecord
<1>5. ASSUME NEW c \in Clean, MarkInProgress(c) PROVE Kept
  <2>1. /\ g \in guarded /\ want[g].key # want[c].key
        /\ want' = want
    BY <1>5 DEF MarkInProgress
  <2>2. g # c
    BY <2>1
  <2>3. idem'[want[g].key] = idem[want[g].key]
    BY <1>1, <1>5, <2>1 DEF MarkInProgress, SetRecord
  <2>. QED
    BY <1>1, <1>2, <1>5, <2>1, <2>2, <2>3 DEF MarkInProgress, CleanGoto
<1>6. ASSUME NEW c \in Clean, DeleteObjects(c) PROVE Kept
  BY <1>1, <1>2, <1>6 DEF DeleteObjects, CleanGoto
<1>7. ASSUME NEW c \in Clean, AppendAudit(c) PROVE Kept
  BY <1>1, <1>2, <1>7 DEF AppendAudit, CleanGoto
<1>8. ASSUME NEW c \in Clean, Finish(c) PROVE Kept
  <2>1. idem'[want[g].key].status = 202 /\ want' = want /\ g \in guarded
    BY <1>1, <1>2, <1>8 DEF Finish, SetRecord
  <2>2. cleanPc'[g] \in {"lookup", "conflict", "answered", "failed"}
    BY <1>1, <1>2, <1>8, <2>1 DEF Finish, CleanGoto
  <2>. QED
    BY <2>1, <2>2
<1>9. ASSUME NEW c \in Clean, CleanFails(c) PROVE Kept
  BY <1>1, <1>2, <1>9 DEF CleanFails, CleanGoto
<1>10. ASSUME NEW k \in IdemKey, ForgetKey(k) PROVE Kept
  BY <1>1, <1>2, <1>10 DEF ForgetKey
<1>11. ASSUME NEW o \in Object, UploadAgain(o) PROVE Kept
  BY <1>2, <1>11 DEF UploadAgain
<1>12. CASE UNCHANGED cleanVars
  BY <1>2, <1>12 DEF cleanVars
<1>. QED
  BY <1>3, <1>4, <1>5, <1>6, <1>7, <1>8, <1>9, <1>10, <1>11, <1>12
     DEF CleanupNext, CleanupWorld, HandleCleanup

\* POST /api/cleanup: a request that comes when its key was answered deletes nothing
\* as long as that record is there.
THEOREM CleanupAnsweredKeyGuards == CleanupSpec => []AnsweredKeyGuards
<1>1. CleanupInit => GuardInv
  BY DEF CleanupInit, GuardInv
<1>2. GuardInv => AnsweredKeyGuards
  BY DEF GuardInv, AnsweredKeyGuards, Working
<1>. QED
  BY <1>1, <1>2, GuardStep, CleanupTyped, PTL DEF CleanupSpec

Audited(o) == \E d \in Clean : <<d, o, "success">> \in audit

\* What makes AnswerIsAudited inductive: an answered record, from which others
\* are answered, speaks of audited deletions only, and a request still holds the
\* entries it has not appended.
AuditInv ==
  /\ \A k \in IdemKey : idem[k].status = 202 => \A o \in idem[k].deleted : Audited(o)
  /\ \A c \in Clean :
       /\ cleanPc[c] = "audit" =>
            \A o \in outcome[c].deleted : Audited(o) \/ <<o, "success">> \in unaudited[c]
       /\ cleanPc[c] = "finish" => \A o \in outcome[c].deleted : Audited(o)
       /\ cleanPc[c] = "answered" => \A o \in answer[c] : Audited(o)

\* A step that leaves the records alone and appends nothing, and takes one request
\* to where nothing is asked of it.
LEMMA AuditKept ==
  ASSUME AuditInv, DOMAIN cleanPc = Clean, UNCHANGED <<idem, outcome, unaudited, audit, answer>>,
         NEW c \in Clean, NEW label, label \notin {"audit", "finish", "answered"},
         cleanPc' = [cleanPc EXCEPT ![c] = label]
  PROVE  AuditInv'
<1>1. \A d \in Clean : cleanPc'[d] = cleanPc[d] \/ cleanPc'[d] = label
  OBVIOUS
<1>2. ASSUME NEW d \in Clean, cleanPc'[d] \in {"audit", "finish", "answered"}
      PROVE  cleanPc'[d] = cleanPc[d]
  BY <1>1, <1>2
<1>3. \A k \in IdemKey : idem'[k].status = 202 => \A o \in idem'[k].deleted : Audited(o)'
  BY DEF AuditInv, Audited
<1>4. ASSUME NEW d \in Clean
      PROVE  /\ cleanPc'[d] = "audit" =>
                  \A o \in outcome'[d].deleted : Audited(o)' \/ <<o, "success">> \in unaudited'[d]
             /\ cleanPc'[d] = "finish" => \A o \in outcome'[d].deleted : Audited(o)'
             /\ cleanPc'[d] = "answered" => \A o \in answer'[d] : Audited(o)'
  <2>. USE DEF AuditInv, Audited
  <2>1. CASE cleanPc'[d] = "audit"
    BY <1>2, <2>1
  <2>2. CASE cleanPc'[d] = "finish"
    BY <1>2, <2>2
  <2>3. CASE cleanPc'[d] = "answered"
    BY <1>2, <2>3
  <2>. QED
    BY <2>1, <2>2, <2>3
<1>. QED
  BY <1>3, <1>4 DEF AuditInv

LEMMA AuditStep == CleanupTypeOK /\ AuditInv /\ [CleanupNext]_cleanVars => AuditInv'
<1>. SUFFICES ASSUME CleanupTypeOK, AuditInv, [CleanupNext]_cleanVars PROVE AuditInv'
  OBVIOUS
<1>1. /\ DOMAIN cleanPc = Clean /\ DOMAIN want = Clean /\ DOMAIN idem = IdemKey
      /\ DOMAIN outcome = Clean /\ DOMAIN unaudited = Clean /\ DOMAIN answer = Clean
      /\ \A c \in Clean : want[c].key \in IdemKey
  BY DEF CleanupTypeOK
<1>2. ASSUME NEW c \in Clean, NEW k \in IdemKey, NEW objs \in SUBSET Object,
             RequestCleanup(c, k, objs)
      PROVE  AuditInv'
  BY <1>1, <1>2, AuditKept DEF RequestCleanup, CleanGoto
<1>3. ASSUME NEW c \in Clean, Lookup(c) PROVE AuditInv'
  <2>. DEFINE r == idem[want[c].key]
  <2>1. r.status = 202 => \A o \in r.deleted : Audited(o)
    BY <1>1 DEF AuditInv
  <2>2. /\ UNCHANGED <<idem, outcome, unaudited, audit>>
        /\ \A d \in Clean \ {c} : cleanPc'[d] = cleanPc[d] /\ answer'[d] = answer[d]
        /\ cleanPc'[c] \in {"mark", "conflict", "answered"}
    BY <1>1, <1>3 DEF Lookup, CleanGoto
  <2>3. cleanPc'[c] = "answered" => r.status = 202 /\ answer'[c] = r.deleted
    BY <1>1, <1>3 DEF Lookup, CleanGoto
  <2>. HIDE DEF r
  <2>. QED
    BY <2>1, <2>2, <2>3 DEF AuditInv, Audited
<1>4. ASSUME NEW c \in Clean, MarkInProgress(c) PROVE AuditInv'
  <2>1. /\ UNCHANGED <<outcome, unaudited, audit, answer>>
        /\ \A d \in Clean : cleanPc'[d] \in {cleanPc[d], "delete"}
    BY <1>1, <1>4 DEF MarkInProgress, CleanGoto
  <2>2. \A k \in IdemKey : idem'[k].status = 202 => idem'[k] = idem[k]
    BY <1>1, <1>4 DEF MarkInProgress, SetRecord
  <2>. QED
    BY <2>1, <2>2 DEF AuditInv, Audited
<1>5. ASSUME NEW c \in Clean, DeleteObjects(c) PROVE AuditInv'
  <2>1. PICK refused \in SUBSET want[c].objects :
          /\ outcome' = [outcome EXCEPT ![c] =
               [deleted |-> want[c].objects \ refused, notFound |-> refused]]
          /\ unaudited' = [unaudited EXCEPT ![c] =
               ((want[c].objects \ refused) \X {"success"}) \cup (refused \X {"not_found"})]
    BY <1>5 DEF DeleteObjects
  <2>2. \A o \in outcome'[c].deleted : <<o, "success">> \in unaudited'[c]
    BY <1>1, <2>1
  <2>3. /\ UNCHANGED <<idem, audit, answer>>
        /\ cleanPc'[c] = "audit"
        /\ \A d \in Clean \ {c} : /\ cleanPc'[d] = cleanPc[d]
                                  /\ outcome'[d] = outcome[d] /\ unaudited'[d] = unaudited[d]
    BY <1>1, <1>5, <2>1 DEF DeleteObjects, CleanGoto
  <2>. QED
    BY SMTT(20), <2>2, <2>3 DEF AuditInv, Audited
<1>6. ASSUME NEW c \in Clean, AppendAudit(c) PROVE AuditInv'
  <2>1. /\ UNCHANGED <<idem, outcome, answer>>
        /\ audit \subseteq audit'
        /\ \A d \in Clean \ {c} : cleanPc'[d] = cleanPc[d] /\ unaudited'[d] = unaudited[d]
    BY <1>1, <1>6 DEF AppendAudit, CleanGoto
  <2>2. CASE unaudited[c] = {}
    <3>1. cleanPc[c] = "audit" /\ cleanPc'[c] = "finish"
      BY <1>1, <1>6, <2>2 DEF AppendAudit, CleanGoto
    <3>2. \A o \in outcome[c].deleted : Audited(o)
      BY <2>2, <3>1 DEF AuditInv
    <3>3. UNCHANGED <<unaudited, audit>>
      BY <1>6, <2>2 DEF AppendAudit
    <3>. QED
      BY <2>1, <3>1, <3>2, <3>3 DEF AuditInv, Audited
  <2>3. CASE unaudited[c] # {}
    <3>1. PICK entry \in unaudited[c] :
            /\ audit' = audit \cup {<<c, entry[1], entry[2]>>}
            /\ unaudited' = [unaudited EXCEPT ![c] = @ \ {entry}]
            /\ UNCHANGED cleanPc
      BY <1>6, <2>3 DEF AppendAudit
    <3>2. cleanPc[c] = "audit" /\ cleanPc'[c] = "audit"
      BY <1>6, <3>1 DEF AppendAudit
    <3>3. ASSUME NEW o \in outcome[c].deleted
          PROVE  Audited(o)' \/ <<o, "success">> \in unaudited'[c]
      <4>1. CASE Audited(o)
        BY <2>1, <4>1 DEF Audited
      <4>2. CASE <<o, "success">> \in unaudited[c] /\ entry # <<o, "success">>
        BY <1>1, <3>1, <4>2
      <4>3. CASE entry = <<o, "success">>
        <5>1. <<c, o, "success">> \in audit'
          BY <3>1, <4>3
        <5>. QED
          BY <5>1 DEF Audited
      <4>. QED
        BY <3>2, <4>1, <4>2, <4>3 DEF AuditInv
    <3>. QED
      BY <2>1, <3>2, <3>3 DEF AuditInv, Audited
  <2>. QED
    BY <2>2, <2>3
<1>7. ASSUME NEW c \in Clean, Finish(c) PROVE AuditInv'
  <2>1. \A o \in outcome[c].deleted : Audited(o)
    BY <1>7 DEF Finish, AuditInv
  <2>2. /\ UNCHANGED <<outcome, unaudited, audit>>
        /\ answer'[c] = outcome[c].deleted /\ cleanPc'[c] = "answered"
        /\ \A d \in Clean \ {c} : cleanPc'[d] = cleanPc[d] /\ answer'[d] = answer[d]
    BY <1>1, <1>7 DEF Finish, CleanGoto
  <2>3. \A k \in IdemKey : idem'[k] = idem[k] \/ idem'[k].deleted = outcome[c].deleted
    BY <1>1, <1>7 DEF Finish, SetRecord
  <2>. QED
    BY <2>1, <2>2, <2>3 DEF AuditInv, Audited
<1>8. ASSUME NEW c \in Clean, CleanFails(c) PROVE AuditInv'
  BY <1>1, <1>8, AuditKept DEF CleanFails, CleanGoto
<1>9. ASSUME NEW k \in IdemKey, ForgetKey(k) PROVE AuditInv'
  <2>1. /\ UNCHANGED <<cleanPc, outcome, unaudited, audit, answer>>
        /\ \A j \in IdemKey : idem'[j] = idem[j] \/ idem'[j].status = 0
    BY <1>1, <1>9 DEF ForgetKey, NoRecord
  <2>. QED
    BY <2>1 DEF AuditInv, Audited
<1>10. ASSUME NEW o \in Object, UploadAgain(o) PROVE AuditInv'
  BY <1>10 DEF UploadAgain, AuditInv, Audited
<1>11. CASE UNCHANGED cleanVars
  BY <1>11 DEF cleanVars, AuditInv, Audited
<1>. QED
  BY <1>2, <1>3, <1>4, <1>5, <1>6, <1>7, <1>8, <1>9, <1>10, <1>11
     DEF CleanupNext, CleanupWorld, HandleCleanup

\* POST /api/cleanup: what an answer says was deleted has been audited, replays
\* included, whoever died in between.
THEOREM CleanupAnswerIsAudited == CleanupSpec => []AnswerIsAudited
<1>1. CleanupInit => AuditInv
  BY DEF CleanupInit, AuditInv, NoRecord, NoOutcome
<1>2. AuditInv => AnswerIsAudited
  BY DEF AuditInv, AnswerIsAudited, Audited
<1>. QED
  BY <1>1, <1>2, AuditStep, CleanupTyped, PTL DEF CleanupSpec

(***************************************************************************)
(* The gateway, as a client of cleanup.                                    *)
(***************************************************************************)

\* A plan that is being executed passed every check, and stands at a step.
Executing == gateway \in {"running", "waiting"} => Verdict(plan) = "running" /\ stepNo # 0

GatewayInv == GatewayTypeOK /\ Executing

\* A plan that passed the checks is one that was submitted, as an empty one is
\* refused; a step of it that mutates has the key of the plan.
LEMMA PlanIsSubmitted ==
  ASSUME GatewayInv, gateway \in {"running", "waiting"}
  PROVE  /\ plan \in Submission
         /\ \A i \in 1..Len(plan.steps) : plan.steps[i].op \in Mutating => plan.key \in IdemKey
<1>. DEFINE ops == {plan.steps[i].op : i \in 1..Len(plan.steps)}
<1>1. Verdict(plan) = "running"
  BY DEF GatewayInv, Executing
<1>2. ops # {} /\ ~(ops \cap Mutating # {} /\ plan.key = "none")
  BY <1>1 DEF Verdict
<1>3. plan \in Submission
  <2>1. plan = NoPlan => ops = {}
    BY DEF NoPlan
  <2>. QED
    BY <1>2, <2>1 DEF GatewayInv, GatewayTypeOK
<1>4. plan.key \in IdemKey \cup {"none"}
  BY <1>3, GatewayAssumption
<1>. QED
  BY <1>2, <1>3, <1>4

\* The step a plan sends is a request cleanup allows, or leaves it alone.
LEMMA SentStep ==
  ASSUME GatewayInv, SendStep
  PROVE  [CleanupNext]_cleanVars /\ call' \in Clean \cup {NoClean} /\ jobsMade' \in Nat
<1>. DEFINE step == plan.steps[stepNo]
<1>1. gateway = "running" /\ stepNo \in 1..Len(plan.steps)
  BY DEF SendStep, GatewayInv, GatewayTypeOK, Executing
<1>2. /\ plan \in Submission
      /\ step.op \in Mutating => plan.key \in IdemKey
  BY <1>1, PlanIsSubmitted
<1>3. step.objects \subseteq Object
  BY <1>1, <1>2, GatewayAssumption
<1>4. jobsMade \in Nat
  BY DEF GatewayInv, GatewayTypeOK
<1>5. CASE step.op = "cleanup_create"
  <2>1. PICK c \in Clean :
          RequestCleanup(c, plan.key, step.objects) /\ call' = c /\ UNCHANGED jobsMade
    BY <1>5 DEF SendStep
  <2>2. plan.key \in IdemKey
    BY <1>2, <1>5 DEF Mutating
  <2>3. CleanupNext
    BY <1>3, <2>1, <2>2 DEF CleanupNext
  <2>. QED
    BY <1>4, <2>1, <2>3
<1>6. CASE step.op # "cleanup_create"
  BY <1>4, <1>6 DEF SendStep
<1>. QED
  BY <1>5, <1>6

LEMMA GatewayStep ==
  GatewayInv /\ [GatewayNext]_<<cleanVars, gatewayVars>>
    => GatewayInv' /\ [CleanupNext]_cleanVars
<1>. SUFFICES ASSUME GatewayInv, [GatewayNext]_<<cleanVars, gatewayVars>>
              PROVE  GatewayInv' /\ [CleanupNext]_cleanVars
  OBVIOUS
<1>. DEFINE Ends == {"idle", "disabled", "invalid", "forbidden", "error", "done"}
<1>1. ASSUME [CleanupNext]_cleanVars PROVE CleanupTypeOK'
  BY <1>1, CleanupTypeStep DEF GatewayInv, GatewayTypeOK
<1>. USE DEF GatewayInv, GatewayTypeOK, Executing
<1>2. ASSUME NEW p \in Submission, Submit(p) PROVE GatewayInv' /\ [CleanupNext]_cleanVars
  <2>1. Verdict(p) \in {"disabled", "invalid", "forbidden", "running"}
    BY DEF Verdict
  <2>2. plan' = p /\ gateway' = Verdict(p) /\ stepNo' = 1 /\ call' = NoClean
    BY <1>2 DEF Submit
  <2>3. Verdict(plan)' = Verdict(p)
    BY <2>2 DEF Verdict
  <2>4. UNCHANGED cleanVars
    BY <1>2 DEF Submit
  <2>. QED
    BY <1>1, <1>2, <2>1, <2>2, <2>3, <2>4 DEF Submit
<1>3. CASE SendStep
  <2>1. [CleanupNext]_cleanVars /\ call' \in Clean \cup {NoClean} /\ jobsMade' \in Nat
    BY <1>3, SentStep
  <2>2. gateway = "running" /\ gateway' = "waiting" /\ UNCHANGED <<plan, stepNo, attempts>>
    BY <1>3 DEF SendStep
  <2>3. Verdict(plan)' = Verdict(plan)
    BY <2>2 DEF Verdict
  <2>. QED
    BY <1>1, <2>1, <2>2, <2>3
<1>4. CASE StepAnswered \/ StepAborted \/ PlanDone
  <2>1. /\ UNCHANGED <<cleanVars, plan, call, attempts, jobsMade>>
        /\ gateway \in {"running", "waiting"} /\ gateway' \in {"running", "error", "done"}
        /\ stepNo' \in {stepNo, stepNo + 1}
    BY <1>4 DEF StepAnswered, StepAborted, PlanDone
  <2>2. Verdict(plan)' = Verdict(plan)
    BY <2>1 DEF Verdict
  <2>. QED
    BY <1>1, <2>1, <2>2
<1>5. CASE CleanupWorld /\ UNCHANGED gatewayVars
  <2>1. CleanupNext
    BY <1>5 DEF CleanupNext
  <2>2. Verdict(plan)' = Verdict(plan)
    BY <1>5 DEF gatewayVars, Verdict
  <2>. QED
    BY <1>1, <1>5, <2>1, <2>2 DEF gatewayVars
<1>6. CASE UNCHANGED <<cleanVars, gatewayVars>>
  <2>1. Verdict(plan)' = Verdict(plan)
    BY <1>6 DEF gatewayVars, Verdict
  <2>. QED
    BY <1>1, <1>6, <2>1 DEF gatewayVars
<1>. QED
  BY <1>2, <1>3, <1>4, <1>5, <1>6 DEF GatewayNext

LEMMA GatewayAlwaysInv == GatewaySpec => []GatewayInv
<1>1. GatewayInit => GatewayInv
  <2>. SUFFICES ASSUME GatewayInit PROVE GatewayInv
    OBVIOUS
  <2>1. CleanupTypeOK
    BY CleanupInitTyped DEF GatewayInit
  <2>. QED
    BY <2>1 DEF GatewayInit, GatewayInv, GatewayTypeOK, Executing
<1>. QED
  BY <1>1, GatewayStep, PTL DEF GatewaySpec

\* Every variable of the gateway stays in its type, and with it those of the
\* cleanups it asks for.
THEOREM GatewayTyped == GatewaySpec => []GatewayTypeOK
<1>1. GatewayInv => GatewayTypeOK
  BY DEF GatewayInv
<1>. QED
  BY <1>1, GatewayAlwaysInv, PTL

\* What the gateway makes of POST /api/cleanup is what Cleanup allows any client
\* (policy.ts:24, client.ts:40): whatever a plan says, however it ended and however often
\* it is submitted again, a step of it is a request with a key, as a plan that
\* mutates without one is refused, and with objects under tmp/, or none at all.
THEOREM GatewayImplementsCleanup == GatewaySpec => CleanupSpec
<1>1. GatewayInit => CleanupInit
  BY DEF GatewayInit
<1>. QED
  BY <1>1, GatewayAlwaysInv, GatewayStep, PTL DEF GatewaySpec, CleanupSpec

\* A plan that is told of a deletion was told of one that is in the audit, even
\* when the plan before it was abandoned between the two.
THEOREM GatewayAnswerIsAudited == GatewaySpec => []AnswerIsAudited
  BY GatewayImplementsCleanup, CleanupAnswerIsAudited

\* A plan that is run again under a key that was answered deletes nothing for as
\* long as the record of the key says so.
THEOREM GatewayAnsweredKeyGuards == GatewaySpec => []AnsweredKeyGuards
  BY GatewayImplementsCleanup, CleanupAnsweredKeyGuards

(***************************************************************************)
(* The tool page.                                                          *)
(***************************************************************************)

\* What makes CleansOneRun inductive: the page shows the keys of the last run or
\* none, and a cleanup names no run after it; while a run is under way, every
\* cleanup is older.
OneRunInv ==
  /\ runs \in Nat
  /\ input \in {0, runs} /\ output \in {0, runs}
  /\ \A keys \in cleans : \A k, l \in keys : k.run = l.run
  /\ \A keys \in cleans : \A k \in keys : k.run \in 0..runs
  /\ phase # "idle" => \A keys \in cleans : \A k \in keys : k.run # runs

LEMMA OneRunStep == OneRunInv /\ [WorkbenchNext]_workbenchVars => OneRunInv'
<1>. SUFFICES ASSUME OneRunInv, [WorkbenchNext]_workbenchVars PROVE OneRunInv'
  OBVIOUS
<1>. USE DEF OneRunInv, pickVars, shownVars, serverVars
<1>1. ASSUME NEW f \in File \union {NoFile}, Pick(f) PROVE OneRunInv'
  BY <1>1 DEF Pick
<1>2. ASSUME NEW n \in stripping, Stripped(n) PROVE OneRunInv'
  BY <1>2 DEF Stripped
<1>3. CASE Start
  <2>1. /\ runs' = runs + 1 /\ input' = 0 /\ output' = 0 /\ cleans' = cleans
    BY <1>3 DEF Start
  <2>2. \A k \in 0..runs : k \in 0..(runs + 1) /\ k # runs + 1
    OBVIOUS
  <2>. QED
    BY <2>1, <2>2
<1>4. CASE Abandon
  BY <1>4 DEF Abandon, Stop
<1>5. CASE UploadInitialized
  BY <1>5 DEF UploadInitialized, Advance
<1>6. CASE UploadPosted \/ UploadCompleted \/ JobCreated
  BY <1>6 DEF UploadPosted, UploadCompleted, JobCreated, Advance
<1>7. CASE UploadCompletedUnheard \/ JobCreatedUnheard
  BY <1>7 DEF UploadCompletedUnheard, JobCreatedUnheard, Stop
<1>8. CASE PollDone
  BY <1>8 DEF PollDone
<1>9. CASE PollFailed
  BY <1>9 DEF PollFailed, Stop
<1>10. ASSUME NEW r \in 1..MaxRuns, NEW s \in JobState, JobMoves(r, s) PROVE OneRunInv'
  BY <1>10 DEF JobMoves
<1>11. ASSUME NEW withOutput \in BOOLEAN, SendCleanup(withOutput) PROVE OneRunInv'
  <2>. DEFINE keys == {Made(input, "input")} \union
                      (IF withOutput THEN {Made(output, "output")} ELSE {})
  <2>1. \A k \in keys : k.run = runs
    BY <1>11 DEF SendCleanup, Made
  <2>2. cleans' = cleans \union {keys} /\ phase = "idle" /\ UNCHANGED <<runs, phase, input, output>>
    BY <1>11 DEF SendCleanup
  <2>. HIDE DEF keys
  <2>. QED
    BY <2>1, <2>2
<1>12. ASSUME NEW keys \in cleans, Cleaned(keys) PROVE OneRunInv'
  BY <1>12 DEF Cleaned
<1>13. CASE UNCHANGED workbenchVars
  BY <1>13 DEF workbenchVars
<1>. QED
  BY <1>1, <1>2, <1>3, <1>4, <1>5, <1>6, <1>7, <1>8, <1>9, <1>10, <1>11, <1>12, <1>13
     DEF WorkbenchNext

\* What makes WorkbenchTypeOK inductive: a run that is under way was started, and
\* its upload is completed before its job is created.
BenchInv ==
  /\ WorkbenchTypeOK
  /\ phase # "idle" => runs # 0
  /\ phase = "create" => canonical[runs] # 0

\* The history stays typed and capped when a job of a run is remembered
\* (tool-workbench.tsx:116).
LEMMA RememberTyped ==
  ASSUME NEW Entry, NEW run, history \in Seq(Entry), Remember(run),
         [run |-> run, status |-> jobs[run]] \in Entry
  PROVE  history' \in Seq(Entry) /\ Len(history') <= HistoryCap
<1>. DEFINE entry == [run |-> run, status |-> jobs[run]]
            next == <<entry>> \o Others(run)
            size == IF Len(next) < HistoryCap THEN Len(next) ELSE HistoryCap
<1>1. Others(run) \in Seq(Entry)
  <2>. DEFINE places == {i \in DOMAIN history : history[i].run = run}
              place == CHOOSE i \in places : TRUE
  <2>1. CASE places = {}
    BY <2>1 DEF Others
  <2>2. CASE places # {}
    <3>1. place \in 1..Len(history)
      BY <2>2
    <3>2. PICK p \in 1..Len(history) : p = place
      BY <3>1
    <3>3. SubSeq(history, 1, p - 1) \in Seq(Entry)
      OBVIOUS
    <3>4. SubSeq(history, p + 1, Len(history)) \in Seq(Entry)
      OBVIOUS
    <3>5. Others(run) = SubSeq(history, 1, p - 1) \o SubSeq(history, p + 1, Len(history))
      BY <2>2, <3>2 DEF Others
    <3>. QED
      BY <3>3, <3>4, <3>5
  <2>. QED
    BY <2>1, <2>2
<1>2. next \in Seq(Entry)
  BY <1>1
<1>3. history' = SubSeq(next, 1, size)
  BY DEF Remember
<1>. HIDE DEF next
<1>4. size \in 0..Len(next) /\ size <= HistoryCap
  BY <1>2 DEF HistoryCap
<1>. HIDE DEF size
<1>5. SubSeq(next, 1, size) \in Seq(Entry) /\ Len(SubSeq(next, 1, size)) = size
  BY <1>2, <1>4
<1>. QED
  BY <1>3, <1>4, <1>5

LEMMA HistoryWidens ==
  ASSUME NEW n \in Nat
  PROVE  Seq([run : 1..n, status : Final]) \subseteq Seq([run : 1..(n + 1), status : Final])
<1>1. \A S, T : S \subseteq T => Seq(S) \subseteq Seq(T)
  OBVIOUS
<1>2. [run : 1..n, status : Final] \subseteq [run : 1..(n + 1), status : Final]
  OBVIOUS
<1>. QED
  BY <1>1, <1>2

LEMMA BenchStep == BenchInv /\ [WorkbenchNext]_workbenchVars => BenchInv'
<1>. SUFFICES ASSUME BenchInv, [WorkbenchNext]_workbenchVars PROVE BenchInv'
  OBVIOUS
<1>. DEFINE Entry == [run : 1..runs, status : Final]
            Named == [run : 1..runs, side : {"input", "output"}]
<1>. USE WorkbenchAssumption DEF BenchInv, WorkbenchTypeOK, pickVars, shownVars
<1>0. ASSUME UNCHANGED <<sent, serverVars>>
      PROVE  ServerTypeOK' /\ canonical' = canonical
  BY <1>0 DEF ServerTypeOK, serverVars
<1>1. ASSUME NEW f \in File \union {NoFile}, Pick(f) PROVE BenchInv'
  <2>1. picks' \in Seq(File \union {NoFile}) /\ Len(picks') = Len(picks) + 1
    BY <1>1 DEF Pick
  <2>2. stripping' \subseteq DOMAIN picks' /\ file' \in File \union {NoFile}
    BY <1>1, <2>1 DEF Pick
  <2>. QED
    BY <1>0, <1>1, <2>1, <2>2 DEF Pick
<1>2. ASSUME NEW n \in stripping, Stripped(n) PROVE BenchInv'
  <2>1. picks[n] \in File \union {NoFile}
    OBVIOUS
  <2>. QED
    BY <1>0, <1>2, <2>1 DEF Stripped
<1>3. CASE Start
  <2>1. /\ runs' = runs + 1 /\ runs' \in 0..MaxRuns
        /\ history' = history /\ cleans' = cleans
    BY <1>3 DEF Start
  <2>2. 1..runs \subseteq 1..runs'
    BY <2>1
  <2>3. Entry \subseteq [run : 1..runs', status : Final] /\
        Named \subseteq [run : 1..runs', side : {"input", "output"}]
    BY <2>2
  <2>4. history' \in Seq([run : 1..runs', status : Final])
    <3>1. history \in Seq([run : 1..runs, status : Final]) /\ runs \in Nat /\ runs + 1 \in Nat
      BY <2>1
    <3>2. Seq([run : 1..runs, status : Final]) \subseteq Seq([run : 1..(runs + 1), status : Final])
      BY ONLY <3>1, HistoryWidens
    <3>. QED
      BY ONLY <2>1, <3>1, <3>2
  <2>5. cleans' \subseteq SUBSET [run : 1..runs', side : {"input", "output"}]
    BY <2>1, <2>3
  <2>6. input' = 0 /\ output' = 0 /\ result' = 0 /\ 0 \in 0..runs'
    BY <1>3, <2>1 DEF Start
  <2>7. /\ file \in File /\ phase' = "init" /\ failed' = FALSE
        /\ sent' = [sent EXCEPT ![runs'] = file]
        /\ UNCHANGED <<picks, stripping, file, canonical, reads, jobs>>
    BY <1>3 DEF Start, serverVars
  <2>8. picks' \in Seq(File \union {NoFile}) /\ stripping' \subseteq DOMAIN picks'
    BY <2>7
  <2>9. runs' # 0 /\ Len(history') <= HistoryCap /\ ServerTypeOK'
    BY <2>1, <2>7 DEF ServerTypeOK
  <2>. QED
    BY <2>1, <2>4, <2>5, <2>6, <2>7, <2>8, <2>9 DEF Phases
<1>4. CASE Abandon
  BY <1>0, <1>4 DEF Abandon, Stop
<1>5. CASE UploadInitialized
  BY <1>0, <1>5 DEF UploadInitialized, Advance, Phases
<1>6. CASE UploadPosted
  BY <1>0, <1>6 DEF UploadPosted, Advance, Phases
<1>7. CASE UploadCompleted \/ UploadCompletedUnheard
  <2>1. runs \in 1..MaxRuns /\ UNCHANGED <<sent, reads, jobs>>
    BY <1>7 DEF UploadCompleted, UploadCompletedUnheard, Completed, Advance, Stop
  <2>2. PICK c \in {runs} \union {r \in 1..runs : canonical[r] = r /\ sent[r] = sent[runs]} :
          canonical' = [canonical EXCEPT ![runs] = c]
    BY <1>7, <2>1 DEF UploadCompleted, UploadCompletedUnheard, Completed
  <2>3. ServerTypeOK' /\ canonical'[runs] # 0
    <3>1. c \in 1..MaxRuns
      BY <2>1
    <3>2. canonical \in [1..MaxRuns -> 0..MaxRuns]
      BY DEF ServerTypeOK
    <3>3. canonical' \in [1..MaxRuns -> 0..MaxRuns] /\ canonical'[runs] = c
      BY ONLY <2>1, <2>2, <3>1, <3>2
    <3>4. canonical'[runs] # 0
      BY <3>1, <3>3
    <3>5. /\ sent' \in [1..MaxRuns -> File \union {NoFile}]
          /\ reads' \in [1..MaxRuns -> 0..MaxRuns] /\ jobs' \in [1..MaxRuns -> JobState]
      BY <2>1 DEF ServerTypeOK
    <3>. QED
      BY ONLY <3>3, <3>4, <3>5 DEF ServerTypeOK
  <2>4. CASE UploadCompleted
    BY <2>3, <2>4 DEF UploadCompleted, Advance, Phases
  <2>5. CASE UploadCompletedUnheard
    BY <2>3, <2>5 DEF UploadCompletedUnheard, Stop
  <2>. QED
    BY <1>7, <2>4, <2>5
<1>8. CASE JobCreated \/ JobCreatedUnheard
  <2>1. runs \in 1..MaxRuns /\ canonical[runs] \in 1..MaxRuns /\ sent' = sent /\ Created
    BY <1>8 DEF JobCreated, JobCreatedUnheard, Advance, Stop, ServerTypeOK
  <2>2. canonical' = canonical /\ ServerTypeOK'
    BY <2>1 DEF Created, ServerTypeOK, JobState
  <2>3. CASE JobCreated
    BY <2>2, <2>3 DEF JobCreated, Advance, Phases
  <2>4. CASE JobCreatedUnheard
    BY <2>2, <2>4 DEF JobCreatedUnheard, Stop
  <2>. QED
    BY <1>8, <2>3, <2>4
<1>9. CASE PollDone
  <2>1. runs \in 1..runs /\ jobs[runs] \in Final
    BY <1>9 DEF PollDone, Final
  <2>2. history' \in Seq(Entry) /\ Len(history') <= HistoryCap
    BY <1>9, <2>1, RememberTyped DEF PollDone
  <2>. QED
    BY <1>0, <1>9, <2>1, <2>2 DEF PollDone
<1>10. CASE PollFailed
  <2>1. runs \in 1..runs /\ jobs[runs] \in Final
    BY <1>10 DEF PollFailed, Final
  <2>2. history' \in Seq(Entry) /\ Len(history') <= HistoryCap
    BY <1>10, <2>1, RememberTyped DEF PollFailed
  <2>. QED
    BY <1>0, <1>10, <2>1, <2>2 DEF PollFailed, Stop
<1>11. ASSUME NEW r \in 1..MaxRuns, NEW s \in JobState, JobMoves(r, s) PROVE BenchInv'
  <2>1. ServerTypeOK' /\ canonical' = canonical
    BY <1>11 DEF JobMoves, ServerTypeOK
  <2>. QED
    BY <1>11, <2>1 DEF JobMoves
<1>12. ASSUME NEW withOutput \in BOOLEAN, SendCleanup(withOutput) PROVE BenchInv'
  <2>. DEFINE keys == {Made(input, "input")} \union
                      (IF withOutput THEN {Made(output, "output")} ELSE {})
  <2>1. input \in 1..runs /\ (withOutput => output \in 1..runs)
    BY <1>12 DEF SendCleanup
  <2>2. keys \in SUBSET Named
    BY <2>1 DEF Made
  <2>3. cleans' = cleans \union {keys}
    BY <1>12 DEF SendCleanup
  <2>. HIDE DEF keys
  <2>. QED
    BY <1>0, <1>12, <2>2, <2>3 DEF SendCleanup
<1>13. ASSUME NEW keys \in cleans, Cleaned(keys) PROVE BenchInv'
  BY <1>0, <1>13 DEF Cleaned
<1>14. CASE UNCHANGED workbenchVars
  BY <1>0, <1>14 DEF workbenchVars, serverVars
<1>. QED
  BY <1>1, <1>2, <1>3, <1>4, <1>5, <1>6, <1>7, <1>8, <1>9, <1>10, <1>11, <1>12, <1>13, <1>14
     DEF WorkbenchNext

LEMMA BenchStart == WorkbenchInit => BenchInv
<1>. SUFFICES ASSUME WorkbenchInit PROVE BenchInv
  OBVIOUS
<1>1. picks = <<>> /\ stripping = {} /\ picks \in Seq(File \union {NoFile})
  BY DEF WorkbenchInit
<1>2. /\ history = <<>> /\ history \in Seq([run : 1..runs, status : Final])
      /\ Len(history) <= HistoryCap
  BY DEF WorkbenchInit, HistoryCap
<1>3. ServerTypeOK
  BY WorkbenchAssumption DEF WorkbenchInit, ServerTypeOK, JobState
<1>4. /\ file = NoFile /\ runs = 0 /\ 0 \in 0..MaxRuns
      /\ phase = "idle" /\ failed = FALSE /\ cleans = {}
  BY WorkbenchAssumption DEF WorkbenchInit
<1>5. {input, output, result} \subseteq 0..runs
  BY DEF WorkbenchInit
<1>. QED
  BY <1>1, <1>2, <1>3, <1>4, <1>5 DEF BenchInv, WorkbenchTypeOK

\* The state of the tool page keeps its shape: a pick that is being stripped was
\* made, the page shows keys of runs it started, and the jobs it keeps in
\* localStorage (tool-workbench.tsx:116) are finished jobs of its runs, twenty
\* at most.
THEOREM WorkbenchTyped == WorkbenchSpec => []WorkbenchTypeOK
<1>1. BenchInv => WorkbenchTypeOK
  BY DEF BenchInv
<1>. QED
  BY <1>1, BenchStart, BenchStep, PTL DEF WorkbenchSpec

\* What a run recorded as canonical, and what its job reads, was uploaded by that run
\* or by an earlier one of the same file.
ReadsInv ==
  \A r \in 1..MaxRuns :
    /\ canonical[r] # 0 => /\ r <= runs /\ canonical[r] <= r
                           /\ sent[canonical[r]] = sent[r]
    /\ reads[r] # 0 => r <= runs /\ reads[r] <= r /\ sent[reads[r]] = sent[r]

LEMMA ReadsStep == BenchInv /\ ReadsInv /\ [WorkbenchNext]_workbenchVars => ReadsInv'
<1>. SUFFICES ASSUME BenchInv, ReadsInv, [WorkbenchNext]_workbenchVars PROVE ReadsInv'
  OBVIOUS
<1>0. /\ MaxRuns \in Nat /\ runs \in 0..MaxRuns /\ DOMAIN sent = 1..MaxRuns
      /\ canonical \in [1..MaxRuns -> 0..MaxRuns] /\ reads \in [1..MaxRuns -> 0..MaxRuns]
      /\ phase # "idle" => runs # 0
      /\ phase = "create" => canonical[runs] # 0
  BY WorkbenchAssumption DEF BenchInv, WorkbenchTypeOK, ServerTypeOK
<1>1. CASE UNCHANGED <<runs, sent, canonical, reads>>
  BY <1>1 DEF ReadsInv
<1>2. CASE Start
  <2>1. /\ runs' = runs + 1 /\ runs + 1 \in 1..MaxRuns
        /\ \A r \in 1..MaxRuns : r <= runs => sent'[r] = sent[r]
        /\ UNCHANGED <<canonical, reads>>
    BY <1>0, <1>2 DEF Start, serverVars
  <2>2. ASSUME NEW r \in 1..MaxRuns, canonical[r] # 0
        PROVE  sent'[canonical[r]] = sent'[r]
    <3>1. canonical[r] \in 1..MaxRuns /\ canonical[r] <= r /\ r <= runs
      BY <1>0, <2>2 DEF ReadsInv
    <3>2. sent'[canonical[r]] = sent[canonical[r]] /\ sent'[r] = sent[r]
      BY <1>0, <2>1, <3>1
    <3>. QED
      BY <2>2, <3>2 DEF ReadsInv
  <2>3. ASSUME NEW r \in 1..MaxRuns, reads[r] # 0
        PROVE  sent'[reads[r]] = sent'[r]
    <3>1. reads[r] \in 1..MaxRuns /\ reads[r] <= r /\ r <= runs
      BY <1>0, <2>3 DEF ReadsInv
    <3>2. sent'[reads[r]] = sent[reads[r]] /\ sent'[r] = sent[r]
      BY <1>0, <2>1, <3>1
    <3>. QED
      BY <2>3, <3>2 DEF ReadsInv
  <2>4. ASSUME NEW r \in 1..MaxRuns PROVE r <= runs => r <= runs'
    BY <1>0, <2>1
  <2>. QED
    BY <2>1, <2>2, <2>3, <2>4 DEF ReadsInv
<1>3. CASE UploadCompleted \/ UploadCompletedUnheard
  <2>1. /\ runs \in 1..MaxRuns
        /\ UNCHANGED <<runs, sent, reads>>
    BY <1>0, <1>3 DEF UploadCompleted, UploadCompletedUnheard, Completed, Advance, Stop
  <2>2. PICK c \in {runs} \union {r \in 1..runs : canonical[r] = r /\ sent[r] = sent[runs]} :
          canonical' = [canonical EXCEPT ![runs] = c]
    BY <1>3 DEF UploadCompleted, UploadCompletedUnheard, Completed
  <2>3. c \in 1..runs /\ sent[c] = sent[runs] /\ canonical'[runs] = c
    BY <1>0, <2>1, <2>2
  <2>4. \A r \in 1..MaxRuns : r # runs => canonical'[r] = canonical[r]
    BY <1>0, <2>2
  <2>5. ASSUME NEW r \in 1..MaxRuns, canonical'[r] # 0
        PROVE  r <= runs' /\ canonical'[r] <= r /\ sent'[canonical'[r]] = sent'[r]
    <3>1. CASE r = runs
      BY <2>1, <2>3, <3>1
    <3>2. CASE r # runs
      <4>1. canonical'[r] = canonical[r] /\ canonical[r] # 0
        BY <2>4, <2>5, <3>2
      <4>. QED
        BY <2>1, <4>1 DEF ReadsInv
    <3>. QED
      BY <3>1, <3>2
  <2>6. ASSUME NEW r \in 1..MaxRuns, reads'[r] # 0
        PROVE  r <= runs' /\ reads'[r] <= r /\ sent'[reads'[r]] = sent'[r]
    BY <2>1, <2>6 DEF ReadsInv
  <2>. QED
    BY <2>5, <2>6 DEF ReadsInv
<1>4. CASE JobCreated \/ JobCreatedUnheard
  <2>1. /\ runs \in 1..MaxRuns /\ canonical[runs] # 0
        /\ reads' = [reads EXCEPT ![runs] = canonical[runs]]
        /\ UNCHANGED <<runs, sent, canonical>>
    BY <1>0, <1>4 DEF JobCreated, JobCreatedUnheard, Created, Advance, Stop
  <2>2. reads'[runs] = canonical[runs] /\ \A r \in 1..MaxRuns \ {runs} : reads'[r] = reads[r]
    BY <1>0, <2>1 DEF ReadsInv
  <2>. QED
    BY <1>0, <2>1, <2>2 DEF ReadsInv
<1>5. CASE Abandon \/ UploadInitialized \/ UploadPosted \/ PollDone \/ PollFailed
  BY <1>1, <1>5 DEF Abandon, Stop, UploadInitialized, UploadPosted, PollDone, PollFailed, Advance,
     serverVars
<1>6. CASE \/ \E f \in File \union {NoFile} : Pick(f)
           \/ \E n \in stripping : Stripped(n)
           \/ \E r \in 1..MaxRuns, s \in JobState : JobMoves(r, s)
           \/ \E withOutput \in BOOLEAN : SendCleanup(withOutput)
           \/ \E keys \in cleans : Cleaned(keys)
           \/ UNCHANGED workbenchVars
  BY <1>1, <1>6 DEF Pick, Stripped, JobMoves, SendCleanup, Cleaned, workbenchVars, serverVars
<1>. QED
  BY <1>2, <1>3, <1>4, <1>5, <1>6 DEF WorkbenchNext

\* The cleanup buttons of the tool page (tool-workbench.tsx:430) never pair the
\* upload of one run with the output of another nor name what the run under way
\* made, however runs fail and answers are late; the input that run reads is among
\* what they name only if an earlier run uploaded the same file.
THEOREM WorkbenchCleansOneRun == WorkbenchSpec => []CleansOneRun
<1>1. WorkbenchInit => OneRunInv /\ ReadsInv
  BY WorkbenchAssumption DEF WorkbenchInit, OneRunInv, ReadsInv
<1>2. BenchInv /\ OneRunInv /\ ReadsInv => CleansOneRun
  <2>. SUFFICES ASSUME BenchInv, OneRunInv, ReadsInv, NEW keys \in cleans, phase # "idle",
                       NEW k \in keys, k = Made(reads[runs], "input")
                PROVE  sent[k.run] = sent[runs]
    BY DEF OneRunInv, CleansOneRun
  <2>1. runs \in 1..MaxRuns /\ reads[runs] \in 0..MaxRuns
    BY WorkbenchAssumption DEF BenchInv, WorkbenchTypeOK, ServerTypeOK
  <2>2. k.run = reads[runs] /\ k.run \in 1..runs
    BY DEF Made, BenchInv, WorkbenchTypeOK
  <2>. QED
    BY <2>1, <2>2 DEF ReadsInv
<1>. QED
  BY <1>1, <1>2, BenchStart, BenchStep, OneRunStep, ReadsStep, PTL DEF WorkbenchSpec

\* The history is kept newest first, and a run is in it once: what Others takes out
\* is thus all that the filter of persistJobHistory takes out.
HistoryOrdered ==
  \A i, j \in DOMAIN history : i < j => history[i].run > history[j].run

\* A run under way is not in the history yet.
OrderInv ==
  /\ BenchInv
  /\ HistoryOrdered
  /\ phase # "idle" => \A i \in DOMAIN history : history[i].run < runs

LEMMA RememberOrdered ==
  ASSUME OrderInv, phase # "idle", Remember(runs), runs' = runs
  PROVE  HistoryOrdered'
<1>. DEFINE Entry == [run : Nat, status : Final \union {jobs[runs]}]
            entry == [run |-> runs, status |-> jobs[runs]]
            next == <<entry>> \o history
            size == IF Len(next) < HistoryCap THEN Len(next) ELSE HistoryCap
<1>1. runs \in Nat /\ history \in Seq(Entry) /\ \A i \in DOMAIN history : history[i].run < runs
  <2>1. history \in Seq([run : 1..runs, status : Final]) /\ runs \in Nat
    BY WorkbenchAssumption DEF OrderInv, BenchInv, WorkbenchTypeOK
  <2>2. \A S, T : S \subseteq T => Seq(S) \subseteq Seq(T)
    OBVIOUS
  <2>3. [run : 1..runs, status : Final] \subseteq Entry
    BY <2>1
  <2>4. history \in Seq(Entry)
    <3>1. Seq([run : 1..runs, status : Final]) \subseteq Seq(Entry)
      BY ONLY <2>2, <2>3
    <3>. QED
      BY ONLY <2>1, <3>1
  <2>5. \A i \in DOMAIN history : history[i].run < runs
    BY DEF OrderInv
  <2>. QED
    BY ONLY <2>1, <2>4, <2>5
<1>2. Others(runs) = history
  <2>1. {i \in DOMAIN history : history[i].run = runs} = {}
    <3>1. \A i \in DOMAIN history : history[i].run # runs
      <4>1. ASSUME NEW i \in DOMAIN history PROVE history[i].run # runs
        <5>1. history[i].run < runs
          BY <1>1
        <5>. QED
          BY <1>1, <5>1
      <4>. QED
        BY <4>1
    <3>. QED
      BY <3>1
  <2>. QED
    BY <2>1 DEF Others
<1>3. history' = SubSeq(next, 1, size)
  BY <1>2 DEF Remember
<1>4. entry \in Entry /\ entry.run = runs
  BY <1>1
<1>5. /\ next \in Seq(Entry) /\ Len(next) = Len(history) + 1
      /\ next[1].run = runs
      /\ \A i \in 2..Len(next) : i - 1 \in DOMAIN history /\ next[i] = history[i - 1]
  <2>. HIDE DEF entry, Entry
  <2>. QED
    BY <1>1, <1>4
<1>. HIDE DEF next
<1>6. size \in 0..Len(next)
  BY <1>5 DEF HistoryCap
<1>. HIDE DEF size
<1>7. DOMAIN history' \subseteq 1..Len(next) /\ \A i \in DOMAIN history' : history'[i] = next[i]
  <2>. HIDE DEF Entry
  <2>1. PICK m \in 0..Len(next) : m = size
    BY <1>6
  <2>2. next \in Seq(Entry) /\ history' = SubSeq(next, 1, m)
    BY <1>3, <1>5, <2>1
  <2>3. DOMAIN SubSeq(next, 1, m) = 1..m /\ \A i \in 1..m : SubSeq(next, 1, m)[i] = next[i]
    BY ONLY <2>2, m \in 0..Len(next)
  <2>4. Len(next) \in Nat
    BY <2>2
  <2>. QED
    BY ONLY <2>2, <2>3, <2>4, m \in 0..Len(next)
<1>8. ASSUME NEW i \in DOMAIN history', NEW j \in DOMAIN history', i < j
      PROVE  history'[i].run > history'[j].run
  <2>1. i \in 1..Len(next) /\ j \in 2..Len(next) /\ history'[i] = next[i] /\ history'[j] = next[j]
        /\ Len(next) \in Nat
    BY <1>5, <1>7, <1>8
  <2>2. j - 1 \in DOMAIN history /\ next[j] = history[j - 1]
    BY <1>5, <2>1
  <2>3. CASE i = 1
    <3>1. history[j - 1].run < runs /\ history[j - 1].run \in Nat
      <4>1. history[j - 1] \in Entry /\ history[j - 1].run < runs
        <5>. HIDE DEF Entry
        <5>. QED
          BY ONLY <1>1, <2>2
      <4>. QED
        BY ONLY <4>1
    <3>2. history'[i].run = runs /\ history'[j].run = history[j - 1].run
      BY <1>5, <2>1, <2>2, <2>3
    <3>. QED
      BY ONLY <1>1, <3>1, <3>2
  <2>4. CASE i # 1
    <3>1. i - 1 \in DOMAIN history /\ next[i] = history[i - 1] /\ i - 1 < j - 1
      BY <1>5, <1>8, <2>1, <2>4
    <3>2. history[i - 1].run > history[j - 1].run
      BY <2>2, <3>1 DEF OrderInv, HistoryOrdered
    <3>. QED
      BY <2>1, <2>2, <3>1, <3>2
  <2>. QED
    BY <2>3, <2>4
<1>. QED
  BY <1>8 DEF HistoryOrdered

LEMMA OrderStep == OrderInv /\ [WorkbenchNext]_workbenchVars => OrderInv'
<1>. SUFFICES ASSUME OrderInv, [WorkbenchNext]_workbenchVars PROVE OrderInv'
  OBVIOUS
<1>1. BenchInv /\ BenchInv'
  BY BenchStep DEF OrderInv
<1>2. CASE PollDone \/ PollFailed
  <2>1. phase # "idle" /\ phase' = "idle" /\ runs' = runs /\ Remember(runs)
    BY <1>2 DEF PollDone, PollFailed, Stop, shownVars
  <2>. QED
    BY <1>1, <2>1, RememberOrdered DEF OrderInv
<1>3. CASE Start
  <2>1. runs \in Nat /\ runs' = runs + 1 /\ history' = history
    BY <1>1, <1>3, WorkbenchAssumption DEF Start, BenchInv, WorkbenchTypeOK
  <2>2. \A i \in DOMAIN history : history[i].run \in 1..runs
    <3>. DEFINE Entry == [run : 1..runs, status : Final]
    <3>1. history \in Seq(Entry)
      BY <1>1 DEF BenchInv, WorkbenchTypeOK
    <3>2. ASSUME NEW i \in DOMAIN history PROVE history[i].run \in 1..runs
      <4>1. history[i] \in Entry
        <5>. HIDE DEF Entry
        <5>. QED
          BY ONLY <3>1, i \in DOMAIN history
      <4>. QED
        BY ONLY <4>1
    <3>. QED
      BY ONLY <3>2
  <2>3. \A i \in DOMAIN history : history[i].run < runs + 1
    BY <2>1, <2>2
  <2>. QED
    BY <1>1, <2>1, <2>3 DEF OrderInv, HistoryOrdered
<1>4. CASE UNCHANGED <<history, runs>> /\ (phase' # "idle" => phase # "idle")
  BY <1>1, <1>4 DEF OrderInv, HistoryOrdered
<1>5. CASE \/ Abandon \/ UploadInitialized \/ UploadPosted \/ UploadCompleted
           \/ UploadCompletedUnheard \/ JobCreated \/ JobCreatedUnheard
  BY <1>4, <1>5 DEF Abandon, Stop, UploadInitialized, UploadPosted, UploadCompleted,
     UploadCompletedUnheard, JobCreated, JobCreatedUnheard, Advance, shownVars
<1>6. CASE \/ \E f \in File \union {NoFile} : Pick(f)
           \/ \E n \in stripping : Stripped(n)
           \/ \E r \in 1..MaxRuns, s \in JobState : JobMoves(r, s)
           \/ \E withOutput \in BOOLEAN : SendCleanup(withOutput)
           \/ \E keys \in cleans : Cleaned(keys)
           \/ UNCHANGED workbenchVars
  BY <1>4, <1>6 DEF Pick, Stripped, JobMoves, SendCleanup, Cleaned, workbenchVars
<1>. QED
  BY <1>2, <1>3, <1>5, <1>6 DEF WorkbenchNext

\* The jobs the tool page keeps in localStorage (tool-workbench.tsx:116) are in
\* the order of their runs, the newest first, and no run is kept twice, however
\* often its job was polled, redelivered or abandoned.
THEOREM WorkbenchHistoryOrdered == WorkbenchSpec => []HistoryOrdered
<1>1. WorkbenchInit => OrderInv
  BY BenchStart DEF OrderInv, HistoryOrdered, WorkbenchInit
<1>2. OrderInv => HistoryOrdered
  BY DEF OrderInv
<1>. QED
  BY <1>1, <1>2, OrderStep, PTL DEF WorkbenchSpec

(***************************************************************************)
(* Background removal.                                                     *)
(***************************************************************************)

Breaker == [state : {"closed", "open", "halfOpen"}, pendingClose : BOOLEAN,
            fires : Nat, failures : Nat]

LEMMA BreakerSet ==
  ASSUME NEW b \in Breaker, NEW s \in {"closed", "open", "halfOpen"}, NEW p \in BOOLEAN
  PROVE  /\ [b EXCEPT !.state = s, !.pendingClose = p] \in Breaker
         /\ [b EXCEPT !.state = s, !.pendingClose = p].state = s
         /\ [b EXCEPT !.state = s, !.pendingClose = p].pendingClose = p
BY DEF Breaker

LEMMA BreakerFired ==
  ASSUME NEW b \in Breaker
  PROVE  /\ [b EXCEPT !.fires = @ + 1] \in Breaker
         /\ [b EXCEPT !.fires = @ + 1].pendingClose = b.pendingClose
         /\ [b EXCEPT !.fires = @ + 1].state = b.state
         /\ [b EXCEPT !.fires = @ + 1, !.pendingClose = FALSE] \in Breaker
         /\ [b EXCEPT !.fires = @ + 1, !.pendingClose = FALSE].pendingClose = FALSE
<1>1. b.fires + 1 \in Nat
  BY DEF Breaker
<1>2. /\ [b EXCEPT !.fires = @ + 1] \in Breaker
      /\ [b EXCEPT !.fires = @ + 1].pendingClose = b.pendingClose
      /\ [b EXCEPT !.fires = @ + 1].state = b.state
  BY <1>1 DEF Breaker
<1>3. /\ [b EXCEPT !.fires = @ + 1, !.pendingClose = FALSE] \in Breaker
      /\ [b EXCEPT !.fires = @ + 1, !.pendingClose = FALSE].pendingClose = FALSE
  BY <1>1 DEF Breaker
<1>. QED
  BY <1>2, <1>3

\* A failed call leaves a probe awaited only where one was.
LEMMA FailedBreaker ==
  ASSUME NEW b \in Breaker
  PROVE  /\ Failed(b) \in Breaker
         /\ Failed(b).pendingClose => b.pendingClose /\ Failed(b).state = b.state
<1>. DEFINE c == [b EXCEPT !.failures = @ + 1]
            opens == \/ c.state = "halfOpen"
                     \/ c.fires >= Volume /\ 2 * c.failures > c.fires
<1>1. c \in Breaker /\ c.state = b.state /\ c.pendingClose = b.pendingClose
  <2>1. b.failures + 1 \in Nat
    BY DEF Breaker
  <2>. QED
    BY <2>1 DEF Breaker
<1>2. Failed(b) = IF opens THEN [c EXCEPT !.state = "open", !.pendingClose = FALSE] ELSE c
  BY DEF Failed
<1>. HIDE DEF c, opens
<1>3. CASE opens
  <2>1. Failed(b) = [c EXCEPT !.state = "open", !.pendingClose = FALSE]
    BY <1>2, <1>3
  <2>2. /\ [c EXCEPT !.state = "open", !.pendingClose = FALSE] \in Breaker
        /\ [c EXCEPT !.state = "open", !.pendingClose = FALSE].pendingClose = FALSE
    BY <1>1, BreakerSet
  <2>. QED
    BY <2>1, <2>2
<1>4. CASE ~opens
  BY <1>1, <1>2, <1>4
<1>. QED
  BY <1>3, <1>4

\* What makes ProviderSpared inductive: a breaker awaits a probe only half open,
\* before it let any through.
SparedInv ==
  /\ breaker \in Breaker
  /\ probes \in 0..1
  /\ breaker.pendingClose => breaker.state = "halfOpen" /\ probes = 0

LEMMA SparedStep == SparedInv /\ [RemovalNext]_removalVars => SparedInv'
<1>. SUFFICES ASSUME SparedInv, [RemovalNext]_removalVars PROVE SparedInv'
  OBVIOUS
<1>. USE DEF SparedInv, Breaker
<1>1. ASSUME NEW r \in Removal, Attempt(r) PROVE SparedInv'
  <2>1. CASE breaker.state = "open"
    BY <1>1, <2>1 DEF Attempt
  <2>2. CASE breaker.state # "open" /\ Admits(breaker)
    <3>1. /\ breaker' = [breaker EXCEPT !.fires = @ + 1, !.pendingClose = FALSE]
          /\ probes' = IF breaker.state = "closed" THEN probes ELSE probes + 1
      BY <1>1, <2>2 DEF Attempt
    <3>2. probes' \in 0..1
      BY <2>2, <3>1 DEF Admits
    <3>. QED
      BY <3>1, <3>2, BreakerFired
  <2>3. CASE breaker.state # "open" /\ ~Admits(breaker)
    <3>1. breaker' = [breaker EXCEPT !.fires = @ + 1] /\ probes' = probes
      BY <1>1, <2>3 DEF Attempt
    <3>. QED
      BY <3>1, BreakerFired
  <2>. QED
    BY <2>1, <2>2, <2>3
<1>2. ASSUME NEW r \in Removal, Succeeds(r) PROVE SparedInv'
  BY <1>2 DEF Succeeds
<1>3. ASSUME NEW r \in Removal, Rejected(r) \/ Errs(r) PROVE SparedInv'
  <2>1. breaker' = Failed(breaker) /\ probes' = probes
    BY <1>3 DEF Rejected, Errs
  <2>. QED
    BY <2>1, FailedBreaker
<1>4. ASSUME NEW r \in Removal, BackedOff(r) PROVE SparedInv'
  BY <1>4 DEF BackedOff
<1>5. CASE HalfOpen
  <2>1. /\ [breaker EXCEPT !.state = "halfOpen", !.pendingClose = TRUE] \in Breaker
        /\ [breaker EXCEPT !.state = "halfOpen", !.pendingClose = TRUE].state = "halfOpen"
    BY BreakerSet
  <2>2. /\ breaker' = [breaker EXCEPT !.state = "halfOpen", !.pendingClose = TRUE]
        /\ probes' = 0
    BY <1>5 DEF HalfOpen
  <2>. QED
    BY <2>1, <2>2
<1>6. CASE Roll
  BY <1>6 DEF Roll
<1>7. CASE UNCHANGED removalVars
  BY <1>7 DEF removalVars
<1>. QED
  BY <1>1, <1>2, <1>3, <1>4, <1>5, <1>6, <1>7 DEF RemovalNext

\* The provider receives one call per reset while it fails, however many removals
\* and retries share the breaker.
THEOREM RemovalSparesProvider == RemovalSpec => []ProviderSpared
<1>1. RemovalInit => SparedInv
  BY DEF RemovalInit, NewBreaker, SparedInv, Breaker
<1>2. SparedInv => ProviderSpared
  BY DEF SparedInv, ProviderSpared
<1>. QED
  BY <1>1, <1>2, SparedStep, PTL DEF RemovalSpec

\* Attempts are left for a removal that is about to make one, and each calls the
\* provider at most once.
RemovalInv ==
  /\ RemovalTypeOK
  /\ \A r \in Removal :
       /\ removal[r] \in {"loop", "backoff"} => tried[r] <= MaxRetries
       /\ called[r] <= tried[r]

LEMMA RemovalStep == RemovalInv /\ [RemovalNext]_removalVars => RemovalInv'
<1>. SUFFICES ASSUME RemovalInv, [RemovalNext]_removalVars PROVE RemovalInv'
  OBVIOUS
<1>. USE RemovalAssumption DEF RemovalInv, RemovalTypeOK
<1>0. breaker \in Breaker
  BY DEF Breaker
<1>1. ASSUME NEW r \in Removal, Attempt(r) PROVE RemovalInv'
  <2>1. CASE breaker.state = "open"
    BY <1>1, <2>1 DEF Attempt, Proceed
  <2>2. CASE breaker.state # "open" /\ Admits(breaker)
    <3>1. breaker' = [breaker EXCEPT !.fires = @ + 1, !.pendingClose = FALSE]
      BY <1>1, <2>2 DEF Attempt
    <3>2. breaker' \in Breaker
      BY <1>0, <3>1, BreakerFired
    <3>3. /\ removal' = [removal EXCEPT ![r] = "calling"]
          /\ tried' = [tried EXCEPT ![r] = @ + 1] /\ called' = [called EXCEPT ![r] = @ + 1]
          /\ probes' \in Nat /\ removal[r] = "loop"
      BY <1>1, <2>2 DEF Attempt, Proceed
    <3>. QED
      BY <3>2, <3>3 DEF Breaker
  <2>3. CASE breaker.state # "open" /\ ~Admits(breaker)
    <3>1. breaker' = [breaker EXCEPT !.fires = @ + 1]
      BY <1>1, <2>3 DEF Attempt
    <3>2. breaker' \in Breaker
      BY <1>0, <3>1, BreakerFired
    <3>3. /\ removal' = [removal EXCEPT ![r] =
                           IF tried[r] + 1 > MaxRetries THEN "failed" ELSE "backoff"]
          /\ tried' = [tried EXCEPT ![r] = @ + 1] /\ called' = called
          /\ probes' = probes /\ removal[r] = "loop"
      BY <1>1, <2>3 DEF Attempt, Proceed, AfterError
    <3>. QED
      BY <3>2, <3>3 DEF Breaker
  <2>. QED
    BY <2>1, <2>2, <2>3
<1>2. ASSUME NEW r \in Removal, Succeeds(r) PROVE RemovalInv'
  BY <1>2 DEF Succeeds, Proceed
<1>3. ASSUME NEW r \in Removal, Rejected(r) PROVE RemovalInv'
  BY <1>3, FailedBreaker DEF Rejected, Proceed, Breaker
<1>4. ASSUME NEW r \in Removal, Errs(r) PROVE RemovalInv'
  <2>1. breaker' \in Breaker
    BY <1>0, <1>4, FailedBreaker DEF Errs
  <2>2. /\ removal' = [removal EXCEPT ![r] = IF tried[r] > MaxRetries THEN "failed" ELSE "backoff"]
        /\ UNCHANGED <<tried, called, probes>>
    BY <1>4 DEF Errs, Proceed, AfterError
  <2>. QED
    BY <2>1, <2>2 DEF Breaker
<1>5. ASSUME NEW r \in Removal, BackedOff(r) PROVE RemovalInv'
  BY <1>5 DEF BackedOff, Proceed
<1>6. CASE HalfOpen
  BY <1>6 DEF HalfOpen
<1>7. CASE Roll
  BY <1>7 DEF Roll
<1>8. CASE UNCHANGED removalVars
  BY <1>8 DEF removalVars
<1>. QED
  BY <1>1, <1>2, <1>3, <1>4, <1>5, <1>6, <1>7, <1>8 DEF RemovalNext

\* removeBackground stays in its types, which bound its attempts and calls.
THEOREM RemovalTyped == RemovalSpec => []RemovalTypeOK
<1>1. RemovalInit => RemovalInv
  BY RemovalAssumption DEF RemovalInit, RemovalInv, RemovalTypeOK, NewBreaker
<1>2. RemovalInv => RemovalTypeOK
  BY DEF RemovalInv
<1>. QED
  BY <1>1, <1>2, RemovalStep, PTL DEF RemovalSpec

(***************************************************************************)
(* What the API and the worker agree on.                                   *)
(***************************************************************************)

\* In production the records are in Postgres.
Serves(p) == p.node = "production" => p.driver = "postgres"

Fields == {"state", "by", "on", "tool", "mime", "option", "told", "extension", "stored",
           "recorded"}

\* What makes JobMeansTheSame inductive: a process in production passed its own
\* check of the driver, and a queued job carries what the API chose for it.
ContractInv ==
  /\ Serves(api) /\ Serves(worker)
  /\ job # NoJob =>
       /\ DOMAIN job = Fields
       /\ Serves(job.by)
       /\ job.tool \in Tool /\ job.mime \in Format \cup {"other"}
       /\ job.tool \in {"convert", "background-remove"} => job.option # "none"
       /\ job.extension = ToolOutputFormat(job.tool, job.mime, job.option)
       /\ job.told = FormatToMime(job.extension)
  /\ JobMeansTheSame

\* toolOutputFormat of the API and the encoder of the worker agree.
LEMMA EncoderAgrees ==
  ASSUME NEW tool \in Tool, NEW mime \in Format \cup {"other"}, NEW option \in Format \cup {"none"},
         tool \in {"convert", "background-remove"} => option # "none"
  PROVE  LET format == ToolOutputFormat(tool, mime, option)
         IN  Encoded(tool, mime, option) = format /\ FormatToMime(format) = format
BY DEF Tool, Format, ToolOutputFormat, FormatToMime, Encoded, MimeToFormat, RunResize,
       RunCompress, RunConvert, RunBackgroundRemove

LEMMA ContractStep == ContractInv /\ [ContractNext]_contractVars => ContractInv'
<1>. SUFFICES ASSUME ContractInv, [ContractNext]_contractVars PROVE ContractInv'
  OBVIOUS
<1>1. CASE Edit
  BY <1>1 DEF Edit, ContractInv, JobMeansTheSame
<1>2. CASE StartApi
  <2>1. Serves(api')
    BY <1>2 DEF StartApi, ApiParses, Running, Serves
  <2>. QED
    BY <1>2, <2>1 DEF StartApi, ContractInv, JobMeansTheSame
<1>3. CASE StartWorker
  <2>1. Serves(worker')
    BY <1>3 DEF StartWorker, WorkerParses, Running, Serves
  <2>. QED
    BY <1>3, <2>1 DEF StartWorker, ContractInv, JobMeansTheSame
<1>4. CASE StopProcess
  <2>1. Serves(Down)
    BY DEF Serves, Down
  <2>. QED
    BY <1>4, <2>1 DEF StopProcess, ContractInv, JobMeansTheSame
<1>5. CASE CreateJob
  <2>1. PICK tool \in Tool, mime \in Format \cup {"other"}, named \in Format \cup {"none", "other"} :
          LET option == MergeToolOptions(tool, named)
              format == ToolOutputFormat(tool, mime, option)
          IN  job' = [state |-> "queued", by |-> api, on |-> Down, tool |-> tool, mime |-> mime,
                      option |-> option, told |-> FormatToMime(format), extension |-> format,
                      stored |-> "none", recorded |-> "none"]
    BY <1>5 DEF CreateJob
  <2>. DEFINE option == MergeToolOptions(tool, named)
              format == ToolOutputFormat(tool, mime, option)
  <2>2. tool \in {"convert", "background-remove"} => option # "none"
    BY DEF MergeToolOptions
  <2>. HIDE DEF option
  <2>3. /\ DOMAIN job' = Fields /\ job'.state = "queued" /\ job'.by = api
        /\ job'.tool = tool /\ job'.mime = mime /\ job'.option = option
        /\ job'.extension = format /\ job'.told = FormatToMime(format)
    BY <2>1 DEF Fields, option
  <2>. HIDE DEF format
  <2>4. UNCHANGED <<api, worker>> /\ Serves(api)
    BY <1>5 DEF CreateJob, ContractInv
  <2>. QED
    BY <2>2, <2>3, <2>4 DEF ContractInv, JobMeansTheSame, format
<1>6. CASE ProcessJob
  <2>. DEFINE made == Encoded(job.tool, job.mime, job.option)
  <2>1. /\ job # NoJob /\ DOMAIN job = Fields /\ Serves(job.by) /\ Serves(worker)
        /\ job' = [job EXCEPT !.state = "processed", !.on = worker, !.stored = made,
                     !.recorded = IF Store(job.by) = Store(worker) THEN made ELSE "none"]
    BY <1>6 DEF ProcessJob, ContractInv
  <2>. HIDE DEF made
  <2>2. /\ DOMAIN job' = Fields
        /\ job'.by = job.by /\ job'.tool = job.tool /\ job'.mime = job.mime
        /\ job'.option = job.option /\ job'.told = job.told /\ job'.extension = job.extension
        /\ job'.on = worker /\ job'.stored = made
        /\ job'.recorded = IF Store(job.by) = Store(worker) THEN made ELSE "none"
    BY <2>1 DEF Fields
  <2>3. ASSUME job.option \in Format \cup {"none"} PROVE made = job.extension /\ made = job.told
    BY <2>1, <2>3, EncoderAgrees DEF made, ContractInv
  <2>4. JobMeansTheSame'
    BY <2>1, <2>2, <2>3 DEF JobMeansTheSame, Serves, Store
  <2>5. UNCHANGED <<api, worker>>
    BY <1>6 DEF ProcessJob
  <2>. QED
    BY <2>1, <2>2, <2>4, <2>5 DEF ContractInv
<1>7. CASE UNCHANGED contractVars
  BY <1>7 DEF contractVars, ContractInv, JobMeansTheSame
<1>. QED
  BY <1>1, <1>2, <1>3, <1>4, <1>5, <1>6, <1>7 DEF ContractNext

LEMMA ContractAlwaysInv == ContractSpec => []ContractInv
<1>1. ContractInit => ContractInv
  BY DEF ContractInit, ContractInv, JobMeansTheSame, Serves, Down
<1>. QED
  BY <1>1, ContractStep, PTL DEF ContractSpec

\* Whatever is edited and restarted in between, the worker makes what the API told,
\* and in production records it where the API looks unless POSTGRES_URL was edited.
THEOREM ContractJobMeansTheSame == ContractSpec => []JobMeansTheSame
<1>1. ContractInv => JobMeansTheSame
  BY DEF ContractInv
<1>. QED
  BY <1>1, ContractAlwaysInv, PTL

\* What makes ContractTypeOK inductive: every variable is there, with some value.
EnvInv == ContractTypeOK /\ DOMAIN env = DOMAIN Variable /\ env = [v \in DOMAIN env |-> env[v]]

LEMMA EnvStep == ContractInv /\ EnvInv /\ [ContractNext]_contractVars => EnvInv'
<1>. SUFFICES ASSUME ContractInv, EnvInv, [ContractNext]_contractVars PROVE EnvInv'
  OBVIOUS
<1>. DEFINE Process ==
       [node : Variable.node, driver : Variable.driver, url : Variable.url] \cup {Down}
<1>1. {api, worker} \subseteq Process /\ edits \in Nat
  BY DEF EnvInv, ContractTypeOK
<1>2. CASE Edit
  <2>1. PICK v \in DOMAIN Variable : \E value \in Variable[v] : env' = [env EXCEPT ![v] = value]
    BY <1>2 DEF Edit
  <2>2. PICK value \in Variable[v] : env' = [env EXCEPT ![v] = value]
    BY <2>1
  <2>3. /\ DOMAIN env' = DOMAIN Variable /\ env' = [w \in DOMAIN env' |-> env'[w]]
        /\ \A w \in DOMAIN Variable : env'[w] = IF w = v THEN value ELSE env[w]
    BY <2>2 DEF EnvInv
  <2>4. \A w \in DOMAIN Variable : env'[w] \in Variable[w]
    BY <2>2, <2>3 DEF EnvInv, ContractTypeOK
  <2>5. UNCHANGED <<api, worker, job>> /\ edits' = edits + 1
    BY <1>2 DEF Edit
  <2>. QED
    BY <1>1, <2>3, <2>4, <2>5 DEF EnvInv, ContractTypeOK
<1>3. Running(env) \in Process
  <2>1. env.node \in Variable.node /\ env.driver \in Variable.driver /\ env.url \in Variable.url
    BY DEF EnvInv, ContractTypeOK, Variable
  <2>. QED
    BY <2>1 DEF Running
<1>4. CASE StartApi \/ StartWorker \/ StopProcess
  <2>1. {api', worker'} \subseteq Process /\ UNCHANGED <<env, job, edits>>
    BY <1>1, <1>3, <1>4 DEF StartApi, StartWorker, StopProcess
  <2>. QED
    BY <2>1 DEF EnvInv, ContractTypeOK
<1>5. CASE CreateJob
  <2>1. PICK tool \in Tool, mime \in Format \cup {"other"}, named \in Format \cup {"none", "other"} :
          LET option == MergeToolOptions(tool, named)
              format == ToolOutputFormat(tool, mime, option)
          IN  job' = [state |-> "queued", by |-> api, on |-> Down, tool |-> tool, mime |-> mime,
                      option |-> option, told |-> FormatToMime(format), extension |-> format,
                      stored |-> "none", recorded |-> "none"]
    BY <1>5 DEF CreateJob
  <2>2. \A format : FormatToMime(format) \in Format
    BY DEF FormatToMime, Format
  <2>3. job'.state = "queued" /\ job'.told \in Format /\ UNCHANGED <<env, api, worker, edits>>
    BY <1>5, <2>1, <2>2 DEF CreateJob
  <2>. QED
    BY <2>3 DEF EnvInv, ContractTypeOK
<1>6. CASE ProcessJob
  <2>1. /\ job # NoJob /\ DOMAIN job = Fields
        /\ \E made, kept : job' = [job EXCEPT !.state = "processed", !.on = worker, !.stored = made,
                                     !.recorded = kept]
    BY <1>6 DEF ProcessJob, ContractInv
  <2>2. job'.state = "processed" /\ job'.told = job.told
    BY <2>1 DEF Fields
  <2>3. UNCHANGED <<env, api, worker, edits>>
    BY <1>6 DEF ProcessJob
  <2>. QED
    BY <2>1, <2>2, <2>3 DEF EnvInv, ContractTypeOK
<1>7. CASE UNCHANGED contractVars
  BY <1>7 DEF contractVars, EnvInv, ContractTypeOK
<1>. QED
  BY <1>2, <1>4, <1>5, <1>6, <1>7 DEF ContractNext

\* Whatever is edited, every variable holds a value it may have, a process runs with
\* such values or is down, and the client was told a format the worker can make.
THEOREM ContractTyped == ContractSpec => []ContractTypeOK
<1>1. ContractInit => EnvInv
  <2>. SUFFICES ASSUME ContractInit PROVE EnvInv
    OBVIOUS
  <2>1. DOMAIN env = DOMAIN Variable /\ env = [v \in DOMAIN env |-> env[v]]
    BY DEF ContractInit, Development, Production, Variable
  <2>2. \A v \in DOMAIN Variable : Development[v] \in Variable[v]
    BY DEF Development, Variable
  <2>3. /\ "production" \in Variable["node"] /\ "postgres" \in Variable["driver"]
        /\ "true" \in Variable["cookie"] /\ "one" \in Variable["url"]
        /\ \A v \in {"stripeHook", "billing", "s3", "metrics"} : "set" \in Variable[v]
    BY DEF Variable
  <2>4. \A v \in DOMAIN Variable :
          Production[v] = CASE v = "node"   -> "production"
                            [] v = "driver" -> "postgres"
                            [] v = "cookie" -> "true"
                            [] v = "url"    -> "one"
                            [] v \in {"stripeHook", "billing", "s3", "metrics"} -> "set"
                            [] OTHER -> Development[v]
    <3>1. DOMAIN Development = DOMAIN Variable
      BY DEF Development, Variable
    <3>. QED
      BY <3>1 DEF Production
  <2>5. \A v \in DOMAIN Variable : Production[v] \in Variable[v]
    BY <2>2, <2>3, <2>4
  <2>. QED
    BY <2>1, <2>2, <2>5 DEF ContractInit, EnvInv, ContractTypeOK
<1>2. EnvInv => ContractTypeOK
  BY DEF EnvInv
<1>. QED
  BY <1>1, <1>2, ContractAlwaysInv, EnvStep, PTL DEF ContractSpec

(***************************************************************************)
(* Rate limits.                                                            *)
(***************************************************************************)

\* What the instants of a limiter's admitted requests look like.  Those of its
\* last window, which began at "start", are the last "count"; Quota more are of
\* the one before; and what is older than that is older by a window.
Paced(times) ==
  /\ times \in Seq(Nat)
  /\ \A i \in 1..Len(times) :
       /\ times[i] <= nowMs
       /\ i + 2 * Quota <= Len(times) => times[i + 2 * Quota] - times[i] >= WindowMs

Current(times, count, start) ==
  \A i \in 1..Len(times) :
    /\ i + count <= Len(times) => times[i] <= start
    /\ i + Quota + count <= Len(times) => times[i] <= start - WindowMs

\* The last window is over for good.
Rested(times) ==
  \A i \in 1..Len(times) : i + Quota <= Len(times) => times[i] <= nowMs - WindowMs

Admitted(count) == IF count <= Quota THEN count ELSE Quota

BurstInv ==
  /\ RateTypeOK
  /\ Paced(passed) /\ Paced(executed)
  /\ IF hits = NoHits THEN Rested(passed)
     ELSE /\ hits.count > 0 /\ hits.resetAtMs - WindowMs <= nowMs
          /\ Current(passed, hits.count, hits.resetAtMs - WindowMs)
  /\ actor.windowStart <= nowMs
  /\ IF actor.count = 0 THEN executed = <<>>
     ELSE Current(executed, Admitted(actor.count), actor.windowStart)

LEMMA RateSizes ==
  /\ WindowMs \in Nat /\ WindowMs > 0 /\ Quota \in Nat /\ Quota > 0
  /\ 2 * Quota = Quota + Quota
BY RateAssumption

\* Places in a sequence that becomes one longer.
LEMMA Places ==
  ASSUME NEW n \in Nat, NEW i \in 1..(n + 1)
  PROVE  /\ i \in 1..n \/ i = n + 1
         /\ i + 2 * Quota <= n + 1 => i \in 1..n /\ (i + 2 * Quota <= n \/ i + 2 * Quota = n + 1)
         /\ \A count \in 0..(Quota - 1) :
              /\ i + 2 * Quota = n + 1 => i + Quota + count <= n
              /\ i + (count + 1) <= n + 1 => i \in 1..n /\ i + count <= n
              /\ i + Quota + (count + 1) <= n + 1 => i \in 1..n /\ i + Quota + count <= n
BY RateSizes

\* A sequence of instants with the present one at its end.
LEMMA OneMore ==
  ASSUME NEW times \in Seq(Nat), Paced(times), nowMs \in Nat, NEW n, n = Len(times)
  PROVE  /\ n \in Nat /\ Append(times, nowMs) \in Seq(Nat)
         /\ Len(Append(times, nowMs)) = n + 1 /\ Append(times, nowMs)[n + 1] = nowMs
         /\ \A i \in 1..n : /\ Append(times, nowMs)[i] = times[i]
                            /\ times[i] \in Nat /\ times[i] <= nowMs
BY DEF Paced

\* It is paced if what is two windows' worth behind is a window ago.
LEMMA OnePaced ==
  ASSUME NEW times \in Seq(Nat), Paced(times), nowMs \in Nat, NEW n, n = Len(times),
         \A i \in 1..n : i + 2 * Quota = n + 1 => times[i] <= nowMs - WindowMs
  PROVE  Paced(Append(times, nowMs))
<1>. USE RateSizes
<1>0. PICK more : more = Append(times, nowMs)
  OBVIOUS
<1>1. /\ n \in Nat /\ more \in Seq(Nat) /\ Len(more) = n + 1 /\ more[n + 1] = nowMs
      /\ \A i \in 1..n : more[i] = times[i] /\ times[i] \in Nat /\ times[i] <= nowMs
  BY <1>0, OneMore
<1>2. ASSUME NEW i \in 1..(n + 1) PROVE more[i] <= nowMs
  <2>1. i \in 1..n \/ i = n + 1
    BY <1>1
  <2>. QED
    BY <1>1, <2>1
<1>3. ASSUME NEW i \in 1..(n + 1), i + 2 * Quota <= n + 1
      PROVE  more[i + 2 * Quota] - more[i] >= WindowMs
  <2>1. i \in 1..n
    BY <1>1, <1>3, Places
  <2>2. CASE i + 2 * Quota <= n
    <3>1. i + 2 * Quota \in 1..n
      BY <1>1, <2>1, <2>2
    <3>2. times[i + 2 * Quota] - times[i] >= WindowMs
      BY <2>1, <2>2 DEF Paced
    <3>. QED
      BY <1>1, <2>1, <3>1, <3>2
  <2>3. CASE i + 2 * Quota = n + 1
    <3>1. times[i] <= nowMs - WindowMs /\ times[i] \in Nat /\ more[i] = times[i]
      BY <1>1, <2>1, <2>3
    <3>2. more[i + 2 * Quota] = nowMs
      BY <1>1, <2>3
    <3>. QED
      BY <3>1, <3>2
  <2>4. i + 2 * Quota <= n \/ i + 2 * Quota = n + 1
    BY <1>1, <1>3, Places
  <2>. QED
    BY <2>2, <2>3, <2>4
<1>. QED
  BY <1>0, <1>1, <1>2, <1>3 DEF Paced

\* The first request of a window.
LEMMA WindowOpens ==
  ASSUME NEW times \in Seq(Nat), Paced(times), Rested(times), nowMs \in Nat
  PROVE  Paced(Append(times, nowMs)) /\ Current(Append(times, nowMs), 1, nowMs)
<1>. USE RateSizes
<1>0. PICK more, n : more = Append(times, nowMs) /\ n = Len(times)
  OBVIOUS
<1>1. /\ n \in Nat /\ more \in Seq(Nat) /\ Len(more) = n + 1 /\ more[n + 1] = nowMs
      /\ \A i \in 1..n : more[i] = times[i] /\ times[i] \in Nat /\ times[i] <= nowMs
  BY <1>0, OneMore
<1>2. \A i \in 1..n : i + Quota <= n => times[i] <= nowMs - WindowMs
  BY <1>0 DEF Rested
<1>3. ASSUME NEW i \in 1..n, i + 2 * Quota = n + 1 PROVE times[i] <= nowMs - WindowMs
  <2>1. i + Quota <= n
    BY <1>1, <1>3
  <2>. QED
    BY <1>2, <2>1
<1>4. Paced(Append(times, nowMs))
  BY <1>0, <1>3, OnePaced
<1>5. ASSUME NEW i \in 1..(n + 1)
      PROVE  /\ i + 1 <= n + 1 => more[i] <= nowMs
             /\ i + Quota + 1 <= n + 1 => more[i] <= nowMs - WindowMs
  <2>1. i + 1 <= n + 1 => i \in 1..n
    BY <1>1
  <2>2. i + Quota + 1 <= n + 1 => i \in 1..n /\ i + Quota <= n
    BY <1>1
  <2>. QED
    BY <1>1, <1>2, <2>1, <2>2
<1>. QED
  BY <1>0, <1>1, <1>4, <1>5 DEF Current

\* One more request of the window.
LEMMA WindowAdmits ==
  ASSUME NEW times \in Seq(Nat), NEW count \in 1..Quota, NEW start \in Int,
         Paced(times), Current(times, count, start), count < Quota,
         nowMs \in Nat, start <= nowMs
  PROVE  Paced(Append(times, nowMs)) /\ Current(Append(times, nowMs), count + 1, start)
<1>. USE RateSizes
<1>0. PICK more, n : more = Append(times, nowMs) /\ n = Len(times)
  OBVIOUS
<1>1. /\ n \in Nat /\ more \in Seq(Nat) /\ Len(more) = n + 1 /\ more[n + 1] = nowMs
      /\ \A i \in 1..n : more[i] = times[i] /\ times[i] \in Nat /\ times[i] <= nowMs
  BY <1>0, OneMore
<1>2. \A i \in 1..n : /\ i + count <= n => times[i] <= start
                      /\ i + Quota + count <= n => times[i] <= start - WindowMs
  BY <1>0 DEF Current
<1>3. ASSUME NEW i \in 1..n, i + 2 * Quota = n + 1 PROVE times[i] <= nowMs - WindowMs
  <2>1. i + Quota + count <= n
    <3>1. i \in 1..(n + 1) /\ count \in 0..(Quota - 1)
      BY <1>1
    <3>. QED
      BY <1>1, <1>3, <3>1, Places
  <2>2. times[i] <= start - WindowMs
    BY <1>2, <2>1
  <2>3. times[i] \in Nat
    BY <1>1
  <2>. QED
    BY <2>2, <2>3
<1>4. Paced(Append(times, nowMs))
  BY <1>0, <1>3, OnePaced
<1>5. ASSUME NEW i \in 1..(n + 1)
      PROVE  /\ i + (count + 1) <= n + 1 => more[i] <= start
             /\ i + Quota + (count + 1) <= n + 1 => more[i] <= start - WindowMs
  <2>1. count \in 0..(Quota - 1)
    OBVIOUS
  <2>2. i + (count + 1) <= n + 1 => i \in 1..n /\ i + count <= n
    BY <1>1, <2>1, Places
  <2>3. i + Quota + (count + 1) <= n + 1 => i \in 1..n /\ i + Quota + count <= n
    BY <1>1, <2>1, Places
  <2>4. i + (count + 1) <= n + 1 => more[i] <= start
    BY <1>1, <1>2, <2>2
  <2>5. i + Quota + (count + 1) <= n + 1 => more[i] <= start - WindowMs
    BY <1>1, <1>2, <2>3
  <2>. QED
    BY <2>4, <2>5
<1>. QED
  BY <1>0, <1>1, <1>4, <1>5 DEF Current

\* The window is over.
LEMMA WindowCloses ==
  ASSUME NEW times \in Seq(Nat), NEW count \in 1..Quota, NEW start \in Int,
         Current(times, count, start), nowMs \in Nat, start + WindowMs <= nowMs
  PROVE  Rested(times)
<1>1. ASSUME NEW i \in 1..Len(times), i + Quota <= Len(times)
      PROVE  times[i] <= nowMs - WindowMs
  <2>1. i + count <= Len(times) /\ times[i] \in Nat
    BY <1>1, RateSizes
  <2>. QED
    BY <2>1, RateSizes DEF Current
<1>. QED
  BY <1>1 DEF Rested

LEMMA BurstInit == RateInit => BurstInv
BY RateAssumption DEF RateInit, BurstInv, RateTypeOK, Paced, Rested, NoHits

LEMMA WriteBurst ==
  ASSUME BurstInv, Write
  PROVE  BurstInv'
<1>. USE RateSizes
<1>1. /\ nowMs \in Nat /\ passed \in Seq(Nat) /\ hits \in [count : 0..Quota, resetAtMs : Nat]
      /\ Paced(passed) /\ passed' = Append(passed, nowMs)
      /\ UNCHANGED <<nowMs, actor, executed>>
  BY DEF BurstInv, RateTypeOK, Write
<1>2. Paced(executed)' /\ passed' \in Seq(Nat)
  BY <1>1 DEF BurstInv, Paced
<1>3. CASE hits = NoHits \/ Over(hits)
  <2>1. hits' = [count |-> 1, resetAtMs |-> nowMs + WindowMs]
    BY <1>3 DEF Write
  <2>2. Rested(passed)
    BY SMTT(20), <1>1, <1>3, WindowCloses DEF BurstInv, Over
  <2>3. Paced(Append(passed, nowMs)) /\ Current(Append(passed, nowMs), 1, nowMs)
    BY <1>1, <2>2, WindowOpens
  <2>4. Paced(passed)'
    BY <1>1, <2>3 DEF Paced
  <2>5. /\ hits'.count = 1 /\ hits'.resetAtMs - WindowMs = nowMs /\ hits' # NoHits'
        /\ hits' \in [count : 0..Quota, resetAtMs : Nat]
    BY <1>1, <2>1 DEF NoHits
  <2>6. Current(passed', hits'.count, hits'.resetAtMs - WindowMs)
    BY <1>1, <2>3, <2>5
  <2>. QED
    BY SMTT(20), <1>1, <1>2, <2>4, <2>5, <2>6 DEF BurstInv, RateTypeOK, Current
<1>4. CASE ~(hits = NoHits \/ Over(hits))
  <2>1. hits.count < Quota /\ hits' = [hits EXCEPT !.count = hits.count + 1]
    BY <1>4 DEF Write
  <2>2. /\ hits.count \in 1..Quota /\ hits.resetAtMs - WindowMs \in Int
        /\ hits.resetAtMs - WindowMs <= nowMs
        /\ Current(passed, hits.count, hits.resetAtMs - WindowMs)
    BY <1>1, <1>4 DEF BurstInv
  <2>3. /\ Paced(Append(passed, nowMs))
        /\ Current(Append(passed, nowMs), hits.count + 1, hits.resetAtMs - WindowMs)
    BY <1>1, <2>1, <2>2, WindowAdmits
  <2>4. Paced(passed)'
    BY <1>1, <2>3 DEF Paced
  <2>5. /\ hits'.count = hits.count + 1 /\ hits'.resetAtMs = hits.resetAtMs /\ hits' # NoHits'
        /\ hits' \in [count : 0..Quota, resetAtMs : Nat]
    <3>1. PICK c : c = hits.count + 1
      OBVIOUS
    <3>2. c \in 1..Quota
      BY <2>1, <2>2, <3>1
    <3>3. hits' = [hits EXCEPT !.count = c]
      BY <2>1, <3>1
    <3>. QED
      BY SMTT(20), <1>1, <3>1, <3>2, <3>3 DEF NoHits
  <2>6. Current(passed', hits'.count, hits'.resetAtMs - WindowMs)
    BY <1>1, <2>3, <2>5
  <2>7. hits'.count > 0 /\ hits'.resetAtMs - WindowMs <= nowMs'
    BY <1>1, <2>2, <2>5
  <2>8. Current(passed, hits.count, hits.resetAtMs - WindowMs)'
    BY <2>6 DEF Current
  <2>. QED
    BY <1>1, <1>2, <2>4, <2>5, <2>7, <2>8 DEF BurstInv, RateTypeOK
<1>. QED
  BY <1>3, <1>4

LEMMA ExecuteBurst ==
  ASSUME BurstInv, Execute
  PROVE  BurstInv'
<1>. USE RateSizes
<1>. DEFINE old   == actor.count = 0 \/ nowMs - actor.windowStart > WindowMs
            count == IF old THEN 1 ELSE actor.count + 1
            start == IF old THEN nowMs ELSE actor.windowStart
<1>1. /\ nowMs \in Nat /\ executed \in Seq(Nat) /\ Paced(executed)
      /\ actor \in [count : 0..(Quota + 1), windowStart : Nat] /\ actor.windowStart <= nowMs
      /\ actor' = [count |-> count, windowStart |-> start] /\ count <= Quota + 1
      /\ executed' = IF count <= Quota THEN Append(executed, nowMs) ELSE executed
      /\ UNCHANGED <<nowMs, hits, passed>>
  BY DEF BurstInv, RateTypeOK, Execute
<1>2. count \in 1..(Quota + 1) /\ start \in Nat /\ start <= nowMs
  BY <1>1
<1>3. /\ actor'.count = count /\ actor'.windowStart = start
      /\ actor' \in [count : 0..(Quota + 1), windowStart : Nat]
  BY <1>1, <1>2
<1>4. Paced(executed') /\ Current(executed', Admitted(count), start)
  <2>1. CASE old
    <3>1. Rested(executed)
      <4>1. CASE actor.count = 0
        BY <1>1, <4>1 DEF BurstInv, Rested
      <4>2. CASE actor.count # 0
        <5>1. Admitted(actor.count) \in 1..Quota
          BY <1>1, <4>2 DEF Admitted
        <5>2. Current(executed, Admitted(actor.count), actor.windowStart)
          BY <4>2 DEF BurstInv
        <5>3. actor.windowStart \in Int /\ actor.windowStart + WindowMs <= nowMs
          BY <1>1, <2>1, <4>2
        <5>. QED
          BY <1>1, <5>1, <5>2, <5>3, WindowCloses
      <4>. QED
        BY <4>1, <4>2
    <3>2. /\ Paced(Append(executed, nowMs)) /\ Current(Append(executed, nowMs), 1, nowMs)
      BY <1>1, <3>1, WindowOpens
    <3>3. executed' = Append(executed, nowMs) /\ Admitted(count) = 1 /\ start = nowMs
      BY <1>1, <2>1 DEF Admitted
    <3>. QED
      BY <3>2, <3>3
  <2>2. CASE ~old
    <3>1. /\ actor.count # 0 /\ count = actor.count + 1 /\ start = actor.windowStart
          /\ actor.count \in 1..Quota
      BY <1>1, <2>2
    <3>2. Admitted(actor.count) = actor.count
      BY <3>1 DEF Admitted
    <3>3. Current(executed, actor.count, start)
      BY <3>1, <3>2 DEF BurstInv
    <3>4. CASE actor.count < Quota
      <4>1. /\ Paced(Append(executed, nowMs))
            /\ Current(Append(executed, nowMs), actor.count + 1, start)
        BY <1>1, <1>2, <3>1, <3>3, <3>4, WindowAdmits
      <4>2. executed' = Append(executed, nowMs) /\ Admitted(count) = actor.count + 1
        BY <1>1, <3>1, <3>4 DEF Admitted
      <4>. QED
        BY <4>1, <4>2
    <3>5. CASE actor.count = Quota
      <4>1. executed' = executed /\ Admitted(count) = actor.count
        BY <1>1, <3>1, <3>5 DEF Admitted
      <4>. QED
        BY <1>1, <3>3, <4>1
    <3>. QED
      BY <3>1, <3>4, <3>5
  <2>. QED
    BY <2>1, <2>2
<1>. HIDE DEF old, count, start
<1>5. Paced(executed)' /\ Paced(passed)' /\ executed' \in Seq(Nat)
  BY <1>1, <1>4 DEF BurstInv, Paced
<1>6. IF hits' = NoHits' THEN Rested(passed)'
      ELSE /\ hits'.count > 0 /\ hits'.resetAtMs - WindowMs <= nowMs'
           /\ Current(passed, hits.count, hits.resetAtMs - WindowMs)'
  BY <1>1 DEF BurstInv, Rested, Current, NoHits
<1>7. actor'.count # 0 /\ actor'.windowStart <= nowMs'
  BY <1>1, <1>2, <1>3
<1>8. Current(executed, Admitted(actor.count), actor.windowStart)'
  BY <1>3, <1>4 DEF Current, Admitted
<1>9. RateTypeOK'
  BY <1>1, <1>3, <1>5 DEF BurstInv, RateTypeOK
<1>. QED
  BY <1>5, <1>6, <1>7, <1>8, <1>9 DEF BurstInv

LEMMA BurstStep == BurstInv /\ [RateNext]_rateVars => BurstInv'
<1>. SUFFICES ASSUME BurstInv, [RateNext]_rateVars PROVE BurstInv'
  OBVIOUS
<1>. USE RateSizes
<1>0. /\ nowMs \in Nat /\ {passed, executed} \subseteq Seq(Nat)
      /\ hits \in [count : 0..Quota, resetAtMs : Nat]
      /\ actor \in [count : 0..(Quota + 1), windowStart : Nat]
  BY DEF BurstInv, RateTypeOK
<1>1. CASE Sweep
  <2>1. /\ hits # NoHits /\ hits.resetAtMs <= nowMs /\ hits' = NoHits
        /\ UNCHANGED <<nowMs, actor, passed, executed>>
    BY <1>1 DEF Sweep
  <2>2. hits.count \in 1..Quota /\ Current(passed, hits.count, hits.resetAtMs - WindowMs)
    BY <1>0, <2>1 DEF BurstInv
  <2>3. Rested(passed)
    BY <1>0, <2>1, <2>2, WindowCloses
  <2>4. hits' = NoHits' /\ hits' \in [count : 0..Quota, resetAtMs : Nat]
    BY <2>1 DEF NoHits
  <2>5. Rested(passed)' /\ Paced(passed)' /\ Paced(executed)'
    BY <2>1, <2>3 DEF BurstInv, Rested, Paced
  <2>6. IF actor'.count = 0 THEN executed' = <<>>
        ELSE Current(executed, Admitted(actor.count), actor.windowStart)'
    BY <2>1 DEF BurstInv, Current, Admitted
  <2>. QED
    BY <2>1, <2>4, <2>5, <2>6 DEF BurstInv, RateTypeOK
<1>2. CASE NextMs \/ UNCHANGED rateVars
  <2>1. nowMs' \in Nat /\ nowMs' >= nowMs /\ UNCHANGED <<hits, actor, passed, executed>>
    BY <1>0, <1>2 DEF NextMs, rateVars
  <2>2. ASSUME NEW times \in Seq(Nat), NEW i \in 1..Len(times)
        PROVE  /\ times[i] <= nowMs => times[i] <= nowMs'
               /\ times[i] <= nowMs - WindowMs => times[i] <= nowMs' - WindowMs
    <3>1. PICK t : t = times[i]
      OBVIOUS
    <3>2. t \in Nat
      BY <3>1
    <3>3. PICK now, later : now = nowMs /\ later = nowMs'
      OBVIOUS
    <3>4. now \in Nat /\ later \in Nat /\ later >= now
      BY <1>0, <2>1, <3>3
    <3>5. (t <= now => t <= later) /\ (t <= now - WindowMs => t <= later - WindowMs)
      BY <3>2, <3>4
    <3>. QED
      BY <3>1, <3>3, <3>5
  <2>3. Paced(passed)' /\ Paced(executed)'
    BY <1>0, <2>1, <2>2 DEF BurstInv, Paced
  <2>4. IF hits' = NoHits' THEN Rested(passed)'
        ELSE /\ hits'.count > 0 /\ hits'.resetAtMs - WindowMs <= nowMs'
             /\ Current(passed, hits.count, hits.resetAtMs - WindowMs)'
    <3>0. NoHits' = NoHits
      BY DEF NoHits
    <3>1. CASE hits = NoHits
      BY <1>0, <2>1, <2>2, <3>0, <3>1 DEF BurstInv, Rested
    <3>2. CASE hits # NoHits
      <4>1. /\ hits.count > 0 /\ hits.resetAtMs - WindowMs <= nowMs
            /\ Current(passed, hits.count, hits.resetAtMs - WindowMs)
        BY <3>2 DEF BurstInv
      <4>2. Current(passed, hits.count, hits.resetAtMs - WindowMs)'
        BY <2>1, <4>1 DEF Current
      <4>3. hits.resetAtMs \in Nat
        BY <1>0
      <4>. QED
        BY <1>0, <2>1, <3>0, <3>2, <4>1, <4>2, <4>3
    <3>. QED
      BY <3>1, <3>2
  <2>5. IF actor'.count = 0 THEN executed' = <<>>
        ELSE Current(executed, Admitted(actor.count), actor.windowStart)'
    BY <2>1 DEF BurstInv, Current, Admitted
  <2>6. RateTypeOK' /\ actor'.windowStart <= nowMs'
    BY <1>0, <2>1 DEF BurstInv, RateTypeOK
  <2>. QED
    BY <2>3, <2>4, <2>5, <2>6 DEF BurstInv
<1>. QED
  BY <1>1, <1>2, WriteBurst, ExecuteBurst DEF RateNext

\* Wherever windows begin and whenever the sweep runs, a limiter lets no more
\* than two windows' worth of requests pass in less time than one window takes
\* (createRateLimitMiddleware of the API, rateLimitMiddleware of the gateway).
THEOREM RateBurstBounded == RateSpec => []BurstBounded
<1>1. BurstInv => BurstBounded
  BY DEF BurstInv, Paced, BurstBounded
<1>. QED
  BY <1>1, BurstInit, BurstStep, PTL DEF RateSpec

\* The counters and clocks of both limiters stay in their types.
THEOREM RateTyped == RateSpec => []RateTypeOK
<1>1. BurstInv => RateTypeOK
  BY DEF BurstInv
<1>. QED
  BY <1>1, BurstInit, BurstStep, PTL DEF RateSpec

(***************************************************************************)
(* The journal of the migrations.                                          *)
(***************************************************************************)

\* What makes JournalIsTrue inductive: while no up and no down overlapped, all the
\* commands under way are of one kind; what an up leaves out is on record, so the
\* least file it may still apply is the next one; what a down is to roll back is
\* the last file on record, or one that another down has rolled back already.
JournalInv ==
  /\ MigrationsTypeOK
  /\ ~crossed =>
       /\ JournalIsTrue
       /\ \A m, n \in Migrator : ~(task[m].command = "up" /\ task[n].command = "down")
       /\ \A m \in Migrator : task[m].command = "up" =>
            \A i \in Migration : i \notin task[m].files => i <= Len(journal)
       /\ \A m \in Migrator : task[m].command = "down" =>
            \A i \in task[m].files : i >= Len(journal)

LEMMA NoTaskTyped ==
  NoTask \in [command : {"none", "up", "down"}, files : SUBSET Migration]
  BY DEF NoTask

LEMMA TaskTyped ==
  ASSUME NEW command \in {"up", "down"}, NEW files \in SUBSET Migration
  PROVE  /\ Task(command, files) \in [command : {"none", "up", "down"}, files : SUBSET Migration]
         /\ \/ Task(command, files).command = "none"
            \/ Task(command, files).command = command /\ Task(command, files).files = files
         /\ files = {} => Task(command, files) = NoTask
  BY NoTaskTyped DEF Task, NoTask

\* A command starts: it is of the kind of those under way, or the history says so.
LEMMA CommandStep ==
  ASSUME JournalInv, NEW m \in Migrator, NEW command \in {"up", "down"},
         NEW files \in SUBSET Migration, Command(m, command, files),
         ~crossed => IF command = "up"
                     THEN \A i \in Migration : i \notin files => i <= Len(journal)
                     ELSE \A i \in files : i >= Len(journal)
  PROVE  JournalInv'
<1>1. PICK t : t = Task(command, files)
  OBVIOUS
<1>2. /\ t \in [command : {"none", "up", "down"}, files : SUBSET Migration]
      /\ t.command = "none" \/ (t.command = command /\ t.files = files)
      /\ files = {} => t.command = "none"
  BY <1>1, TaskTyped DEF NoTask
<1>3. /\ task' = [task EXCEPT ![m] = t] /\ UNCHANGED <<journal, built>>
      /\ started < MaxCommands /\ started' = started + 1
      /\ crossed' = (crossed \/ (/\ files # {}
                                 /\ \E n \in Migrator : task[n].command \notin {"none", command}))
  BY <1>1 DEF Command
<1>4. task' \in [Migrator -> [command : {"none", "up", "down"}, files : SUBSET Migration]]
      /\ task'[m] = t /\ \A n \in Migrator : n # m => task'[n] = task[n]
  BY <1>2, <1>3 DEF JournalInv, MigrationsTypeOK
<1>5. MigrationsTypeOK'
  <2>1. started' \in 0..MaxCommands /\ crossed' \in BOOLEAN
    BY <1>3, MigrationsAssumption DEF JournalInv, MigrationsTypeOK
  <2>. QED
    BY <1>3, <1>4, <2>1 DEF JournalInv, MigrationsTypeOK
<1>6. ASSUME ~crossed'
      PROVE  /\ JournalIsTrue'
             /\ \A n, o \in Migrator : ~(task'[n].command = "up" /\ task'[o].command = "down")
             /\ \A n \in Migrator : task'[n].command = "up" =>
                  \A i \in Migration : i \notin task'[n].files => i <= Len(journal')
             /\ \A n \in Migrator : task'[n].command = "down" =>
                  \A i \in task'[n].files : i >= Len(journal')
  <2>1. ~crossed /\ (files = {} \/ \A n \in Migrator : task[n].command \in {"none", command})
    BY <1>3, <1>6
  <2>2. t.command = "none" \/ (t.command = command /\ t.files = files /\ files # {})
    BY <1>2
  <2>3. JournalIsTrue'
    BY <1>3, <2>1 DEF JournalInv, JournalIsTrue, Rows
  <2>4. ASSUME NEW n \in Migrator, NEW o \in Migrator
        PROVE  ~(task'[n].command = "up" /\ task'[o].command = "down")
    BY <1>4, <2>1, <2>2 DEF JournalInv
  <2>5. ASSUME NEW n \in Migrator, task'[n].command = "up", NEW i \in Migration,
               i \notin task'[n].files
        PROVE  i <= Len(journal')
    BY <1>3, <1>4, <2>1, <2>2, <2>5 DEF JournalInv
  <2>6. ASSUME NEW n \in Migrator, task'[n].command = "down", NEW i \in task'[n].files
        PROVE  i >= Len(journal')
    BY <1>3, <1>4, <2>1, <2>2, <2>6 DEF JournalInv
  <2>. QED
    BY <2>3, <2>4, <2>5, <2>6
<1>. QED
  BY <1>5, <1>6 DEF JournalInv

\* The files on record are the first ones.
LEMMA RowsAre ==
  ASSUME JournalInv, ~crossed
  PROVE  /\ Len(journal) \in Nat /\ Len(journal) <= 3
         /\ DOMAIN journal = 1..Len(journal)
         /\ Rows = 1..Len(journal) /\ Rows \subseteq built
<1>1. /\ journal \in Seq(Migration) /\ \A k \in 1..Len(journal) : journal[k] = k
      /\ Rows \subseteq built
  BY DEF JournalInv, JournalIsTrue, MigrationsTypeOK
<1>2. Len(journal) \in Nat /\ DOMAIN journal = 1..Len(journal)
  BY <1>1
<1>3. Len(journal) <= 3
  <2>1. CASE Len(journal) = 0
    BY <2>1
  <2>2. CASE Len(journal) > 0
    <3>1. journal[Len(journal)] \in Migration /\ journal[Len(journal)] = Len(journal)
      BY <1>1, <1>2, <2>2
    <3>. QED
      BY <3>1 DEF Migration
  <2>. QED
    BY <1>2, <2>1, <2>2
<1>. QED
  BY <1>1, <1>2, <1>3 DEF Rows

\* An up applies the next file.
LEMMA ApplyStep ==
  ASSUME JournalInv, NEW m \in Migrator, Apply(m)
  PROVE  JournalInv'
<1>1. PICK i \in task[m].files :
        /\ task[m].command = "up" /\ (\A j \in task[m].files : i <= j) /\ Applies(i)
        /\ built' = built \cup {i} /\ journal' = Append(journal, i)
        /\ task' = [task EXCEPT ![m] = Task("up", @.files \ {i})]
        /\ UNCHANGED <<started, crossed>>
  BY DEF Apply
<1>2. /\ task \in [Migrator -> [command : {"none", "up", "down"}, files : SUBSET Migration]]
      /\ journal \in Seq(Migration) /\ i \in Migration
  BY <1>1 DEF JournalInv, MigrationsTypeOK
<1>3. PICK t : t = Task("up", task[m].files \ {i})
  OBVIOUS
<1>4. task' = [task EXCEPT ![m] = t]
  BY <1>1, <1>2, <1>3
<1>5. /\ t \in [command : {"none", "up", "down"}, files : SUBSET Migration]
      /\ t.command \in {"none", "up"}
      /\ t.command = "up" => t.files = task[m].files \ {i}
  <2>1. task[m].files \ {i} \in SUBSET Migration
    BY <1>2
  <2>. QED
    BY <1>3, <2>1, TaskTyped
<1>6. task' \in [Migrator -> [command : {"none", "up", "down"}, files : SUBSET Migration]]
      /\ task'[m] = t /\ \A n \in Migrator : n # m => task'[n] = task[n]
  BY <1>2, <1>4, <1>5
<1>7. /\ journal' \in Seq(Migration) /\ Len(journal') = Len(journal) + 1
      /\ Len(journal) \in Nat /\ DOMAIN journal' = 1..(Len(journal) + 1)
      /\ journal'[Len(journal) + 1] = i
      /\ \A k \in 1..Len(journal) : journal'[k] = journal[k]
  BY <1>1, <1>2
<1>8. MigrationsTypeOK'
  BY <1>1, <1>2, <1>6, <1>7 DEF JournalInv, MigrationsTypeOK
<1>9. ASSUME ~crossed
      PROVE  /\ JournalIsTrue'
             /\ \A n, o \in Migrator : ~(task'[n].command = "up" /\ task'[o].command = "down")
             /\ \A n \in Migrator : task'[n].command = "up" =>
                  \A j \in Migration : j \notin task'[n].files => j <= Len(journal')
             /\ \A n \in Migrator : task'[n].command = "down" =>
                  \A j \in task'[n].files : j >= Len(journal')
  <2>1. Rows = 1..Len(journal) /\ Rows \subseteq built /\ i \notin Rows
    BY <1>1, <1>9, RowsAre DEF Applies
  <2>2. \A j \in Migration : j \notin task[m].files => j <= Len(journal)
    BY <1>1, <1>9 DEF JournalInv
  <2>3. i = Len(journal) + 1
    <3>1. i > Len(journal)
      BY <1>2, <1>7, <2>1 DEF Migration
    <3>2. CASE i = 1
      BY <1>7, <3>1, <3>2
    <3>3. CASE i # 1
      <4>1. i - 1 \in Migration /\ i - 1 \notin task[m].files
        BY <1>1, <1>2, <3>3 DEF Migration
      <4>. QED
        BY <1>2, <1>7, <2>2, <3>1, <4>1 DEF Migration
    <3>. QED
      BY <3>2, <3>3
  <2>4. \A k \in 1..Len(journal) : journal[k] = k
    BY <1>9 DEF JournalInv, JournalIsTrue
  <2>5. \A k \in 1..Len(journal') : journal'[k] = k
    BY <1>7, <2>3, <2>4
  <2>6. \A k \in DOMAIN journal' : journal'[k] \in built'
    BY <1>1, <1>7, <2>1, <2>3, <2>5
  <2>7. JournalIsTrue'
    BY <2>5, <2>6 DEF JournalIsTrue, Rows
  <2>8. ASSUME NEW n \in Migrator PROVE task'[n].command # "down"
    BY <1>1, <1>5, <1>6, <1>9 DEF JournalInv
  <2>9. ASSUME NEW n \in Migrator, task'[n].command = "up", NEW j \in Migration,
               j \notin task'[n].files
        PROVE  j <= Len(journal')
    <3>1. CASE n = m
      <4>1. j = i \/ j <= Len(journal)
        BY <1>5, <1>6, <2>2, <2>9, <3>1
      <4>. QED
        BY <1>7, <2>3, <4>1 DEF Migration
    <3>2. CASE n # m
      <4>1. j <= Len(journal)
        BY <1>6, <1>9, <2>9, <3>2 DEF JournalInv
      <4>. QED
        BY <1>7, <4>1 DEF Migration
    <3>. QED
      BY <3>1, <3>2
  <2>. QED
    BY <2>7, <2>8, <2>9
<1>. QED
  BY <1>1, <1>8, <1>9 DEF JournalInv

\* A down takes the last file off the record, or finds that another one has.
LEMMA RollBackStep ==
  ASSUME JournalInv, NEW m \in Migrator, RollBack(m)
  PROVE  JournalInv'
<1>1. PICK i \in task[m].files :
        /\ task[m].command = "down" /\ built' = built \ {i, 3} /\ DeleteRow(i)
        /\ task' = [task EXCEPT ![m] = NoTask] /\ UNCHANGED <<started, crossed>>
  BY DEF RollBack
<1>2. /\ task \in [Migrator -> [command : {"none", "up", "down"}, files : SUBSET Migration]]
      /\ journal \in Seq(Migration) /\ i \in Migration
  BY <1>1 DEF JournalInv, MigrationsTypeOK
<1>3. task' \in [Migrator -> [command : {"none", "up", "down"}, files : SUBSET Migration]]
      /\ task'[m].command = "none" /\ \A n \in Migrator : n # m => task'[n] = task[n]
  BY <1>1, <1>2, NoTaskTyped DEF NoTask
<1>4. ASSUME NEW k \in DOMAIN journal,
             journal' = SubSeq(journal, 1, k - 1) \o SubSeq(journal, k + 1, Len(journal))
      PROVE  journal' \in Seq(Migration)
  <2>1. SubSeq(journal, 1, k - 1) \in Seq(Migration)
    BY <1>2
  <2>2. SubSeq(journal, k + 1, Len(journal)) \in Seq(Migration)
    BY <1>2
  <2>. QED
    BY <1>4, <2>1, <2>2
<1>5. journal' \in Seq(Migration)
  BY <1>1, <1>2, <1>4 DEF DeleteRow
<1>6. MigrationsTypeOK'
  BY <1>1, <1>3, <1>5 DEF JournalInv, MigrationsTypeOK
<1>7. ASSUME ~crossed
      PROVE  /\ JournalIsTrue'
             /\ \A n, o \in Migrator : ~(task'[n].command = "up" /\ task'[o].command = "down")
             /\ \A n \in Migrator : task'[n].command = "up" =>
                  \A j \in Migration : j \notin task'[n].files => j <= Len(journal')
             /\ \A n \in Migrator : task'[n].command = "down" =>
                  \A j \in task'[n].files : j >= Len(journal')
  <2>1. /\ Len(journal) \in Nat /\ Len(journal) <= 3 /\ DOMAIN journal = 1..Len(journal)
        /\ Rows = 1..Len(journal) /\ Rows \subseteq built
    BY <1>7, RowsAre
  <2>2. i >= Len(journal)
    BY <1>1, <1>7 DEF JournalInv
  <2>3. \A k \in 1..Len(journal) : journal[k] = k
    BY <1>7 DEF JournalInv, JournalIsTrue
  <2>4. /\ Len(journal') \in Nat /\ Len(journal') <= Len(journal) /\ Len(journal') < i
        /\ Len(journal') < 3
        /\ \A k \in 1..Len(journal') : journal'[k] = journal[k]
    <3>1. CASE i \notin Rows /\ UNCHANGED journal
      BY <1>2, <2>1, <2>2, <3>1 DEF Migration
    <3>2. ASSUME NEW k \in DOMAIN journal, journal[k] = i,
                 journal' = SubSeq(journal, 1, k - 1) \o SubSeq(journal, k + 1, Len(journal))
          PROVE  <2>4
      <4>1. k = Len(journal) /\ i = Len(journal) /\ k \in Nat
        BY <1>2, <2>1, <2>2, <2>3, <3>2
      <4>2. SubSeq(journal, k + 1, Len(journal)) = <<>>
        BY <1>2, <4>1
      <4>3. journal' = SubSeq(journal, 1, k - 1)
        BY <1>2, <3>2, <4>1, <4>2
      <4>. QED
        BY <1>2, <2>1, <4>1, <4>3
    <3>. QED
      BY <1>1, <3>1, <3>2 DEF DeleteRow
  <2>5. \A k \in 1..Len(journal') : journal'[k] = k
    BY <2>1, <2>3, <2>4
  <2>6. DOMAIN journal' = 1..Len(journal')
    BY <1>5
  <2>7. \A k \in DOMAIN journal' : journal'[k] \in built'
    BY <1>1, <1>2, <2>1, <2>4, <2>5, <2>6 DEF Migration
  <2>8. JournalIsTrue'
    BY <2>5, <2>7 DEF JournalIsTrue, Rows
  <2>9. ASSUME NEW n \in Migrator PROVE task'[n].command # "up"
    BY <1>1, <1>3, <1>7 DEF JournalInv
  <2>10. ASSUME NEW n \in Migrator, task'[n].command = "down", NEW j \in task'[n].files
         PROVE  j >= Len(journal')
    <3>1. n # m /\ task[n].command = "down" /\ j \in task[n].files
      BY <1>3, <2>10
    <3>2. j >= Len(journal) /\ j \in Migration
      BY <1>2, <1>7, <3>1 DEF JournalInv
    <3>. QED
      BY <2>1, <2>4, <3>2 DEF Migration
  <2>. QED
    BY <2>8, <2>9, <2>10
<1>. QED
  BY <1>1, <1>6, <1>7 DEF JournalInv

LEMMA JournalStep == JournalInv /\ [MigrationsNext]_migrationVars => JournalInv'
<1>. SUFFICES ASSUME JournalInv, [MigrationsNext]_migrationVars PROVE JournalInv'
  OBVIOUS
<1>1. /\ journal \in Seq(Migration)
      /\ task \in [Migrator -> [command : {"none", "up", "down"}, files : SUBSET Migration]]
  BY DEF JournalInv, MigrationsTypeOK
<1>2. ASSUME NEW m \in Migrator, MigrateUp(m) PROVE JournalInv'
  <2>1. \A i \in Migration : ~crossed /\ i \notin Migration \ Rows => i <= Len(journal)
    BY RowsAre
  <2>. QED
    BY <1>2, <2>1, CommandStep DEF MigrateUp
<1>3. ASSUME NEW m \in Migrator, MigrateDown(m) PROVE JournalInv'
  <2>1. PICK files : files = IF journal = <<>> THEN {} ELSE {Latest}
    OBVIOUS
  <2>2. journal # <<>> => Latest \in Migration
    BY <1>1 DEF Latest
  <2>3. ASSUME ~crossed, journal # <<>> PROVE Latest = Len(journal)
    <3>1. Len(journal) \in 1..Len(journal)
      BY <1>1, <2>3
    <3>. QED
      BY <2>3, <3>1 DEF JournalInv, JournalIsTrue, Latest
  <2>4. Len(journal) \in Nat
    BY <1>1
  <2>5. ~crossed => \A i \in files : i >= Len(journal)
    BY <2>1, <2>3, <2>4
  <2>. QED
    BY <1>3, <2>1, <2>2, <2>5, CommandStep DEF MigrateDown
<1>4. ASSUME NEW m \in Migrator, CommandFails(m) PROVE JournalInv'
  <2>1. /\ task' = [task EXCEPT ![m] = NoTask] /\ UNCHANGED <<journal, built, started, crossed>>
    BY <1>4 DEF CommandFails
  <2>2. task' \in [Migrator -> [command : {"none", "up", "down"}, files : SUBSET Migration]]
        /\ task'[m].command = "none" /\ \A n \in Migrator : n # m => task'[n] = task[n]
    BY <1>1, <2>1, NoTaskTyped DEF NoTask
  <2>. QED
    BY <2>1, <2>2 DEF JournalInv, JournalIsTrue, MigrationsTypeOK, Rows
<1>5. CASE Bootstrap
  BY <1>5 DEF Bootstrap, JournalInv, JournalIsTrue, MigrationsTypeOK, Rows, Migration
<1>6. CASE UNCHANGED migrationVars
  BY <1>6 DEF migrationVars, JournalInv, JournalIsTrue, MigrationsTypeOK, Rows
<1>. QED
  BY <1>2, <1>3, <1>4, <1>5, <1>6, ApplyStep, RollBackStep DEF MigrationsNext

LEMMA MigrationsAlwaysInv == MigrationsSpec => []JournalInv
<1>1. MigrationsInit => JournalInv
  <2>. SUFFICES ASSUME MigrationsInit PROVE JournalInv
    OBVIOUS
  <2>1. /\ journal = <<>> /\ Len(journal) = 0 /\ Rows = {} /\ journal \in Seq(Migration)
        /\ built = {} /\ started = 0 /\ crossed = FALSE
        /\ task \in [Migrator -> [command : {"none", "up", "down"}, files : SUBSET Migration]]
    BY NoTaskTyped DEF MigrationsInit, Rows
  <2>2. \A m \in Migrator : task[m].command = "none"
    BY DEF MigrationsInit, NoTask
  <2>3. started \in 0..MaxCommands
    BY <2>1, MigrationsAssumption
  <2>4. JournalIsTrue
    BY <2>1 DEF JournalIsTrue
  <2>. QED
    BY <2>1, <2>2, <2>3, <2>4 DEF JournalInv, MigrationsTypeOK
<1>. QED
  BY <1>1, JournalStep, PTL DEF MigrationsSpec

\* Every variable of the migrations stays in its type: the rows are files of
\* src/infra/migrations, and no more commands start than the bound allows.
THEOREM MigrationsTyped == MigrationsSpec => []MigrationsTypeOK
<1>1. JournalInv => MigrationsTypeOK
  BY DEF JournalInv
<1>. QED
  BY <1>1, MigrationsAlwaysInv, PTL

\* However many commands run at once and wherever they fail, the files on record are
\* the first ones, in order, and their objects are there, unless an up and a down
\* overlapped (migrate.ts:65, 96).
THEOREM MigrationsJournalIsTrue == MigrationsSpec => []JournalIsTrue
<1>1. JournalInv => JournalIsTrue
  BY DEF JournalInv, JournalIsTrue
<1>. QED
  BY <1>1, MigrationsAlwaysInv, PTL

(***************************************************************************)
(* The components side by side.                                            *)
(***************************************************************************)

\* A step is one of the part that takes steps, and leaves the others as they are.
LEMMA EveryPartSteps ==
  [ClientsNext]_clientVars =>
    /\ [WebNext]_webVars
    /\ [GatewayNext]_<<cleanVars, gatewayVars>>
    /\ [RemovalNext]_removalVars
    /\ [RateNext]_rateVars
    /\ [PostgresNext]_postgresVars
    /\ [TablesNext]_tableVars
    /\ [WorkbenchNext]_workbenchVars
    /\ [ContractNext]_contractVars
    /\ [MigrationsNext]_migrationVars
<1>1. ClientsNext =>
        /\ WebNext \/ UNCHANGED webVars
        /\ GatewayNext \/ UNCHANGED <<cleanVars, gatewayVars>>
        /\ RemovalNext \/ UNCHANGED removalVars
        /\ RateNext \/ UNCHANGED rateVars
        /\ PostgresNext \/ UNCHANGED postgresVars
        /\ TablesNext \/ UNCHANGED tableVars
        /\ WorkbenchNext \/ UNCHANGED workbenchVars
        /\ ContractNext \/ UNCHANGED contractVars
        /\ MigrationsNext \/ UNCHANGED migrationVars
  BY DEF ClientsNext
<1>2. UNCHANGED clientVars =>
        /\ UNCHANGED webVars
        /\ UNCHANGED <<cleanVars, gatewayVars>>
        /\ UNCHANGED removalVars
        /\ UNCHANGED rateVars
        /\ UNCHANGED postgresVars
        /\ UNCHANGED tableVars
        /\ UNCHANGED workbenchVars
        /\ UNCHANGED contractVars
        /\ UNCHANGED migrationVars
  BY DEF clientVars
<1>. QED
  BY <1>1, <1>2

\* Nothing is lost by checking the components side by side: whichever of them takes
\* steps, each keeps to its own specification.
THEOREM ClientsImplementParts ==
  ClientsSpec =>
    /\ WebSpec /\ GatewaySpec /\ RemovalSpec /\ RateSpec /\ PostgresSpec /\ TablesSpec
    /\ WorkbenchSpec /\ ContractSpec /\ MigrationsSpec
<1>1. ClientsInit =>
        /\ WebInit /\ GatewayInit /\ RemovalInit /\ RateInit /\ PostgresInit /\ TablesInit
        /\ WorkbenchInit /\ ContractInit /\ MigrationsInit
  BY DEF ClientsInit
<1>. QED
  BY <1>1, EveryPartSteps, PTL
     DEF ClientsSpec, WebSpec, GatewaySpec, RemovalSpec, RateSpec, PostgresSpec, TablesSpec,
         WorkbenchSpec, ContractSpec, MigrationsSpec

\* Every variable of every component stays in its type, not only those of the part
\* that takes steps.
THEOREM ClientsTyped == ClientsSpec => []ClientsTypeOK
<1>1. GatewayTypeOK => CleanupTypeOK
  BY DEF GatewayTypeOK
<1>2. WebTypeOK /\ GatewayTypeOK /\ RemovalTypeOK /\ RateTypeOK /\ PostgresTypeOK /\ TablesTypeOK
        /\ WorkbenchTypeOK /\ ContractTypeOK /\ MigrationsTypeOK
      => ClientsTypeOK
  BY <1>1 DEF ClientsTypeOK
<1>. QED
  BY <1>2, ClientsImplementParts, WebTyped, GatewayTyped, RemovalTyped, RateTyped, PostgresTyped,
     TablesTyped, WorkbenchTyped, ContractTyped, MigrationsTyped, PTL

\* What the components promise, each on its own, holds of all of them together: a
\* spent token is refused, nobody is locked out or stranded, what cleanup answers is
\* audited and an answered key guards, the provider is spared and bursts are bounded,
\* a cleanup names one run, a job means the same to both processes, and the journal
\* of the migrations is true.
THEOREM ClientsKeepPromises ==
  ClientsSpec =>
    /\ [](SpentTokenRefused /\ StaysSignedIn /\ NobodyStranded)
    /\ [](AnswerIsAudited /\ AnsweredKeyGuards)
    /\ [](ProviderSpared /\ BurstBounded)
    /\ [](CleansOneRun /\ JobMeansTheSame /\ JournalIsTrue)
    /\ ImplementsQuotaLedger /\ ImplementsRepository
BY ClientsImplementParts, WebSpentTokenRefused, WebStaysSignedIn, WebNobodyStranded,
   GatewayAnswerIsAudited, GatewayAnsweredKeyGuards, RemovalSparesProvider, RateBurstBounded,
   WorkbenchCleansOneRun, ContractJobMeansTheSame, MigrationsJournalIsTrue,
   PostgresImplementsLedger, TablesImplementRepository, PTL
=============================================================================
