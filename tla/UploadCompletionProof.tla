----------------------- MODULE UploadCompletionProof -----------------------
(***************************************************************************)
(* What the completion of uploads guarantees for any number of keys,       *)
(* requests and connections, and any amount of trouble.                    *)
(***************************************************************************)
EXTENDS UploadCompletion, TLAPS

\* The object of c is there, unless someone else removed it.
Kept(c) == bucket[c] # Absent \/ c \in removed

\* r will not delete the object under its key any more.
Harmless(r) == pc[r] \in Answered \/ (pc[r] = "unwatch" /\ after[r] = "accepted")

\* c may be pointed at: its own completion is over and left the object alone.
Good(c) == Repeated(c) \/ (Kept(c) /\ \E r \in Request : KeyOf[r] = c /\ Harmless(r))

Working == {"strip", "scan", "list", "compare", "watch", "read", "exec", "unwatch"}

IndexGood      == \A h \in Content : \A c \in Listed(index[h]) : Good(c)
CandidatesGood == \A r \in Request : \A c \in Listed(left[r]) \cup Listed(read[r]) : Good(c)
CanonGood      == \A r \in Request, c \in Key : canon[r] = c /\ c # KeyOf[r] => Good(c)
CompletionGood == \A k, c \in Key : Done(k) /\ completion[k].canonical = c => Good(c)

\* The object a request works on is there, too.
WorkedOnKept ==
  \A r \in Request : pc[r] \in Working => Kept(KeyOf[r]) \/ Repeated(KeyOf[r])

UploadInv ==
  TypeOK /\ IndexGood /\ CandidatesGood /\ CanonGood /\ CompletionGood /\ WorkedOnKept
-----------------------------------------------------------------------------
(* Sequences of keys.                                                      *)

LEMMA ListedEmpty == Listed(<<>>) = {}
BY DEF Listed

LEMMA ListedTail ==
  ASSUME NEW s \in Seq(Key), s # <<>>
  PROVE  /\ Head(s) \in Listed(s)
         /\ Head(s) \in Key
         /\ Tail(s) \in Seq(Key)
         /\ Listed(Tail(s)) \subseteq Listed(s)
<1>1. Len(s) \in Nat /\ Len(s) >= 1
  OBVIOUS
<1>2. Head(s) = s[1] /\ Tail(s) \in Seq(Key) /\ Len(Tail(s)) = Len(s) - 1
  BY <1>1
<1>3. \A i \in 1..Len(Tail(s)) : Tail(s)[i] = s[i + 1] /\ i + 1 \in 1..Len(s)
  BY <1>1, <1>2
<1>4. QED
  BY <1>1, <1>2, <1>3 DEF Listed

LEMMA ListedAppend ==
  ASSUME NEW s \in Seq(Key), NEW k \in Key
  PROVE  /\ Append(s, k) \in Seq(Key)
         /\ Listed(Append(s, k)) = Listed(s) \cup {k}
<1>1. Len(s) \in Nat /\ Len(Append(s, k)) = Len(s) + 1 /\ Append(s, k) \in Seq(Key)
  OBVIOUS
<1>2. Append(s, k)[Len(s) + 1] = k /\ \A i \in 1..Len(s) : Append(s, k)[i] = s[i]
  BY <1>1
<1>3. \A i \in 1..(Len(s) + 1) : i \in 1..Len(s) \/ i = Len(s) + 1
  BY <1>1
<1>4. Listed(Append(s, k)) \subseteq Listed(s) \cup {k}
  BY <1>1, <1>2, <1>3 DEF Listed
<1>5. Listed(s) \cup {k} \subseteq Listed(Append(s, k))
  BY <1>1, <1>2 DEF Listed
<1>6. QED
  BY <1>1, <1>4, <1>5

\* What a transaction writes: one key more at most.
LEMMA ExtendedListed ==
  ASSUME TypeOK, NEW r \in Request
  PROVE  /\ Extended(r) \in Seq(Key)
         /\ Listed(Extended(r)) = Listed(read[r]) \cup {canon[r]}
<1>1. read[r] \in Seq(Key) /\ canon[r] \in Key
  BY DEF TypeOK
<1>2. QED
  BY <1>1, ListedAppend DEF Extended
-----------------------------------------------------------------------------
(* Types.                                                                  *)

LEMMA UploadTypeInit == Init => TypeOK
<1>1. UploadAssumption
  BY UploadAssumption
<1>2. QED
  BY <1>1 DEF UploadAssumption, Init, TypeOK, Object, Completion, NoCompletion, Answered,
              Refused, Trouble

\* One more stroke of trouble is counted.
LEMMA StrikeType ==
  ASSUME TypeOK, NEW t \in Trouble, Strike(t)
  PROVE  budget' \in [Trouble -> Nat]
BY DEF TypeOK, Strike

LEMMA TroubleKinds == {"storage", "scan", "crash", "removal"} \subseteq Trouble
BY DEF Trouble

LEMMA KeysType == ASSUME TypeOK, NEW r \in Request PROVE Keys(r) \subseteq RedisKey
<1>1. KeyOf[r] \in Key /\ body[r] \in Content
  BY UploadAssumption DEF UploadAssumption, TypeOK
<1>2. QED
  BY <1>1 DEF Keys, RedisKey

LEMMA UploadTypeStep == TypeOK /\ [Next]_vars => TypeOK'
<1> SUFFICES ASSUME TypeOK, [Next]_vars
             PROVE  TypeOK'
  OBVIOUS
<1> USE UploadAssumption DEF UploadAssumption, TypeOK
<1>1. ASSUME NEW k \in Key, Upload(k)
      PROVE  TypeOK'
  BY <1>1 DEF Upload, Object, store, redis, local
<1>2. ASSUME NEW k \in Key, Remove(k)
      PROVE  TypeOK'
  BY <1>2, StrikeType, TroubleKinds DEF Remove, Object, redis, local
<1>3. ASSUME NEW c \in Conn, ProcessCrash(c)
      PROVE  TypeOK'
  BY <1>3, StrikeType, TroubleKinds DEF ProcessCrash, Unwatched, Answered, store, local
<1>4. ASSUME NEW r \in Request, Complete(r)
      PROVE  TypeOK'
  <2>1. CASE HeadObject(r)
    BY <2>1 DEF HeadObject, Goto, Answered, Refused, store, redis, local
  <2>2. CASE GetObject(r)
    BY <2>2 DEF GetObject, Goto, Answered, Refused, Object, store, redis, local
  <2>3. CASE StripExif(r)
    BY <2>3 DEF StripExif, Goto, Object, store, redis, local
  <2>4. CASE StripFails(r)
    <3>1. bucket' \in [Key -> Object]
      BY <2>4 DEF StripFails, Object
    <3>2. QED
      BY <2>4, <3>1, StrikeType, TroubleKinds DEF StripFails, Goto, store, redis, local
  <2>5. CASE Scan(r)
    <3>1. PICK verdict \in {"list", "infected"} : pc' = [pc EXCEPT ![r] = verdict]
      BY <2>5 DEF Scan, Goto
    <3>2. QED
      BY <2>5, <3>1 DEF Scan, Answered, Refused, store, redis, local
  <2>6. CASE ScanFails(r)
    BY <2>6, StrikeType, TroubleKinds DEF ScanFails, Goto, Answered, Refused, store, redis, local
  <2>7. CASE ListCandidates(r)
    BY <2>7 DEF ListCandidates, Goto, store, redis, local
  <2>8. CASE Compare(r)
    <3>1. left[r] # <<>> => Head(left[r]) \in Key /\ Tail(left[r]) \in Seq(Key)
      BY ListedTail
    <3>2. canon' \in [Request -> Key] /\ left' \in [Request -> Seq(Key)]
      <4>1. \/ canon' = canon
            \/ left[r] # <<>> /\ canon' = [canon EXCEPT ![r] = Head(left[r])]
        BY <2>8 DEF Compare
      <4>2. \/ left' = left
            \/ left[r] # <<>> /\ left' = [left EXCEPT ![r] = Tail(@)]
        BY <2>8 DEF Compare
      <4>3. canon' \in [Request -> Key]
        BY <3>1, <4>1
      <4>4. left' \in [Request -> Seq(Key)]
        <5>1. left \in [Request -> Seq(Key)]
          OBVIOUS
        <5>2. QED
          BY ONLY <3>1, <4>2, <5>1, r \in Request
      <4>5. QED
        BY <4>3, <4>4
    <3>3. pc' \in [Request -> Answered \cup {"idle", "get", "strip", "scan", "list",
                         "compare", "watch", "read", "exec", "unwatch", "delete"}]
      BY <2>8 DEF Compare, Goto
    <3>4. QED
      BY <2>8, <3>2, <3>3 DEF Compare, store, redis
  <2>9. CASE CandidateUnreadable(r)
    <3>1. Tail(left[r]) \in Seq(Key)
      BY <2>9, ListedTail DEF CandidateUnreadable
    <3>2. QED
      BY <2>9, <3>1, StrikeType, TroubleKinds DEF CandidateUnreadable, store, redis
  <2>10. CASE WatchKeys(r)
    <3>1. PICK keys \in SUBSET RedisKey : keys = Keys(r)
      BY KeysType
    <3>2. watch' \in [Conn -> [keys : SUBSET RedisKey, dirty : BOOLEAN]]
      <4>1. PICK c \in Conn : c = ConnOf[r]
        OBVIOUS
      <4>2. PICK v \in [keys : SUBSET RedisKey, dirty : BOOLEAN] : v = watch[c]
        BY <4>1
      <4>3. PICK w : w = [v EXCEPT !.keys = v.keys \cup keys]
        OBVIOUS
      <4>4. w \in [keys : SUBSET RedisKey, dirty : BOOLEAN]
        BY ONLY <3>1, <4>2, <4>3
      <4>5. watch' = [watch EXCEPT ![c] = w]
        BY <2>10, <3>1, <4>1, <4>2, <4>3 DEF WatchKeys
      <4>6. watch \in [Conn -> [keys : SUBSET RedisKey, dirty : BOOLEAN]]
        OBVIOUS
      <4>7. QED
        BY ONLY <4>1, <4>4, <4>5, <4>6
    <3>3. crowded' \subseteq Conn
      BY <2>10 DEF WatchKeys
    <3>4. QED
      BY <2>10, <3>2, <3>3 DEF WatchKeys, Goto, store, local
  <2>11. CASE ReadIndex(r)
    BY <2>11 DEF ReadIndex, Goto, store, redis, local
  <2>12. CASE Commit(r)
    <3>1. index' \in [Content -> Seq(Key)]
      BY <2>12, ExtendedListed DEF Commit
    <3>2. completion' \in [Key -> Completion \cup {NoCompletion}]
      BY <2>12 DEF Commit, Completion
    <3>3. watch' \in [Conn -> [keys : SUBSET RedisKey, dirty : BOOLEAN]]
      <4>1. PICK w : w = Unwatched(watch, ConnOf[r])
        OBVIOUS
      <4>2. w \in [Conn -> [keys : SUBSET RedisKey, dirty : BOOLEAN]]
        BY <4>1 DEF Unwatched
      <4>3. watch' = Touched(w, Keys(r))
        BY <2>12, <4>1 DEF Commit
      <4>4. QED
        BY ONLY <4>2, <4>3 DEF Touched
    <3>4. QED
      BY <2>12, <3>1, <3>2, <3>3 DEF Commit, Goto, store
  <2>13. CASE Aborted(r)
    <3>1. watch' \in [Conn -> [keys : SUBSET RedisKey, dirty : BOOLEAN]]
      BY <2>13 DEF Aborted, Unwatched
    <3>2. tries' \in [Request -> Nat]
      BY <2>13 DEF Aborted
    <3>3. after' \in [Request -> {"watch", "accepted", "delete", "conflict"}]
      <4>1. PICK l \in {"conflict", "watch"} : after' = [after EXCEPT ![r] = l]
        BY <2>13 DEF Aborted
      <4>2. after \in [Request -> {"watch", "accepted", "delete", "conflict"}]
        OBVIOUS
      <4>3. QED
        BY ONLY <4>1, <4>2
    <3>4. pc' = [pc EXCEPT ![r] = "unwatch"]
      BY <2>13 DEF Aborted, Goto
    <3>5. QED
      BY <2>13, <3>1, <3>2, <3>3, <3>4 DEF Aborted, store
  <2>14. CASE Unwatch(r)
    BY <2>14 DEF Unwatch, Goto, Unwatched, Answered, store, redis, local
  <2>15. CASE DeleteDuplicate(r)
    BY <2>15 DEF DeleteDuplicate, Goto, Answered, Object, store, redis, local
  <2>16. QED
    BY <1>4, <2>1, <2>2, <2>3, <2>4, <2>5, <2>6, <2>7, <2>8, <2>9, <2>10, <2>11, <2>12, <2>13, <2>14, <2>15 DEF Complete
<1>5. CASE UNCHANGED vars
  BY <1>5 DEF vars
<1>6. QED
  BY <1>1, <1>2, <1>3, <1>4, <1>5 DEF Next
-----------------------------------------------------------------------------
(* What stays as it is.                                                    *)

\* No request starts anew, and one that is harmless stays so.
LEMMA RequestsMoveOn ==
  ASSUME TypeOK, Next, NEW s \in Request
  PROVE  /\ pc[s] # "idle" => pc'[s] # "idle"
         /\ Harmless(s) => Harmless(s)'
<1>0. /\ DOMAIN pc = Request /\ DOMAIN after = Request
      /\ \A r \in Request : after[r] # "idle"
  BY DEF TypeOK
<1> USE <1>0 DEF Harmless, Answered, Refused
<1>1. ASSUME NEW k \in Key, Upload(k) \/ Remove(k)
      PROVE  pc' = pc /\ after' = after
  BY <1>1 DEF Upload, Remove, local
<1>2. ASSUME NEW c \in Conn, ProcessCrash(c)
      PROVE  /\ after' = after
             /\ pc'[s] = pc[s] \/ (pc[s] # "idle" /\ pc'[s] = "crashed")
  BY <1>2 DEF ProcessCrash, local
<1>3. ASSUME NEW r \in Request, Complete(r)
      PROVE  /\ pc[s] # "idle" => pc'[s] # "idle"
             /\ Harmless(s) => Harmless(s)'
  <2>1. CASE HeadObject(r)
    BY <2>1 DEF HeadObject, Goto, local
  <2>2. CASE GetObject(r)
    BY <2>2 DEF GetObject, Goto, local
  <2>3. CASE StripExif(r)
    BY <2>3 DEF StripExif, Goto, local
  <2>4. CASE StripFails(r)
    BY <2>4 DEF StripFails, Goto, local
  <2>5. CASE Scan(r)
    BY <2>5 DEF Scan, Goto, local
  <2>6. CASE ScanFails(r)
    BY <2>6 DEF ScanFails, Goto, local
  <2>7. CASE ListCandidates(r)
    BY <2>7 DEF ListCandidates, Goto, local
  <2>8. CASE Compare(r)
    BY <2>8 DEF Compare, Goto, local
  <2>9. CASE CandidateUnreadable(r)
    BY <2>9 DEF CandidateUnreadable, Goto, local
  <2>10. CASE WatchKeys(r)
    BY <2>10 DEF WatchKeys, Goto, local
  <2>11. CASE ReadIndex(r)
    BY <2>11 DEF ReadIndex, Goto, local
  <2>12. CASE Commit(r)
    BY <2>12 DEF Commit, Goto, local
  <2>13. CASE Aborted(r)
    BY <2>13 DEF Aborted, Goto, local
  <2>14. CASE Unwatch(r)
    BY <2>14 DEF Unwatch, Goto, local
  <2>15. CASE DeleteDuplicate(r)
    BY <2>15 DEF DeleteDuplicate, Goto, local
  <2>16. QED
    BY <1>3, <2>1, <2>2, <2>3, <2>4, <2>5, <2>6, <2>7, <2>8, <2>9, <2>10, <2>11, <2>12, <2>13, <2>14, <2>15 DEF Complete
<1>4. QED
  BY <1>1, <1>2, <1>3 DEF Next

LEMMA RepeatedStable ==
  ASSUME TypeOK, Next, NEW c \in Key, Repeated(c)
  PROVE  Repeated(c)'
BY RequestsMoveOn DEF Repeated

\* An object goes away only when someone else removes it or a completion of its
\* own key deletes it.
LEMMA KeptUntilDeleted ==
  ASSUME TypeOK, Next, NEW c \in Key, Kept(c)
  PROVE  Kept(c)' \/ \E s \in Request : KeyOf[s] = c /\ pc[s] = "delete"
<1> USE DEF TypeOK, Kept, Object
<1> DEFINE Lost == \E s \in Request : KeyOf[s] = c /\ pc[s] = "delete"
<1>1. Absent \notin Content /\ \A r \in Request : Strip[body[r]] \in Content
  BY UploadAssumption DEF UploadAssumption
<1>2. ASSUME NEW k \in Key, Upload(k) \/ Remove(k)
      PROVE  Kept(c)'
  BY <1>1, <1>2 DEF Upload, Remove
<1>3. ASSUME NEW d \in Conn, ProcessCrash(d)
      PROVE  Kept(c)'
  BY <1>3 DEF ProcessCrash, store
<1>4. ASSUME NEW r \in Request, Complete(r)
      PROVE  Kept(c)' \/ Lost
  <2>1. CASE HeadObject(r)
    BY <2>1 DEF HeadObject, store
  <2>2. CASE GetObject(r)
    BY <2>2 DEF GetObject, store
  <2>3. CASE StripExif(r)
    BY <1>1, <2>3 DEF StripExif, store
  <2>4. CASE StripFails(r)
    BY <1>1, <2>4 DEF StripFails, store
  <2>5. CASE Scan(r)
    BY <2>5 DEF Scan, store
  <2>6. CASE ScanFails(r)
    BY <2>6 DEF ScanFails, store
  <2>7. CASE ListCandidates(r)
    BY <2>7 DEF ListCandidates, store
  <2>8. CASE Compare(r)
    BY <2>8 DEF Compare, store
  <2>9. CASE CandidateUnreadable(r)
    BY <2>9 DEF CandidateUnreadable, store
  <2>10. CASE WatchKeys(r)
    BY <2>10 DEF WatchKeys, store
  <2>11. CASE ReadIndex(r)
    BY <2>11 DEF ReadIndex, store
  <2>12. CASE Commit(r)
    BY <2>12 DEF Commit, store
  <2>13. CASE Aborted(r)
    BY <2>13 DEF Aborted, store
  <2>14. CASE Unwatch(r)
    BY <2>14 DEF Unwatch, store
  <2>15. CASE DeleteDuplicate(r)
    BY <2>15 DEF DeleteDuplicate, store
  <2>16. QED
    BY <1>4, <2>1, <2>2, <2>3, <2>4, <2>5, <2>6, <2>7, <2>8, <2>9, <2>10, <2>11, <2>12, <2>13, <2>14, <2>15 DEF Complete
<1>5. QED
  BY <1>2, <1>3, <1>4 DEF Next

\* A key that may be pointed at may be pointed at from then on.
LEMMA GoodStable ==
  ASSUME TypeOK, Next, NEW c \in Key, Good(c)
  PROVE  Good(c)'
<1>1. CASE Repeated(c)
  BY <1>1, RepeatedStable DEF Good
<1>2. CASE ~Repeated(c)
  <2>1. Kept(c)
    BY <1>2 DEF Good
  <2>2. PICK r \in Request : KeyOf[r] = c /\ Harmless(r)
    BY <1>2 DEF Good
  <2>3. Harmless(r)'
    BY <2>2, RequestsMoveOn
  <2>4. ASSUME NEW s \in Request, KeyOf[s] = c, pc[s] = "delete"
        PROVE  Repeated(c)
    BY <2>2, <2>4 DEF Repeated, Harmless, Answered, Refused
  <2>5. Kept(c)'
    BY <1>2, <2>1, <2>4, KeptUntilDeleted
  <2>6. QED
    BY <2>2, <2>3, <2>5 DEF Good
<1>3. QED
  BY <1>1, <1>2

\* A completion only points at keys that may be pointed at.
LEMMA CommitGood ==
  ASSUME UploadInv, Next, NEW r \in Request, Commit(r), NEW c \in Key, c = canon[r]
  PROVE  Good(c)'
<1>1. CASE c # KeyOf[r]
  BY <1>1, GoodStable DEF UploadInv, CanonGood
<1>2. CASE c = KeyOf[r]
  <2>1. Harmless(r)'
    BY <1>2 DEF Commit, Goto, Harmless, UploadInv, TypeOK
  <2>2. Kept(c) \/ Repeated(c)
    BY <1>2 DEF UploadInv, WorkedOnKept, Working, Commit
  <2>3. Kept(c)' = Kept(c)
    BY DEF Commit, Kept, store
  <2>4. QED
    BY <1>2, <2>1, <2>2, <2>3, RepeatedStable DEF Good, UploadInv
<1>3. QED
  BY <1>1, <1>2

\* The steps that leave Redis, or the locals of a request, alone.
LEMMA OnlyCommitWrites ==
  ASSUME Next
  PROVE  (index' = index /\ completion' = completion) \/ \E r \in Request : Commit(r)
<1>1. ASSUME NEW r \in Request, Complete(r), ~Commit(r)
      PROVE  index' = index /\ completion' = completion
  BY <1>1 DEF Complete, HeadObject, GetObject, StripExif, StripFails, Scan, ScanFails, ListCandidates, Compare, CandidateUnreadable, WatchKeys, ReadIndex, Aborted, Unwatch, DeleteDuplicate, redis
<1>2. QED
  BY <1>1 DEF Next, Upload, Remove, ProcessCrash, redis

LEMMA IndexGoodStep == ASSUME UploadInv, Next PROVE IndexGood'
<1> SUFFICES ASSUME NEW h \in Content, NEW c \in Listed(index'[h])
             PROVE  Good(c)'
  BY DEF IndexGood, Listed
<1> USE DEF UploadInv
<1>1. CASE index' = index
  <2>1. c \in Key /\ Good(c)
    BY <1>1 DEF IndexGood, TypeOK, Listed
  <2>2. QED
    BY <2>1, GoodStable
<1>2. ASSUME NEW r \in Request, Commit(r)
      PROVE  Good(c)'
  <2>1. index'[h] = IF h = body[r] THEN Extended(r) ELSE index[h]
    BY <1>2 DEF Commit, TypeOK
  <2>2. c \in Listed(index[h]) \cup Listed(read[r]) \cup {canon[r]}
    BY <2>1, ExtendedListed
  <2>3. c \in Key
    BY <2>2 DEF TypeOK, Listed
  <2>4. CASE c = canon[r]
    BY <1>2, <2>3, <2>4, CommitGood
  <2>5. CASE c \in Listed(index[h]) \cup Listed(read[r])
    BY <2>3, <2>5, GoodStable DEF IndexGood, CandidatesGood
  <2>6. QED
    BY <2>2, <2>4, <2>5
<1>3. QED
  BY <1>1, <1>2, OnlyCommitWrites

LEMMA CompletionGoodStep == ASSUME UploadInv, Next PROVE CompletionGood'
<1> SUFFICES ASSUME NEW k \in Key, NEW c \in Key, Done(k)', completion'[k].canonical = c
             PROVE  Good(c)'
  BY DEF CompletionGood
<1> USE DEF UploadInv
<1>1. CASE completion'[k] = completion[k]
  BY <1>1, GoodStable DEF CompletionGood, Done
<1>2. ASSUME NEW r \in Request, Commit(r), completion'[k] # completion[k]
      PROVE  Good(c)'
  <2>1. c = canon[r]
    BY <1>2 DEF Commit, TypeOK
  <2>2. QED
    BY <1>2, <2>1, CommitGood
<1>3. QED
  BY <1>1, <1>2, OnlyCommitWrites

LEMMA CandidatesGoodStep == ASSUME UploadInv, Next PROVE CandidatesGood'
<1> SUFFICES ASSUME NEW s \in Request, NEW c \in Listed(left'[s]) \cup Listed(read'[s])
             PROVE  Good(c)'
  BY DEF CandidatesGood, Listed
<1> USE DEF UploadInv
<1>1. \/ left' = left
      \/ \E r \in Request : \/ left' = [left EXCEPT ![r] = index[body[r]]]
                            \/ left[r] # <<>> /\ left' = [left EXCEPT ![r] = Tail(@)]
  BY DEF Next, Upload, Remove, ProcessCrash, Complete, HeadObject, GetObject, StripExif, StripFails, Scan, ScanFails, ListCandidates, Compare, CandidateUnreadable, WatchKeys, ReadIndex, Commit, Aborted, Unwatch, DeleteDuplicate, local
<1>2. \/ read' = read
      \/ \E r \in Request : read' = [read EXCEPT ![r] = index[body[r]]]
  BY DEF Next, Upload, Remove, ProcessCrash, Complete, HeadObject, GetObject, StripExif, StripFails, Scan, ScanFails, ListCandidates, Compare, CandidateUnreadable, WatchKeys, ReadIndex, Commit, Aborted, Unwatch, DeleteDuplicate, local
<1>3. Listed(left'[s]) \subseteq Listed(left[s]) \cup Listed(index[body[s]])
  <2>1. left[s] # <<>> => Listed(Tail(left[s])) \subseteq Listed(left[s])
    BY ListedTail DEF TypeOK
  <2>2. DOMAIN left = Request
    BY DEF TypeOK
  <2>3. QED
    BY <1>1, <2>1, <2>2
<1>4. Listed(read'[s]) \subseteq Listed(read[s]) \cup Listed(index[body[s]])
  <2>1. DOMAIN read = Request
    BY DEF TypeOK
  <2>2. QED
    BY <1>2, <2>1
<1>5. c \in Listed(left[s]) \cup Listed(read[s]) \cup Listed(index[body[s]])
  BY <1>3, <1>4
<1>6. body[s] \in Content /\ c \in Key
  BY <1>5 DEF TypeOK, Listed
<1>7. Good(c)
  BY <1>5, <1>6 DEF CandidatesGood, IndexGood
<1>8. QED
  BY <1>6, <1>7, GoodStable

LEMMA CanonGoodStep == ASSUME UploadInv, Next PROVE CanonGood'
<1> SUFFICES ASSUME NEW s \in Request, NEW c \in Key, canon'[s] = c, c # KeyOf[s]
             PROVE  Good(c)'
  BY DEF CanonGood
<1> USE DEF UploadInv
<1>1. \/ canon' = canon
      \/ \E r \in Request : left[r] # <<>> /\ canon' = [canon EXCEPT ![r] = Head(left[r])]
  BY DEF Next, Upload, Remove, ProcessCrash, Complete, HeadObject, GetObject, StripExif, StripFails, Scan, ScanFails, ListCandidates, Compare, CandidateUnreadable, WatchKeys, ReadIndex, Commit, Aborted, Unwatch, DeleteDuplicate, local
<1>2. CASE canon'[s] = canon[s]
  BY <1>2, GoodStable DEF CanonGood
<1>3. CASE canon'[s] # canon[s]
  <2>1. left[s] # <<>> /\ canon'[s] = Head(left[s])
    BY <1>1, <1>3 DEF TypeOK
  <2>2. c \in Listed(left[s])
    BY <2>1, ListedTail DEF TypeOK
  <2>3. QED
    BY <2>2, GoodStable DEF CandidatesGood
<1>4. QED
  BY <1>2, <1>3

LEMMA WorkedOnKeptStep == ASSUME UploadInv, Next PROVE WorkedOnKept'
<1> SUFFICES ASSUME NEW s \in Request, pc'[s] \in Working
             PROVE  Kept(KeyOf[s])' \/ Repeated(KeyOf[s])'
  BY DEF WorkedOnKept, Working
<1> USE DEF UploadInv
<1> DEFINE c == KeyOf[s]
<1>1. c \in Key
  BY UploadAssumption DEF UploadAssumption
<1>2. CASE pc[s] \in Working
  <2>1. CASE Repeated(c)
    BY <1>1, <2>1, RepeatedStable
  <2>2. CASE Kept(c)
    <3>1. ASSUME NEW r \in Request, KeyOf[r] = c, pc[r] = "delete"
          PROVE  Repeated(c)
      BY <1>2, <3>1 DEF Repeated, Working
    <3>2. QED
      BY <1>1, <2>2, <3>1, KeptUntilDeleted, RepeatedStable
  <2>3. QED
    BY <1>2, <2>1, <2>2 DEF WorkedOnKept
<1>3. CASE pc[s] \notin Working
  <2> USE DEF Working
  <2>1. DOMAIN pc = Request
    BY DEF TypeOK
  <2>2. ASSUME NEW r \in Request, Complete(r), ~GetObject(r)
        PROVE  FALSE
    <3>1. r = s
      BY <1>3, <2>1, <2>2 DEF Complete, HeadObject, StripExif, StripFails, Scan, ScanFails, ListCandidates, Compare, CandidateUnreadable, WatchKeys, ReadIndex, Commit, Aborted, Unwatch, DeleteDuplicate, Goto
    <3>2. CASE HeadObject(r)
      BY <1>3, <2>1, <3>1, <3>2 DEF HeadObject, Goto
    <3>3. CASE StripExif(r)
      BY <1>3, <2>1, <3>1, <3>3 DEF StripExif, Goto
    <3>4. CASE StripFails(r)
      BY <1>3, <2>1, <3>1, <3>4 DEF StripFails, Goto
    <3>5. CASE Scan(r)
      BY <1>3, <2>1, <3>1, <3>5 DEF Scan, Goto
    <3>6. CASE ScanFails(r)
      BY <1>3, <2>1, <3>1, <3>6 DEF ScanFails, Goto
    <3>7. CASE ListCandidates(r)
      BY <1>3, <2>1, <3>1, <3>7 DEF ListCandidates, Goto
    <3>8. CASE Compare(r)
      BY <1>3, <2>1, <3>1, <3>8 DEF Compare, Goto
    <3>9. CASE CandidateUnreadable(r)
      BY <1>3, <2>1, <3>1, <3>9 DEF CandidateUnreadable, Goto
    <3>10. CASE WatchKeys(r)
      BY <1>3, <2>1, <3>1, <3>10 DEF WatchKeys, Goto
    <3>11. CASE ReadIndex(r)
      BY <1>3, <2>1, <3>1, <3>11 DEF ReadIndex, Goto
    <3>12. CASE Commit(r)
      BY <1>3, <2>1, <3>1, <3>12 DEF Commit, Goto
    <3>13. CASE Aborted(r)
      BY <1>3, <2>1, <3>1, <3>13 DEF Aborted, Goto
    <3>14. CASE Unwatch(r)
      BY <1>3, <2>1, <3>1, <3>14 DEF Unwatch, Goto
    <3>15. CASE DeleteDuplicate(r)
      BY <1>3, <2>1, <3>1, <3>15 DEF DeleteDuplicate, Goto
    <3>16. QED
      BY <2>2, <3>2, <3>3, <3>4, <3>5, <3>6, <3>7, <3>8, <3>9, <3>10, <3>11, <3>12, <3>13, <3>14, <3>15 DEF Complete
  <2>3. PICK r \in Request : GetObject(r)
    BY <1>3, <2>2 DEF Next, Upload, Remove, ProcessCrash
  <2>4. r = s /\ bucket[c] # Absent
    BY <1>3, <2>1, <2>3 DEF GetObject, Goto
  <2>5. QED
    BY <2>3, <2>4 DEF GetObject, Kept, store
<1>4. QED
  BY <1>2, <1>3
-----------------------------------------------------------------------------
(* Theorems.                                                               *)

LEMMA UploadInvInit == Init => UploadInv
<1> SUFFICES ASSUME Init PROVE UploadInv
  OBVIOUS
<1>1. TypeOK
  BY UploadTypeInit
<1>2. KeyOf \in [Request -> Key]
  BY UploadAssumption DEF UploadAssumption
<1>3. IndexGood /\ CandidatesGood
  BY ListedEmpty DEF Init, IndexGood, CandidatesGood
<1>4. CanonGood /\ CompletionGood /\ WorkedOnKept
  BY <1>2 DEF Init, CanonGood, CompletionGood, WorkedOnKept, Working, Done
<1>5. QED
  BY <1>1, <1>3, <1>4 DEF UploadInv

LEMMA UploadInvStep == UploadInv /\ [Next]_vars => UploadInv'
<1>1. ASSUME UploadInv, Next
      PROVE  UploadInv'
  BY <1>1, UploadTypeStep, IndexGoodStep, CandidatesGoodStep, CanonGoodStep,
     CompletionGoodStep, WorkedOnKeptStep DEF UploadInv
<1>2. ASSUME UploadInv, UNCHANGED vars
      PROVE  UploadInv'
  BY <1>2 DEF vars, UploadInv, TypeOK, IndexGood, CandidatesGood, CanonGood, CompletionGood,
              WorkedOnKept, Good, Kept, Harmless, Repeated, Done
<1>3. QED
  BY <1>1, <1>2

\* The state of the uploads stays in its types, whatever fails.
THEOREM UploadTypeOK == Spec => []TypeOK
<1>1. QED
  BY UploadTypeInit, UploadTypeStep, PTL DEF Spec

\* The inductive invariant: every key that is pointed at, or may yet be, had its
\* own completion finish without deleting its object.
THEOREM UploadInvariant == Spec => []UploadInv
<1>1. QED
  BY UploadInvInit, UploadInvStep, PTL DEF Spec

\* The canonical object of an accepted upload is there unless someone else
\* removed it or its own upload was completed again.
THEOREM UploadKeepsObject == Spec => []AcceptedHasObject
<1>1. UploadInv => AcceptedHasObject
  <2> SUFFICES ASSUME UploadInv, NEW k \in Key, Done(k)
               PROVE  LET c == completion[k].canonical
                      IN  bucket[c] # Absent \/ c \in removed \/ Repeated(c)
    BY DEF AcceptedHasObject
  <2>1. completion[k].canonical \in Key
    BY DEF UploadInv, TypeOK, Done, Completion
  <2>2. Good(completion[k].canonical)
    BY <2>1 DEF UploadInv, CompletionGood
  <2>3. QED
    BY <2>2 DEF Good, Kept
<1>2. QED
  BY <1>1, UploadInvariant, PTL
-----------------------------------------------------------------------------
(* The index.  It loses an entry only to a transaction on a connection     *)
(* that another one used at the same time.                                 *)

\* s has been through the stripping of its object, or was refused before it.
PastCheck(s) == pc[s] \notin {"idle", "get", "strip"}

LEMMA PastCheckStays ==
  ASSUME TypeOK, [Next]_vars, NEW s \in Request, PastCheck(s)
  PROVE  PastCheck(s)'
<1>0. /\ DOMAIN pc = Request
      /\ \A r \in Request : after[r] \notin {"idle", "get", "strip"}
  BY DEF TypeOK
<1>1. ASSUME NEW k \in Key, Upload(k) \/ Remove(k) PROVE PastCheck(s)'
  BY <1>1 DEF Upload, Remove, PastCheck
<1>2. ASSUME NEW c \in Conn, ProcessCrash(c) PROVE PastCheck(s)'
  BY <1>0, <1>2 DEF ProcessCrash, PastCheck
<1>3. ASSUME NEW r \in Request, Complete(r) PROVE PastCheck(s)'
  <2>1. UNCHANGED pc \/ \E l : /\ pc' = [pc EXCEPT ![r] = l]
                               /\ pc[r] \in {"idle", "get", "strip"} \/ l \notin {"idle", "get", "strip"}
    <3>1. CASE HeadObject(r) \/ GetObject(r) \/ StripExif(r) \/ StripFails(r) \/ CandidateUnreadable(r)
      <4>1. /\ pc[r] \in {"idle", "get", "strip"} \/ UNCHANGED pc
            /\ UNCHANGED pc \/ \E l : pc' = [pc EXCEPT ![r] = l]
        BY <3>1 DEF HeadObject, GetObject, StripExif, StripFails, CandidateUnreadable, Goto
      <4>. QED
        BY <4>1
    <3>2. CASE Scan(r) \/ ScanFails(r) \/ ListCandidates(r) \/ Compare(r)
      BY <3>2 DEF Scan, ScanFails, ListCandidates, Compare, Goto
    <3>3. CASE WatchKeys(r) \/ ReadIndex(r) \/ Commit(r) \/ Aborted(r) \/ Unwatch(r) \/ DeleteDuplicate(r)
      BY <1>0, <3>3 DEF WatchKeys, ReadIndex, Commit, Aborted, Unwatch, DeleteDuplicate, Goto
    <3>. QED
      BY <1>3, <3>1, <3>2, <3>3 DEF Complete
  <2>. QED
    BY <1>0, <2>1 DEF PastCheck
<1>4. CASE UNCHANGED vars
  BY <1>4 DEF vars, PastCheck
<1>. QED
  BY <1>1, <1>2, <1>3, <1>4 DEF Next

\* The bytes of a request are settled by then.
LEMMA BodyStays ==
  ASSUME TypeOK, Next, NEW s \in Request, PastCheck(s)
  PROVE  body'[s] = body[s]
<1>0. DOMAIN body = Request
  BY DEF TypeOK
<1>1. ASSUME NEW r \in Request, GetObject(r) \/ StripExif(r)
      PROVE  body'[s] = body[s]
  BY <1>0, <1>1 DEF GetObject, StripExif, PastCheck
<1>2. ASSUME NEW r \in Request, Complete(r), ~GetObject(r), ~StripExif(r)
      PROVE  body' = body
  BY <1>2 DEF Complete, HeadObject, StripFails, Scan, ScanFails, ListCandidates, Compare,
     CandidateUnreadable, WatchKeys, ReadIndex, Commit, Aborted, Unwatch, DeleteDuplicate, local
<1>3. QED
  BY <1>1, <1>2 DEF Next, Upload, Remove, ProcessCrash, local

\* What was crowded once is crowded for good.
LEMMA CrowdedGrows == ASSUME Next PROVE crowded \subseteq crowded'
<1>1. ASSUME NEW r \in Request, Complete(r)
      PROVE  crowded \subseteq crowded'
  <2>1. CASE WatchKeys(r)
    BY <2>1 DEF WatchKeys
  <2>2. CASE ~WatchKeys(r)
    BY <1>1, <2>2 DEF Complete, HeadObject, GetObject, StripExif, StripFails, Scan, ScanFails,
       ListCandidates, Compare, CandidateUnreadable, ReadIndex, Commit, Aborted, Unwatch,
       DeleteDuplicate, redis
  <2>3. QED
    BY <2>1, <2>2
<1>2. QED
  BY <1>1 DEF Next, Upload, Remove, ProcessCrash, redis

\* Two transactions at once crowd the connection they share.
Alone ==
  \A r, s \in Request :
    r # s /\ ConnOf[r] = ConnOf[s] /\ InTransaction(r) /\ InTransaction(s) => ConnOf[r] \in crowded

\* A request about to commit watches its index, and what it read is what is
\* stored unless its connection noticed a change.
ReadIsCurrent ==
  \A r \in Request : ConnOf[r] \notin crowded =>
    /\ pc[r] \in {"read", "exec"} => <<"dedup", body[r]>> \in watch[ConnOf[r]].keys
    /\ pc[r] = "exec" /\ ~watch[ConnOf[r]].dirty => read[r] = index[body[r]]

\* An upload that is not in the index has a completion of its hash to blame that
\* shared its connection.
IndexedOrLost ==
  \A k \in Key : Done(k) =>
    \/ completion[k].canonical \in Listed(index[completion[k].sha])
    \/ \E r \in Request :
         PastCheck(r) /\ body[r] = completion[k].sha /\ ConnOf[r] \in crowded

IndexInv == TypeOK /\ Alone /\ ReadIsCurrent /\ IndexedOrLost

\* A transaction begins with WATCH.
LEMMA TransactionStarts ==
  ASSUME TypeOK, Next, NEW s \in Request, ~InTransaction(s), InTransaction(s)'
  PROVE  WatchKeys(s)
<1>0. /\ DOMAIN pc = Request
      /\ \A r \in Request : after[r] \notin {"read", "exec", "unwatch"}
  BY DEF TypeOK
<1> USE DEF InTransaction
<1>1. ASSUME NEW k \in Key, Upload(k) \/ Remove(k) PROVE FALSE
  BY <1>1 DEF Upload, Remove
<1>2. ASSUME NEW c \in Conn, ProcessCrash(c) PROVE FALSE
  BY <1>2 DEF ProcessCrash
<1>3. ASSUME NEW r \in Request, Complete(r) PROVE WatchKeys(s)
  <2>1. CASE HeadObject(r) \/ GetObject(r) \/ StripExif(r) \/ StripFails(r)
    BY <1>0, <2>1 DEF HeadObject, GetObject, StripExif, StripFails, Goto
  <2>2. CASE Scan(r) \/ ScanFails(r) \/ ListCandidates(r) \/ Compare(r) \/ CandidateUnreadable(r)
    BY <1>0, <2>2 DEF Scan, ScanFails, ListCandidates, Compare, CandidateUnreadable, Goto
  <2>3. CASE ReadIndex(r) \/ Commit(r) \/ Aborted(r) \/ Unwatch(r) \/ DeleteDuplicate(r)
    BY <1>0, <2>3 DEF ReadIndex, Commit, Aborted, Unwatch, DeleteDuplicate, Goto
  <2>4. CASE WatchKeys(r)
    BY <1>0, <2>4 DEF WatchKeys, Goto
  <2>5. QED
    BY <1>3, <2>1, <2>2, <2>3, <2>4 DEF Complete
<1>4. QED
  BY <1>1, <1>2, <1>3 DEF Next

LEMMA AloneStep == ASSUME TypeOK, Alone, Next PROVE Alone'
<1> SUFFICES ASSUME NEW r \in Request, NEW s \in Request, r # s, ConnOf[r] = ConnOf[s],
                    InTransaction(r)', InTransaction(s)'
             PROVE  ConnOf[r] \in crowded'
  BY DEF Alone
<1>1. CASE InTransaction(r) /\ InTransaction(s)
  BY <1>1, CrowdedGrows DEF Alone
<1>2. ASSUME NEW p \in Request, NEW q \in Request, p # q, ConnOf[p] = ConnOf[q], ~InTransaction(p),
             InTransaction(p)', InTransaction(q)'
      PROVE  ConnOf[p] \in crowded'
  <2>1. WatchKeys(p)
    BY <1>2, TransactionStarts
  <2>2. InTransaction(q)
    BY <1>2, <2>1 DEF WatchKeys, Goto, InTransaction, TypeOK
  <2>3. QED
    BY <1>2, <2>1, <2>2 DEF WatchKeys
<1>3. QED
  BY <1>1, <1>2

\* A transaction adds to the index what it read, and takes nothing away.
LEMMA CommitExtends ==
  ASSUME IndexInv, NEW r \in Request, Commit(r), ConnOf[r] \notin crowded, NEW h \in Content
  PROVE  /\ Listed(index[h]) \subseteq Listed(index'[h])
         /\ canon[r] \in Listed(index'[body[r]])
<1>1. index' = [index EXCEPT ![body[r]] = Extended(r)] /\ read[r] = index[body[r]]
  BY DEF IndexInv, ReadIsCurrent, Commit
<1>2. Listed(Extended(r)) = Listed(index[body[r]]) \cup {canon[r]}
  BY <1>1, ExtendedListed DEF IndexInv
<1>3. DOMAIN index = Content /\ body[r] \in Content
  BY DEF IndexInv, TypeOK
<1>4. QED
  BY <1>1, <1>2, <1>3

\* An entry that was to blame is to blame from then on.
LEMMA BlameStays ==
  ASSUME TypeOK, Next, NEW s \in Request, PastCheck(s), ConnOf[s] \in crowded
  PROVE  PastCheck(s)' /\ body'[s] = body[s] /\ ConnOf[s] \in crowded'
BY PastCheckStays, BodyStays, CrowdedGrows

LEMMA IndexedOrLostStep == ASSUME IndexInv, Next PROVE IndexedOrLost'
<1> DEFINE Lost(h)    == \E s \in Request : PastCheck(s) /\ body[s] = h /\ ConnOf[s] \in crowded
           LostNow(h) == \E s \in Request :
                           PastCheck(s)' /\ body'[s] = h /\ ConnOf[s] \in crowded'
<1>0. TypeOK
  BY DEF IndexInv
<1> SUFFICES ASSUME NEW k \in Key, Done(k)'
             PROVE  \/ completion'[k].canonical \in Listed(index'[completion'[k].sha])
                    \/ LostNow(completion'[k].sha)
  BY DEF IndexedOrLost, Listed
<1>1. \A h : Lost(h) => LostNow(h)
  BY <1>0, BlameStays
<1>2. CASE index' = index /\ completion' = completion
  BY <1>1, <1>2 DEF IndexInv, IndexedOrLost, Done
<1>3. ASSUME NEW r \in Request, Commit(r)
      PROVE  \/ completion'[k].canonical \in Listed(index'[completion'[k].sha])
             \/ LostNow(completion'[k].sha)
  <2>1. body[r] \in Content /\ DOMAIN completion = Key /\ DOMAIN index = Content
    BY <1>0 DEF TypeOK
  <2>2. /\ completion' = [completion EXCEPT ![KeyOf[r]] = [canonical |-> canon[r], sha |-> body[r]]]
        /\ index' = [index EXCEPT ![body[r]] = Extended(r)]
    BY <1>3 DEF Commit
  <2>3. PastCheck(r)
    BY <1>3 DEF Commit, PastCheck
  <2>4. CASE ConnOf[r] \notin crowded
    <3>1. CASE k = KeyOf[r]
      <4>1. completion'[k] = [canonical |-> canon[r], sha |-> body[r]]
        BY <2>1, <2>2, <3>1
      <4>2. QED
        BY <1>3, <2>1, <2>4, <4>1, CommitExtends
    <3>2. CASE k # KeyOf[r]
      <4>1. completion'[k] = completion[k]
        BY <2>1, <2>2, <3>2
      <4>2. Done(k) /\ completion[k].sha \in Content
        BY <1>0, <4>1 DEF TypeOK, Completion, Done
      <4>3. \/ completion[k].canonical \in Listed(index[completion[k].sha])
            \/ Lost(completion[k].sha)
        BY <4>2 DEF IndexInv, IndexedOrLost
      <4>4. QED
        BY <1>1, <1>3, <2>4, <4>1, <4>2, <4>3, CommitExtends
    <3>3. QED
      BY <3>1, <3>2
  <2>5. CASE ConnOf[r] \in crowded
    <3>1. LostNow(body[r])
      BY <1>1, <2>3, <2>5
    <3>2. CASE completion'[k].sha = body[r]
      BY <3>1, <3>2
    <3>3. CASE completion'[k].sha # body[r]
      <4>1. completion'[k] = completion[k]
        BY <2>1, <2>2, <3>3
      <4>2. Done(k) /\ index'[completion[k].sha] = index[completion[k].sha]
        <5>1. Done(k)
          BY <4>1 DEF Done
        <5>2. completion[k].sha \in Content
          BY <1>0, <5>1 DEF TypeOK, Completion, Done
        <5>3. QED
          BY <2>1, <2>2, <3>3, <4>1, <5>1, <5>2
      <4>3. \/ completion[k].canonical \in Listed(index[completion[k].sha])
            \/ Lost(completion[k].sha)
        BY <4>2 DEF IndexInv, IndexedOrLost
      <4>4. QED
        BY <1>1, <4>1, <4>2, <4>3
    <3>4. QED
      BY <3>2, <3>3
  <2>6. QED
    BY <2>4, <2>5
<1>4. QED
  BY <1>2, <1>3, OnlyCommitWrites

LEMMA ReadIsCurrentStep == ASSUME IndexInv, Next PROVE ReadIsCurrent'
<1> SUFFICES ASSUME NEW s \in Request, ConnOf[s] \notin crowded'
             PROVE  /\ pc'[s] \in {"read", "exec"} =>
                         <<"dedup", body'[s]>> \in watch'[ConnOf[s]].keys
                    /\ pc'[s] = "exec" /\ ~watch'[ConnOf[s]].dirty =>
                         read'[s] = index'[body'[s]]
  BY DEF ReadIsCurrent
<1> DEFINE Current == /\ pc'[s] \in {"read", "exec"} =>
                            <<"dedup", body'[s]>> \in watch'[ConnOf[s]].keys
                      /\ pc'[s] = "exec" /\ ~watch'[ConnOf[s]].dirty =>
                            read'[s] = index'[body'[s]]
<1>1. /\ DOMAIN pc = Request /\ DOMAIN body = Request /\ DOMAIN read = Request
      /\ DOMAIN watch = Conn /\ DOMAIN index = Content /\ body[s] \in Content
      /\ after[s] \notin {"read", "exec"}
      /\ \A c \in Conn : watch[c] \in [keys : SUBSET RedisKey, dirty : BOOLEAN]
  BY DEF IndexInv, TypeOK
<1>2. ConnOf[s] \in Conn /\ ConnOf[s] \notin crowded
  BY UploadAssumption, CrowdedGrows DEF UploadAssumption
<1>3. /\ pc[s] \in {"read", "exec"} => <<"dedup", body[s]>> \in watch[ConnOf[s]].keys
      /\ pc[s] = "exec" /\ ~watch[ConnOf[s]].dirty => read[s] = index[body[s]]
  BY <1>2 DEF IndexInv, ReadIsCurrent
<1>4. \A r \in Request :
        /\ ConnOf[r] = ConnOf[s]
        /\ pc[r] \in {"read", "exec", "unwatch"} /\ pc[s] \in {"read", "exec", "unwatch"}
        => r = s
  BY <1>2 DEF IndexInv, Alone, InTransaction
<1> USE <1>1, <1>2, <1>3
<1>5. ASSUME NEW k \in Key, Upload(k) \/ Remove(k)
      PROVE  Current
  BY <1>5 DEF Upload, Remove, local, redis
<1>6. ASSUME NEW c \in Conn, ProcessCrash(c)
      PROVE  Current
  BY <1>6 DEF ProcessCrash, local, Unwatched, Answered, Refused
<1>7. ASSUME NEW r \in Request, Complete(r)
      PROVE  Current
  <2>1. CASE HeadObject(r)
    BY <2>1 DEF HeadObject, Goto, local, redis
  <2>2. CASE GetObject(r)
    BY <2>2 DEF GetObject, Goto, local, redis
  <2>3. CASE StripExif(r)
    BY <2>3 DEF StripExif, Goto, local, redis
  <2>4. CASE StripFails(r)
    BY <2>4 DEF StripFails, Goto, local, redis
  <2>5. CASE Scan(r)
    BY <2>5 DEF Scan, Goto, local, redis
  <2>6. CASE ScanFails(r)
    BY <2>6 DEF ScanFails, Goto, local, redis
  <2>7. CASE ListCandidates(r)
    BY <2>7 DEF ListCandidates, Goto, local, redis
  <2>8. CASE Compare(r)
    BY <2>8 DEF Compare, Goto, local, redis
  <2>9. CASE CandidateUnreadable(r)
    BY <2>9 DEF CandidateUnreadable, Goto, local, redis
  <2>10. CASE WatchKeys(r)
    BY <2>10 DEF WatchKeys, Goto, Keys, local
  <2>11. CASE ReadIndex(r)
    BY <2>11 DEF ReadIndex, Goto, local, redis
  <2>12. CASE Commit(r)
    BY <1>4, <2>12 DEF Commit, Goto, Touched, Unwatched, Keys
  <2>13. CASE Aborted(r)
    BY <1>4, <2>13 DEF Aborted, Goto, Unwatched
  <2>14. CASE Unwatch(r)
    BY <1>4, <2>14 DEF Unwatch, Goto, Unwatched, local
  <2>15. CASE DeleteDuplicate(r)
    BY <2>15 DEF DeleteDuplicate, Goto, local, redis
  <2>16. QED
    BY <1>7, <2>1, <2>2, <2>3, <2>4, <2>5, <2>6, <2>7, <2>8, <2>9, <2>10, <2>11, <2>12, <2>13, <2>14, <2>15 DEF Complete
<1>8. QED
  BY <1>5, <1>6, <1>7 DEF Next

\* finalizeUploadCompletion: a completed upload stays in the index of its hash
\* unless a completion of that hash was served on a connection that two transactions
\* used at once, however many processes, connections and retries there are.
THEOREM UploadIndexedUnlessCrowded == Spec => []IndexedUnlessCrowded
<1>1. Init => IndexInv
  BY UploadTypeInit
     DEF Init, IndexInv, Alone, InTransaction, ReadIsCurrent, IndexedOrLost, Done
<1>2. IndexInv /\ [Next]_vars => IndexInv'
  <2>1. ASSUME IndexInv, Next
        PROVE  IndexInv'
    BY <2>1, UploadTypeStep, AloneStep, ReadIsCurrentStep, IndexedOrLostStep DEF IndexInv
  <2>2. ASSUME IndexInv, UNCHANGED vars
        PROVE  IndexInv'
    BY <2>2 DEF vars, IndexInv, TypeOK, Alone, InTransaction, ReadIsCurrent, IndexedOrLost,
       PastCheck, Done
  <2>3. QED
    BY <2>1, <2>2
<1>3. IndexInv => IndexedUnlessCrowded
  BY DEF IndexInv, IndexedOrLost, IndexedUnlessCrowded
<1>4. QED
  BY <1>1, <1>2, <1>3, PTL DEF Spec
-----------------------------------------------------------------------------
(* The bytes that are recorded.                                            *)

\* An object is what the client uploaded, or what the stripping of it left, which
\* only the declared file is put to.
BucketTrue ==
  \A k \in Key : bucket[k] # Absent =>
    \/ bucket[k] = uploaded[k]
    \/ uploaded[k] = Declared[k] /\ bucket[k] = Strip[Declared[k]]

\* Content h stands for the object of k, whatever is still done to it: h was
\* uploaded, or is what stripping left and nothing but that is there any more.
StandsFor(h, k) ==
  /\ uploaded[k] # Absent
  /\ \/ h = uploaded[k]
     \/ /\ uploaded[k] = Declared[k] /\ h = Strip[Declared[k]]
        /\ bucket[k] \in {h, Absent}

Undecided == {"idle", "get", "strip", "scan", "list", "compare"}
PastStrip == {"scan", "list", "compare", "watch", "read", "exec", "unwatch", "delete"}

\* What a request works on, and what it will record.
WorkTrue(r) ==
  /\ pc[r] = "strip" => body[r] = Declared[KeyOf[r]] /\ uploaded[KeyOf[r]] = Declared[KeyOf[r]]
  /\ pc[r] \in Undecided => canon[r] = KeyOf[r]
  /\ pc[r] \in PastStrip => StandsFor(body[r], canon[r])

RecordTrue(k) == Done(k) => StandsFor(completion[k].sha, completion[k].canonical)

BytesInv ==
  /\ TypeOK
  /\ BucketTrue
  /\ \A r \in Request : WorkTrue(r)
  /\ \A k \in Key : RecordTrue(k)

LEMMA RecordTyped ==
  ASSUME TypeOK, NEW k \in Key, Done(k)
  PROVE  completion[k].canonical \in Key /\ completion[k].sha \in Content
BY DEF TypeOK, Done, Completion

LEMMA BytesImply == BytesInv => RecordedBytesStored
<1>. SUFFICES ASSUME BytesInv, NEW k \in Key, Done(k)
              PROVE  bucket[completion[k].canonical] \in
                       {completion[k].sha, Strip[completion[k].sha], Absent}
  BY DEF RecordedBytesStored
<1>1. completion[k].canonical \in Key
  BY RecordTyped DEF BytesInv
<1>. QED
  BY <1>1 DEF BytesInv, BucketTrue, StandsFor, RecordTrue

\* What a step may do to an object: nothing is uploaded twice, and what is there
\* goes, stays or is stripped.
ObjectKept(k) ==
  uploaded[k] # Absent =>
    /\ uploaded'[k] = uploaded[k]
    /\ \/ bucket'[k] \in {bucket[k], Absent}
       \/ uploaded[k] = Declared[k] /\ bucket'[k] = Strip[Declared[k]]

LEMMA ObjectsKept ==
  ASSUME BytesInv, [Next]_vars
  PROVE  BucketTrue' /\ \A k \in Key : ObjectKept(k)
<1>0. /\ bucket \in [Key -> Object] /\ uploaded \in [Key -> Object]
      /\ \A r \in Request : KeyOf[r] \in Key
  BY UploadAssumption DEF UploadAssumption, BytesInv, TypeOK
<1>. USE <1>0 DEF BytesInv, BucketTrue, ObjectKept
<1>1. ASSUME NEW k \in Key, Upload(k) PROVE BucketTrue' /\ \A j \in Key : ObjectKept(j)
  BY <1>1 DEF Upload
<1>2. ASSUME NEW k \in Key, Remove(k) PROVE BucketTrue' /\ \A j \in Key : ObjectKept(j)
  BY <1>2 DEF Remove
<1>3. ASSUME NEW r \in Request, StripExif(r) \/ StripFails(r)
      PROVE  BucketTrue' /\ \A j \in Key : ObjectKept(j)
  <2>1. /\ uploaded[KeyOf[r]] = Declared[KeyOf[r]] /\ uploaded' = uploaded
        /\ bucket' \in {bucket, [bucket EXCEPT ![KeyOf[r]] = Strip[Declared[KeyOf[r]]]]}
    BY <1>3 DEF StripExif, StripFails, WorkTrue
  <2>. QED
    BY <2>1
<1>4. ASSUME NEW r \in Request, DeleteDuplicate(r)
      PROVE  BucketTrue' /\ \A j \in Key : ObjectKept(j)
  BY <1>4 DEF DeleteDuplicate
<1>5. CASE UNCHANGED <<bucket, uploaded>>
  BY <1>5
<1>6. ASSUME NEW r \in Request, Complete(r)
      PROVE  StripExif(r) \/ StripFails(r) \/ DeleteDuplicate(r) \/ UNCHANGED <<bucket, uploaded>>
  BY <1>6 DEF Complete, HeadObject, GetObject, Scan, ScanFails, ListCandidates, Compare,
     CandidateUnreadable, WatchKeys, ReadIndex, Commit, Aborted, Unwatch, store
<1>7. ASSUME NEW c \in Conn, ProcessCrash(c) PROVE UNCHANGED <<bucket, uploaded>>
  BY <1>7 DEF ProcessCrash, store
<1>8. CASE UNCHANGED vars
  BY <1>5, <1>8 DEF vars
<1>. QED
  BY <1>1, <1>2, <1>3, <1>4, <1>5, <1>6, <1>7, <1>8 DEF Next

LEMMA StandsStill ==
  ASSUME NEW k \in Key, ObjectKept(k), NEW h, StandsFor(h, k) PROVE StandsFor(h, k)'
BY DEF StandsFor, ObjectKept

\* A request that does not move, and a record that is not written, stay true.
LEMMA OthersTrue ==
  ASSUME BytesInv, [Next]_vars
  PROVE  /\ \A s \in Request : pc'[s] \in {pc[s], "crashed"} /\ body'[s] = body[s] /\ canon'[s] = canon[s]
                                 => WorkTrue(s)'
         /\ \A k \in Key : completion'[k] = completion[k] => RecordTrue(k)'
<1>1. \A k \in Key : ObjectKept(k)
  BY ObjectsKept
<1>2. ASSUME NEW s \in Request, pc'[s] \in {pc[s], "crashed"}, body'[s] = body[s],
             canon'[s] = canon[s]
      PROVE  WorkTrue(s)'
  <2>1. /\ KeyOf[s] \in Key /\ canon[s] \in Key /\ body[s] \in Content /\ Declared[KeyOf[s]] # Absent /\ WorkTrue(s)
    BY UploadAssumption DEF UploadAssumption, BytesInv, TypeOK
  <2>2. ASSUME pc'[s] \in PastStrip PROVE StandsFor(body[s], canon[s])'
    <3>1. PICK h \in Content, c \in Key : h = body[s] /\ c = canon[s] /\ StandsFor(h, c)
      BY <1>2, <2>1, <2>2 DEF WorkTrue, PastStrip
    <3>2. StandsFor(h, c)' /\ h = body'[s] /\ c = canon'[s]
      BY <1>1, <1>2, <3>1, StandsStill
    <3>. QED
      BY <3>2 DEF StandsFor
  <2>3. pc'[s] = "strip" => uploaded'[KeyOf[s]] = Declared[KeyOf[s]]
    BY <1>1, <1>2, <2>1 DEF WorkTrue, ObjectKept
  <2>. QED
    BY <1>2, <2>1, <2>2, <2>3 DEF WorkTrue, Undecided
<1>3. ASSUME NEW k \in Key, completion'[k] = completion[k] PROVE RecordTrue(k)'
  <2>1. CASE Done(k)
    <3>1. PICK h \in Content, c \in Key :
            h = completion[k].sha /\ c = completion[k].canonical /\ StandsFor(h, c)
      BY <2>1, RecordTyped DEF BytesInv, RecordTrue
    <3>2. StandsFor(h, c)' /\ h = completion'[k].sha /\ c = completion'[k].canonical
      BY <1>1, <1>3, <3>1, StandsStill
    <3>. QED
      BY <3>2 DEF RecordTrue, StandsFor
  <2>2. CASE ~Done(k)
    BY <1>3, <2>2 DEF RecordTrue, Done
  <2>. QED
    BY <2>1, <2>2
<1>. QED
  BY <1>2, <1>3

LEMMA BytesStep == BytesInv /\ [Next]_vars => BytesInv'
<1>. SUFFICES ASSUME BytesInv, [Next]_vars PROVE BytesInv'
  OBVIOUS
<1>1. TypeOK' /\ BucketTrue' /\ \A k \in Key : ObjectKept(k)
  BY UploadTypeStep, ObjectsKept DEF BytesInv
<1>2. ASSUME NEW r \in Request, WorkTrue(r)', completion' = completion,
             \A s \in Request \ {r} : pc'[s] = pc[s] /\ body'[s] = body[s] /\ canon'[s] = canon[s]
      PROVE  BytesInv'
  BY <1>1, <1>2, OthersTrue DEF BytesInv
<1>3. ASSUME UNCHANGED <<body, canon, completion>>,
             \A s \in Request : pc'[s] \in {pc[s], "crashed"}
      PROVE  BytesInv'
  BY <1>1, <1>3, OthersTrue DEF BytesInv
<1>4. ASSUME NEW k \in Key, Upload(k) \/ Remove(k) PROVE BytesInv'
  BY <1>3, <1>4 DEF Upload, Remove, redis, local
<1>5. ASSUME NEW c \in Conn, ProcessCrash(c) PROVE BytesInv'
  BY <1>3, <1>5 DEF ProcessCrash, local
<1>6. CASE UNCHANGED vars
  BY <1>3, <1>6 DEF vars
<1>7. ASSUME NEW r \in Request, Complete(r) PROVE BytesInv'
  <2>0. /\ WorkTrue(r) /\ KeyOf[r] \in Key /\ Declared[KeyOf[r]] \in Content /\ TypeOK
        /\ pc \in [Request -> Answered \cup {"idle", "get", "strip", "scan", "list", "compare",
                                       "watch", "read", "exec", "unwatch", "delete"}]
        /\ body \in [Request -> Content] /\ canon \in [Request -> Key]
        /\ body[r] \in Content /\ canon[r] \in Key /\ Absent \notin Content
    BY UploadAssumption DEF UploadAssumption, BytesInv, TypeOK
  <2>1. CASE HeadObject(r)
    <3>1. /\ pc' = [pc EXCEPT ![r] = IF bucket[KeyOf[r]] = Absent THEN "not found" ELSE "get"]
          /\ UNCHANGED <<body, canon, completion>> /\ pc[r] = "idle"
      BY <2>1 DEF HeadObject, Goto, redis, local
    <3>2. WorkTrue(r)'
      BY <2>0, <3>1 DEF WorkTrue, Undecided, PastStrip
    <3>. QED
      BY <1>2, <2>0, <3>1, <3>2
  <2>2. CASE GetObject(r)
    <3>1. /\ pc[r] = "get" /\ UNCHANGED <<canon, completion, uploaded>>
          /\ pc' = [pc EXCEPT ![r] =
               IF bucket[KeyOf[r]] = Absent THEN "not found"
               ELSE IF bucket[KeyOf[r]] \in Unsupported THEN "unsupported"
               ELSE IF bucket[KeyOf[r]] # Declared[KeyOf[r]] THEN "mismatch"
               ELSE "strip"]
          /\ body' = [body EXCEPT ![r] = IF bucket[KeyOf[r]] = Absent THEN @ ELSE bucket[KeyOf[r]]]
      BY <2>2 DEF GetObject, Goto, redis, store
    <3>2. bucket[KeyOf[r]] = Declared[KeyOf[r]] => uploaded[KeyOf[r]] = Declared[KeyOf[r]]
      BY <2>0 DEF BytesInv, BucketTrue
    <3>3. WorkTrue(r)'
      BY <2>0, <3>1, <3>2 DEF WorkTrue, Undecided, PastStrip
    <3>. QED
      BY <1>2, <2>0, <3>1, <3>3
  <2>3. CASE StripExif(r) \/ StripFails(r)
    <3>1. /\ pc[r] = "strip" /\ pc' = [pc EXCEPT ![r] = "scan"] /\ UNCHANGED <<canon, completion, uploaded>>
          /\ \/ body' = body
             \/ /\ body' = [body EXCEPT ![r] = Strip[body[r]]]
                /\ bucket' = IF Strip[body[r]] = body[r] THEN bucket
                             ELSE [bucket EXCEPT ![KeyOf[r]] = Strip[body[r]]]
      BY <2>3 DEF StripExif, StripFails, Goto, redis, local
    <3>2. /\ uploaded[KeyOf[r]] = Declared[KeyOf[r]] /\ body[r] = Declared[KeyOf[r]]
          /\ canon[r] = KeyOf[r] /\ bucket \in [Key -> Object]
      BY <2>0, <3>1 DEF WorkTrue, Undecided, TypeOK
    <3>3. pc'[r] = "scan" /\ canon'[r] = KeyOf[r] /\ uploaded'[KeyOf[r]] = Declared[KeyOf[r]]
      BY <2>0, <3>1, <3>2
    <3>4. ASSUME body' = body PROVE StandsFor(body[r], canon[r])'
      <4>1. body'[r] = Declared[KeyOf[r]]
        BY <3>2, <3>4
      <4>. QED
        BY <2>0, <3>3, <4>1 DEF StandsFor
    <3>5. ASSUME body' = [body EXCEPT ![r] = Strip[body[r]]],
                 bucket' = IF Strip[body[r]] = body[r] THEN bucket
                           ELSE [bucket EXCEPT ![KeyOf[r]] = Strip[body[r]]]
          PROVE  StandsFor(body[r], canon[r])'
      <4>1. body'[r] = Strip[Declared[KeyOf[r]]]
        BY <2>0, <3>2, <3>5
      <4>2. \/ Strip[Declared[KeyOf[r]]] = Declared[KeyOf[r]]
            \/ bucket'[KeyOf[r]] = Strip[Declared[KeyOf[r]]]
        BY <2>0, <3>2, <3>5
      <4>. QED
        BY <2>0, <3>3, <4>1, <4>2 DEF StandsFor
    <3>6. WorkTrue(r)'
      <4>1. StandsFor(body[r], canon[r])'
        BY <3>1, <3>4, <3>5
      <4>. QED
        BY <3>3, <4>1 DEF WorkTrue, Undecided, PastStrip
    <3>7. \A s \in Request \ {r} : pc'[s] = pc[s] /\ body'[s] = body[s] /\ canon'[s] = canon[s]
      BY <2>0, <3>1
    <3>. QED
      BY <1>2, <3>1, <3>6, <3>7
  \* From here on the object stands for what is recorded; only the pc moves.
  <2>4. ASSUME pc[r] \in PastStrip, UNCHANGED <<body, canon, completion>>,
               NEW label, pc' = [pc EXCEPT ![r] = label], label # "strip",
               label \in Undecided => canon[r] = KeyOf[r]
        PROVE  BytesInv'
    <3>1. PICK h \in Content, c \in Key : h = body[r] /\ c = canon[r] /\ StandsFor(h, c)
      BY <2>0, <2>4 DEF WorkTrue
    <3>2. StandsFor(h, c)' /\ h = body'[r] /\ c = canon'[r]
      BY <1>1, <2>4, <3>1, StandsStill
    <3>3. StandsFor(body[r], canon[r])'
      BY <3>2 DEF StandsFor
    <3>4. WorkTrue(r)'
      BY <2>0, <2>4, <3>3 DEF WorkTrue
    <3>. QED
      BY <1>2, <2>0, <2>4, <3>4
  <2>. USE DEF PastStrip, Undecided
  <2>5. CASE Scan(r) \/ ScanFails(r) \/ ListCandidates(r)
    <3>1. canon[r] = KeyOf[r]
      BY <2>0, <2>5 DEF Scan, ScanFails, ListCandidates, WorkTrue
    <3>. QED
      BY <2>4, <2>5, <3>1 DEF Scan, ScanFails, ListCandidates, Goto, redis, local
  <2>6. CASE Compare(r)
    <3>1. pc[r] = "compare" /\ completion' = completion /\ body' = body /\ canon[r] = KeyOf[r]
          /\ bucket' = bucket /\ uploaded' = uploaded
      BY <2>0, <2>6 DEF Compare, WorkTrue, redis, store
    <3>2. CASE canon' = canon /\ pc' \in {pc, [pc EXCEPT ![r] = "watch"]}
      <4>1. PICK label \in {"compare", "watch"} : pc' = [pc EXCEPT ![r] = label]
        BY <2>0, <3>1, <3>2
      <4>. QED
        BY <2>4, <3>1, <3>2, <4>1
    <3>3. CASE /\ left[r] # <<>> /\ bucket[Head(left[r])] = body[r]
               /\ canon' = [canon EXCEPT ![r] = Head(left[r])]
               /\ pc' = [pc EXCEPT ![r] = "watch"]
      <4>1. PICK k \in Key : k = Head(left[r])
        BY <3>3, ListedTail, <2>0 DEF TypeOK
      <4>2. bucket[k] # Absent /\ bucket[k] = body[r] /\ Declared[k] # Absent
        BY <2>0, <3>3, <4>1, UploadAssumption DEF UploadAssumption
      <4>3. StandsFor(body[r], k)
        BY <4>2 DEF StandsFor, BytesInv, BucketTrue
      <4>4. canon'[r] = k /\ pc'[r] = "watch"
        BY <2>0, <3>3, <4>1
      <4>5. WorkTrue(r)'
        BY <3>1, <4>3, <4>4 DEF WorkTrue, StandsFor
      <4>. QED
        BY <1>2, <2>0, <3>1, <3>3, <4>5
    <3>. QED
      BY <2>6, <3>2, <3>3 DEF Compare, Goto
  <2>7. CASE CandidateUnreadable(r)
    BY <1>3, <2>7 DEF CandidateUnreadable, redis
  <2>8. CASE WatchKeys(r) \/ ReadIndex(r) \/ Aborted(r)
    BY <2>4, <2>8 DEF WatchKeys, ReadIndex, Aborted, Goto, redis, local
  <2>9. CASE Unwatch(r)
    <3>1. after[r] \notin {"strip"} \cup Undecided
      BY <2>0 DEF TypeOK
    <3>. QED
      BY <2>4, <2>9, <3>1 DEF Unwatch, Goto, local
  <2>10. CASE DeleteDuplicate(r)
    BY <2>4, <2>10 DEF DeleteDuplicate, Goto, redis, local
  <2>11. CASE Commit(r)
    <3>1. /\ pc[r] = "exec" /\ pc' = [pc EXCEPT ![r] = "unwatch"] /\ UNCHANGED <<body, canon, bucket, uploaded>>
          /\ completion' = [completion EXCEPT ![KeyOf[r]] = [canonical |-> canon[r], sha |-> body[r]]]
      BY <2>11 DEF Commit, Goto, store
    <3>2. StandsFor(body[r], canon[r])
      BY <2>0, <3>1 DEF WorkTrue
    <3>3. /\ completion'[KeyOf[r]] = [canonical |-> canon[r], sha |-> body[r]]
          /\ \A k \in Key \ {KeyOf[r]} : completion'[k] = completion[k]
      BY <2>0, <3>1 DEF TypeOK
    <3>4. RecordTrue(KeyOf[r])'
      BY <3>1, <3>2, <3>3 DEF RecordTrue, StandsFor
    <3>5. WorkTrue(r)'
      BY <2>0, <3>1, <3>2 DEF WorkTrue, StandsFor
    <3>6. \A s \in Request \ {r} : WorkTrue(s)'
      BY <2>0, <3>1, OthersTrue
    <3>7. \A k \in Key : RecordTrue(k)'
      BY <3>3, <3>4, OthersTrue
    <3>. QED
      BY <1>1, <3>5, <3>6, <3>7 DEF BytesInv
  <2>. QED
    BY <1>7, <2>1, <2>2, <2>3, <2>5, <2>6, <2>7, <2>8, <2>9, <2>10, <2>11 DEF Complete
<1>. QED
  BY <1>4, <1>5, <1>6, <1>7 DEF Next

\* POST /api/uploads/complete: the canonical object has the bytes that were hashed
\* and scanned, or these without EXIF data, whoever rewrote or removed it since and
\* however completions of one key or of equal files overlap.
THEOREM UploadRecordedBytesStored == Spec => []RecordedBytesStored
<1>1. Init => BytesInv
  BY UploadTypeInit
     DEF Init, BytesInv, BucketTrue, WorkTrue, RecordTrue, Done, PastStrip, Undecided
<1>. QED
  BY <1>1, BytesImply, BytesStep, PTL DEF Spec
-----------------------------------------------------------------------------
(* When a client is told of a mismatch that is none.  The refused object   *)
(* is then the stripped one, which an earlier completion left in place.    *)

\* An object that differs from what was uploaded was rewritten by a request.
RewriteHasAuthor ==
  \A k \in Key : bucket[k] # Absent /\ bucket[k] # uploaded[k] =>
    \E s \in Request : KeyOf[s] = k /\ PastCheck(s)

\* The declared file is refused only if stripping changes it and another request
\* to complete it got beyond its first check.
StrippedByOther(r) ==
  LET k == KeyOf[r]
  IN  Strip[Declared[k]] # Declared[k] /\ Repeated(k)

MismatchExplained(r) ==
  pc[r] = "mismatch" =>
    /\ uploaded[KeyOf[r]] # Absent
    /\ uploaded[KeyOf[r]] # Declared[KeyOf[r]] \/ StrippedByOther(r)

MismatchInv == BytesInv /\ RewriteHasAuthor /\ \A r \in Request : MismatchExplained(r)

\* Only stripping leaves an object that was not uploaded.
LEMMA RewriteHasAuthorStep ==
  ASSUME BytesInv, RewriteHasAuthor, [Next]_vars
  PROVE  RewriteHasAuthor'
<1>0. TypeOK /\ bucket \in [Key -> Object] /\ uploaded \in [Key -> Object] /\ DOMAIN pc = Request
  BY DEF BytesInv, TypeOK
<1>. SUFFICES ASSUME NEW k \in Key, bucket'[k] # Absent, bucket'[k] # uploaded'[k]
              PROVE  \E s \in Request : KeyOf[s] = k /\ PastCheck(s)'
  BY DEF RewriteHasAuthor
<1>1. CASE bucket[k] # Absent /\ bucket[k] # uploaded[k]
  BY <1>0, <1>1, PastCheckStays DEF RewriteHasAuthor
<1>2. CASE bucket[k] = Absent \/ bucket[k] = uploaded[k]
  <2>1. ASSUME NEW r \in Request, StripExif(r) \/ StripFails(r)
        PROVE  \E s \in Request : KeyOf[s] = k /\ PastCheck(s)'
    <3>1. KeyOf[r] = k
      BY <1>0, <1>2, <2>1 DEF StripExif, StripFails
    <3>2. PastCheck(r)'
      BY <1>0, <2>1 DEF StripExif, StripFails, Goto, PastCheck
    <3>. QED
      BY <3>1, <3>2
  <2>2. ASSUME NEW j \in Key, Upload(j) \/ Remove(j) PROVE FALSE
    BY <1>0, <1>2, <2>2 DEF Upload, Remove
  <2>3. ASSUME NEW r \in Request, DeleteDuplicate(r) PROVE FALSE
    BY <1>0, <1>2, <2>3 DEF DeleteDuplicate
  <2>4. ASSUME UNCHANGED <<bucket, uploaded>> PROVE FALSE
    BY <1>2, <2>4
  <2>5. ASSUME NEW r \in Request, Complete(r)
        PROVE  StripExif(r) \/ StripFails(r) \/ DeleteDuplicate(r) \/ UNCHANGED <<bucket, uploaded>>
    BY <2>5 DEF Complete, HeadObject, GetObject, Scan, ScanFails, ListCandidates, Compare,
       CandidateUnreadable, WatchKeys, ReadIndex, Commit, Aborted, Unwatch, store
  <2>6. ASSUME NEW c \in Conn, ProcessCrash(c) PROVE UNCHANGED <<bucket, uploaded>>
    BY <2>6 DEF ProcessCrash, store
  <2>. QED
    BY <2>1, <2>2, <2>3, <2>4, <2>5, <2>6 DEF Next, vars
<1>. QED
  BY <1>1, <1>2

\* Only GetObject says mismatch.
LEMMA MismatchWriter ==
  ASSUME TypeOK, [Next]_vars, NEW r \in Request, pc'[r] = "mismatch", ~GetObject(r)
  PROVE  pc[r] = "mismatch"
<1>0. /\ DOMAIN pc = Request
      /\ \A s \in Request : after[s] # "mismatch"
  BY DEF TypeOK
<1>1. ASSUME NEW k \in Key, Upload(k) \/ Remove(k) PROVE pc[r] = "mismatch"
  BY <1>1 DEF Upload, Remove
<1>2. ASSUME NEW c \in Conn, ProcessCrash(c) PROVE pc[r] = "mismatch"
  BY <1>0, <1>2 DEF ProcessCrash
<1>3. ASSUME NEW s \in Request, Complete(s) PROVE pc[r] = "mismatch"
  <2>1. CASE HeadObject(s)
    BY <1>0, <2>1 DEF HeadObject, Goto
  <2>2. CASE StripExif(s) \/ StripFails(s)
    BY <1>0, <2>2 DEF StripExif, StripFails, Goto
  <2>3. CASE Scan(s) \/ ScanFails(s) \/ ListCandidates(s) \/ Compare(s)
    BY <1>0, <2>3 DEF Scan, ScanFails, ListCandidates, Compare, Goto
  <2>4. CASE CandidateUnreadable(s)
    BY <1>0, <2>4 DEF CandidateUnreadable
  <2>5. CASE WatchKeys(s) \/ ReadIndex(s) \/ Commit(s)
    BY <1>0, <2>5 DEF WatchKeys, ReadIndex, Commit, Goto
  <2>6. CASE Aborted(s) \/ Unwatch(s) \/ DeleteDuplicate(s)
    BY <1>0, <2>6 DEF Aborted, Unwatch, DeleteDuplicate, Goto
  <2>7. CASE GetObject(s) /\ s # r
    BY <1>0, <2>7 DEF GetObject, Goto
  <2>. QED
    BY <1>3, <2>1, <2>2, <2>3, <2>4, <2>5, <2>6, <2>7 DEF Complete
<1>4. CASE UNCHANGED vars
  BY <1>4 DEF vars
<1>. QED
  BY <1>1, <1>2, <1>3, <1>4 DEF Next

LEMMA MismatchStep == MismatchInv /\ [Next]_vars => MismatchInv'
<1>. SUFFICES ASSUME MismatchInv, [Next]_vars PROVE MismatchInv'
  OBVIOUS
<1>1. BytesInv /\ BytesInv' /\ RewriteHasAuthor' /\ TypeOK
  BY BytesStep, RewriteHasAuthorStep DEF MismatchInv, BytesInv
<1>2. ASSUME NEW r \in Request PROVE MismatchExplained(r)'
  <2>. SUFFICES ASSUME pc'[r] = "mismatch"
                PROVE  /\ uploaded'[KeyOf[r]] # Absent
                       /\ uploaded'[KeyOf[r]] # Declared[KeyOf[r]] \/ StrippedByOther(r)'
    BY DEF MismatchExplained
  <2>0. KeyOf[r] \in Key /\ DOMAIN pc = Request
    BY <1>1, UploadAssumption DEF TypeOK
  <2>1. CASE pc[r] = "mismatch"
    <3>1. /\ uploaded[KeyOf[r]] # Absent
          /\ uploaded[KeyOf[r]] # Declared[KeyOf[r]] \/ StrippedByOther(r)
      BY <2>1 DEF MismatchInv, MismatchExplained
    <3>2. uploaded'[KeyOf[r]] = uploaded[KeyOf[r]]
      BY <1>1, <2>0, <3>1, ObjectsKept DEF ObjectKept
    <3>3. Repeated(KeyOf[r]) => Repeated(KeyOf[r])'
      <4>1. CASE Next
        BY <1>1, <2>0, <4>1, RepeatedStable
      <4>2. CASE UNCHANGED vars
        BY <4>2 DEF vars, Repeated
      <4>. QED
        BY <4>1, <4>2
    <3>. QED
      BY <3>1, <3>2, <3>3 DEF StrippedByOther
  <2>2. CASE GetObject(r)
    <3>1. /\ pc[r] = "get" /\ UNCHANGED <<bucket, uploaded>>
          /\ bucket[KeyOf[r]] # Absent /\ bucket[KeyOf[r]] # Declared[KeyOf[r]]
          /\ pc' = [pc EXCEPT ![r] = "mismatch"]
      BY <2>0, <2>2 DEF GetObject, Goto, store
    <3>2. \/ bucket[KeyOf[r]] = uploaded[KeyOf[r]]
          \/ /\ uploaded[KeyOf[r]] = Declared[KeyOf[r]]
             /\ bucket[KeyOf[r]] = Strip[Declared[KeyOf[r]]]
      BY <1>1, <2>0, <3>1 DEF BytesInv, BucketTrue
    <3>3. CASE bucket[KeyOf[r]] = uploaded[KeyOf[r]]
      BY <3>1, <3>3
    <3>4. CASE /\ uploaded[KeyOf[r]] = Declared[KeyOf[r]]
               /\ bucket[KeyOf[r]] = Strip[Declared[KeyOf[r]]]
      <4>1. PICK s \in Request : KeyOf[s] = KeyOf[r] /\ PastCheck(s)
        BY <2>0, <3>1, <3>4 DEF MismatchInv, RewriteHasAuthor
      <4>2. s # r /\ pc'[s] # "idle" /\ pc'[r] # "idle"
        BY <2>0, <3>1, <4>1 DEF PastCheck
      <4>3. Repeated(KeyOf[r])'
        BY <4>1, <4>2 DEF Repeated
      <4>4. Declared[KeyOf[r]] # Absent
        BY <2>0, UploadAssumption
      <4>. QED
        BY <3>1, <3>4, <4>3, <4>4 DEF StrippedByOther
    <3>. QED
      BY <3>2, <3>3, <3>4
  <2>. QED
    BY <1>1, <2>1, <2>2, MismatchWriter
<1>. QED
  BY <1>1, <1>2 DEF MismatchInv

LEMMA MismatchHolds == Spec => []MismatchInv
<1>1. Init => MismatchInv
  BY UploadTypeInit
     DEF Init, MismatchInv, RewriteHasAuthor, MismatchExplained, BytesInv, BucketTrue, WorkTrue,
         RecordTrue, Done, PastStrip, Undecided
<1>. QED
  BY <1>1, MismatchStep, PTL DEF Spec

\* POST /api/uploads/complete refuses the file that was declared only where the
\* run uploads_retry shows it to: when the file carries EXIF data, and when a
\* completion of the same key went before, so that the object is stripped by the
\* time it is hashed.
THEOREM UploadMismatchExplained ==
  Spec => [](\A r \in Request : pc[r] = "mismatch" =>
               \/ uploaded[KeyOf[r]] # Declared[KeyOf[r]]
               \/ Strip[Declared[KeyOf[r]]] # Declared[KeyOf[r]] /\ Repeated(KeyOf[r]))
<1>1. MismatchInv => \A r \in Request : pc[r] = "mismatch" =>
        \/ uploaded[KeyOf[r]] # Declared[KeyOf[r]]
        \/ Strip[Declared[KeyOf[r]]] # Declared[KeyOf[r]] /\ Repeated(KeyOf[r])
  BY DEF MismatchInv, MismatchExplained, StrippedByOther
<1>. QED
  BY <1>1, MismatchHolds, PTL

\* So a client whose files have no EXIF data is never told of a mismatch that is
\* none, however often it asks and however its requests overlap.
THEOREM UploadMismatchMeansDamage ==
  ASSUME \A k \in Key : Strip[Declared[k]] = Declared[k]
  PROVE  Spec => []MismatchMeansDamage
<1>1. MismatchInv => MismatchMeansDamage
  BY UploadAssumption DEF MismatchInv, MismatchExplained, StrippedByOther, MismatchMeansDamage
<1>. QED
  BY <1>1, MismatchHolds, PTL
=============================================================================
