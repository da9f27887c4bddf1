-------------------------- MODULE UploadCompletion --------------------------
(***************************************************************************)
(* POST /api/uploads/complete: the object a client uploaded is checked     *)
(* against its declared checksum, stripped of EXIF data in place, scanned, *)
(* compared with the objects of the same hash, recorded in Redis, and      *)
(* deleted if an equal object is already there.  Requests interleave at    *)
(* every await, a key may be completed more than once (a client that got   *)
(* no answer tries again), API processes die, and workers, POST            *)
(* /api/cleanup and the lifecycle of the bucket remove objects.            *)
(*                                                                         *)
(* A definition whose name ends in Slip is a mutant of the one that        *)
(* follows it; the runs show which property notices.                       *)
(***************************************************************************)
EXTENDS Integers, Sequences

CONSTANTS
  Request,      \* completion requests
  Key,          \* object keys that /api/uploads/init handed out
  KeyOf,        \* KeyOf[r]: the key r completes
  Subject,      \* subjects
  SubjectOf,    \* SubjectOf[k]: the subject named in key k
  Content,      \* the bytes of an object; a hash stands for what it hashes
  Declared,     \* Declared[k]: the file whose checksum the client declares
  Strip,        \* Strip[b]: b as sharp writes it back, without EXIF data
  Unsupported,  \* contents that are too large or no supported image
  FailClosed,   \* config.malwareScanFailClosed
  Conn,         \* Redis connections: one for each API process
  ConnOf,       \* ConnOf[r]: the connection of the process that serves r
  MaxTries,     \* MAX_OPTIMISTIC_RETRIES
  MaxStorage,   \* bound: storage calls that fail
  MaxScans,     \* bound: scans that fail
  MaxCrashes,   \* bound: API processes that die
  MaxRemoved    \* bound: objects removed by others

\* No object.
Absent == "absent"

ASSUME UploadAssumption ==
  /\ Absent \notin Content
  /\ KeyOf \in [Request -> Key]
  /\ SubjectOf \in [Key -> Subject]
  /\ Declared \in [Key -> Content]
  /\ Strip \in [Content -> Content]
  /\ Unsupported \subseteq Content
  /\ FailClosed \in BOOLEAN
  /\ ConnOf \in [Request -> Conn]
  /\ MaxTries \in Nat \ {0}
  /\ {MaxStorage, MaxScans, MaxCrashes, MaxRemoved} \subseteq Nat

VARIABLES
  bucket,      \* bucket[k]: the object under k
  uploaded,    \* history: what the client uploaded under k
  removed,     \* history: keys whose object someone else removed
  index,       \* index[h]: the dedup records of hash h, as keys, in order
  completion,  \* completion[k]: the completion record of k
  watch,       \* watch[c]: the Redis keys c watches, and whether one changed
  crowded,     \* history: connections that two transactions used at once
  pc,          \* pc[r]: where r stands
  body,        \* body[r]: the bytes r works on
  left,        \* left[r]: candidates r has not compared yet
  canon,       \* canon[r]: canonicalObjectKey
  read,        \* read[r]: the dedup records r read under WATCH
  tries,       \* tries[r]: transactions of r that were aborted
  after,       \* after[r]: what r does once its UNWATCH is answered
  budget       \* how often each kind of trouble has struck

local == <<body, left, canon, read, tries, after>>
redis == <<index, completion, watch, crowded>>
store == <<bucket, uploaded, removed>>
vars  == <<bucket, uploaded, removed, index, completion, watch, crowded, pc, body, left,
           canon, read, tries, after, budget>>

Object == Content \cup {Absent}

NoCompletion == [canonical |-> Absent, sha |-> Absent]
Completion == [canonical : Key, sha : Content]

\* The Redis keys of a completion: its own record and the index of its hash.
RedisKey == ({"completion"} \X Key) \cup ({"dedup"} \X Content)
Keys(r)  == {<<"completion", KeyOf[r]>>, <<"dedup", body[r]>>}

Refused  == {"not found", "unsupported", "mismatch", "infected", "unavailable"}
Answered == Refused \cup {"accepted", "conflict", "crashed"}

Trouble == {"storage", "scan", "crash", "removal"}

Bound == [storage |-> MaxStorage, scan |-> MaxScans, crash |-> MaxCrashes,
          removal |-> MaxRemoved]

\* One more stroke of trouble t.
Strike(t) == budget[t] < Bound[t] /\ budget' = [budget EXCEPT ![t] = @ + 1]
-----------------------------------------------------------------------------
Init ==
  /\ bucket = [k \in Key |-> Absent]
  /\ uploaded = [k \in Key |-> Absent]
  /\ removed = {}
  /\ index = [h \in Content |-> <<>>]
  /\ completion = [k \in Key |-> NoCompletion]
  /\ watch = [c \in Conn |-> [keys |-> {}, dirty |-> FALSE]]
  /\ crowded = {}
  /\ pc = [r \in Request |-> "idle"]
  /\ body = [r \in Request |-> Declared[KeyOf[r]]]
  /\ left = [r \in Request |-> <<>>]
  /\ canon = KeyOf
  /\ read = [r \in Request |-> <<>>]
  /\ tries = [r \in Request |-> 0]
  /\ after = [r \in Request |-> "watch"]
  /\ budget = [t \in Trouble |-> 0]

Goto(r, label) == pc' = [pc EXCEPT ![r] = label]

\* The client posts a file to the presigned URL: the one it declares, or
\* another one if the file was damaged on the way.
Upload(k) ==
  /\ uploaded[k] = Absent
  /\ \E b \in Content :
       /\ bucket' = [bucket EXCEPT ![k] = b]
       /\ uploaded' = [uploaded EXCEPT ![k] = b]
  /\ UNCHANGED <<removed, redis, pc, local, budget>>

HeadObject(r) ==
  /\ pc[r] = "idle"
  /\ Goto(r, IF bucket[KeyOf[r]] = Absent THEN "not found" ELSE "get")
  /\ UNCHANGED <<store, redis, local, budget>>

\* What HEAD found is taken to be there still.
GetObjectUncheckedSlip(r) ==
  LET b == bucket[KeyOf[r]]
  IN  /\ pc[r] = "get"
      /\ Goto(r, IF b \in {Absent, Declared[KeyOf[r]]} THEN "strip" ELSE "mismatch")
      /\ body' = [body EXCEPT ![r] = b]
      /\ UNCHANGED <<store, redis, left, canon, read, tries, after, budget>>

\* The bytes must be a supported image with the declared checksum.
GetObject(r) ==
  LET b == bucket[KeyOf[r]]
  IN  /\ pc[r] = "get"
      /\ Goto(r, IF b = Absent THEN "not found"
                 ELSE IF b \in Unsupported THEN "unsupported"
                 ELSE IF b # Declared[KeyOf[r]] THEN "mismatch"
                 ELSE "strip")
      /\ body' = [body EXCEPT ![r] = IF b = Absent THEN @ ELSE b]
      /\ UNCHANGED <<store, redis, left, canon, read, tries, after, budget>>

\* The stripped bytes are recorded but not written back.
StripExifLazySlip(r) ==
  /\ pc[r] = "strip"
  /\ Goto(r, "scan")
  /\ body' = [body EXCEPT ![r] = Strip[@]]
  /\ UNCHANGED <<store, redis, left, canon, read, tries, after, budget>>

\* EXIF data is stripped from the object in place.
StripExif(r) ==
  LET stripped == Strip[body[r]]
  IN  /\ pc[r] = "strip"
      /\ Goto(r, "scan")
      /\ body' = [body EXCEPT ![r] = stripped]
      /\ bucket' = IF stripped = body[r] THEN bucket
                   ELSE [bucket EXCEPT ![KeyOf[r]] = stripped]
      /\ UNCHANGED <<uploaded, removed, redis, left, canon, read, tries, after, budget>>

\* sharp or the write throws, the write perhaps after it took effect: the
\* completion goes on with the bytes it has.
StripFails(r) ==
  /\ pc[r] = "strip"
  /\ Strike("storage")
  /\ Goto(r, "scan")
  /\ bucket' \in {bucket, [bucket EXCEPT ![KeyOf[r]] = Strip[body[r]]]}
  /\ UNCHANGED <<uploaded, removed, redis, local>>

\* The scanner finds the bytes clean or not.
Scan(r) ==
  /\ pc[r] = "scan"
  /\ \E verdict \in {"list", "infected"} : Goto(r, verdict)
  /\ UNCHANGED <<store, redis, local, budget>>

\* The scanner cannot be reached.
ScanFails(r) ==
  /\ pc[r] = "scan"
  /\ Strike("scan")
  /\ Goto(r, IF FailClosed THEN "unavailable" ELSE "list")
  /\ UNCHANGED <<store, redis, local>>
-----------------------------------------------------------------------------
(* Deduplication.                                                          *)

ListCandidates(r) ==
  /\ pc[r] = "list"
  /\ left' = [left EXCEPT ![r] = index[body[r]]]
  /\ Goto(r, "compare")
  /\ UNCHANGED <<store, redis, body, canon, read, tries, after, budget>>

\* A candidate of the same subject other than the object itself.
Eligible(r, k) == k # KeyOf[r] /\ SubjectOf[k] = SubjectOf[KeyOf[r]]

\* The first eligible candidate with the same bytes becomes the canonical
\* object.  One that is gone is passed over.
Compare(r) ==
  /\ pc[r] = "compare"
  /\ IF left[r] = <<>>
     THEN Goto(r, "watch") /\ UNCHANGED <<left, canon>>
     ELSE LET k == Head(left[r])
          IN  IF Eligible(r, k) /\ bucket[k] = body[r]
              THEN /\ canon' = [canon EXCEPT ![r] = k]
                   /\ Goto(r, "watch")
                   /\ UNCHANGED left
              ELSE /\ left' = [left EXCEPT ![r] = Tail(@)]
                   /\ UNCHANGED <<pc, canon>>
  /\ UNCHANGED <<store, redis, body, read, tries, after, budget>>

\* An error other than a missing object is passed over as well.
CandidateUnreadable(r) ==
  /\ pc[r] = "compare"
  /\ left[r] # <<>> /\ Eligible(r, Head(left[r]))
  /\ Strike("storage")
  /\ left' = [left EXCEPT ![r] = Tail(@)]
  /\ UNCHANGED <<store, redis, pc, body, canon, read, tries, after>>
-----------------------------------------------------------------------------
(* finalizeUploadCompletion, one Redis command a step.  What a connection  *)
(* watches is shared by the requests of its process.                       *)

Unwatched(w, c) == [w EXCEPT ![c] = [keys |-> {}, dirty |-> FALSE]]

Touched(w, keys) ==
  [c \in Conn |-> [w[c] EXCEPT !.dirty = @ \/ w[c].keys \cap keys # {}]]

\* Between its WATCH and its UNWATCH.
InTransaction(r) == pc[r] \in {"read", "exec", "unwatch"}

WatchKeys(r) ==
  /\ pc[r] = "watch"
  /\ Goto(r, "read")
  /\ crowded' = IF \E s \in Request : ConnOf[s] = ConnOf[r] /\ InTransaction(s)
                THEN crowded \cup {ConnOf[r]} ELSE crowded
  /\ watch' = [watch EXCEPT ![ConnOf[r]].keys = @ \cup Keys(r)]
  /\ UNCHANGED <<store, index, completion, local, budget>>

ReadIndex(r) ==
  /\ pc[r] = "read"
  /\ Goto(r, "exec")
  /\ read' = [read EXCEPT ![r] = index[body[r]]]
  /\ UNCHANGED <<store, redis, body, left, canon, tries, after, budget>>

Listed(records) == {records[i] : i \in 1..Len(records)}

\* The records to write: the canonical key is added unless it is there.
Extended(r) ==
  IF canon[r] \in Listed(read[r]) THEN read[r] ELSE Append(read[r], canon[r])

\* MULTI, two SETs and EXEC, whatever was watched.
CommitBlindSlip(r) ==
  /\ pc[r] = "exec"
  /\ index' = [index EXCEPT ![body[r]] = Extended(r)]
  /\ completion' = [completion EXCEPT ![KeyOf[r]] = [canonical |-> canon[r], sha |-> body[r]]]
  /\ watch' = Touched(Unwatched(watch, ConnOf[r]), Keys(r))
  /\ after' = [after EXCEPT ![r] = IF canon[r] = KeyOf[r] THEN "accepted" ELSE "delete"]
  /\ Goto(r, "unwatch")
  /\ UNCHANGED <<store, crowded, body, left, canon, read, tries, budget>>

\* MULTI, two SETs and EXEC over an index no other connection has changed.
Commit(r) ==
  /\ pc[r] = "exec"
  /\ ~watch[ConnOf[r]].dirty
  /\ index' = [index EXCEPT ![body[r]] = Extended(r)]
  /\ completion' = [completion EXCEPT ![KeyOf[r]] = [canonical |-> canon[r], sha |-> body[r]]]
  /\ watch' = Touched(Unwatched(watch, ConnOf[r]), Keys(r))
  /\ after' = [after EXCEPT ![r] = IF canon[r] = KeyOf[r] THEN "accepted" ELSE "delete"]
  /\ Goto(r, "unwatch")
  /\ UNCHANGED <<store, crowded, body, left, canon, read, tries, budget>>

Aborted(r) ==
  /\ pc[r] = "exec"
  /\ watch[ConnOf[r]].dirty
  /\ watch' = Unwatched(watch, ConnOf[r])
  /\ tries' = [tries EXCEPT ![r] = @ + 1]
  /\ after' = [after EXCEPT ![r] = IF tries[r] + 1 = MaxTries THEN "conflict" ELSE "watch"]
  /\ Goto(r, "unwatch")
  /\ UNCHANGED <<store, index, completion, crowded, body, left, canon, read, budget>>

\* finally: UNWATCH.
Unwatch(r) ==
  /\ pc[r] = "unwatch"
  /\ watch' = Unwatched(watch, ConnOf[r])
  /\ Goto(r, after[r])
  /\ UNCHANGED <<store, index, completion, crowded, local, budget>>

\* The other one of the two equal objects is deleted.
DeleteCanonicalSlip(r) ==
  /\ pc[r] = "delete"
  /\ bucket' = [bucket EXCEPT ![canon[r]] = Absent]
  /\ Goto(r, "accepted")
  /\ UNCHANGED <<uploaded, removed, redis, local, budget>>

\* The object of a deduplicated upload is not needed any more.
DeleteDuplicate(r) ==
  /\ pc[r] = "delete"
  /\ bucket' = [bucket EXCEPT ![KeyOf[r]] = Absent]
  /\ Goto(r, "accepted")
  /\ UNCHANGED <<uploaded, removed, redis, local, budget>>
-----------------------------------------------------------------------------
\* An API process dies, and its connection with it.
ProcessCrash(c) ==
  /\ Strike("crash")
  /\ \E r \in Request : ConnOf[r] = c /\ pc[r] \notin Answered \cup {"idle"}
  /\ pc' = [r \in Request |-> IF ConnOf[r] = c /\ pc[r] \notin Answered \cup {"idle"}
                              THEN "crashed" ELSE pc[r]]
  /\ watch' = Unwatched(watch, c)
  /\ UNCHANGED <<store, index, completion, crowded, local>>

\* A worker that is done with the object, POST /api/cleanup or the lifecycle of
\* the bucket removes it.
Remove(k) ==
  /\ bucket[k] # Absent
  /\ Strike("removal")
  /\ bucket' = [bucket EXCEPT ![k] = Absent]
  /\ removed' = removed \cup {k}
  /\ UNCHANGED <<uploaded, redis, pc, local>>
-----------------------------------------------------------------------------
Complete(r) ==
  \/ HeadObject(r) \/ GetObject(r)
  \/ StripExif(r) \/ StripFails(r)
  \/ Scan(r) \/ ScanFails(r)
  \/ ListCandidates(r) \/ Compare(r) \/ CandidateUnreadable(r)
  \/ WatchKeys(r) \/ ReadIndex(r) \/ Commit(r) \/ Aborted(r) \/ Unwatch(r)
  \/ DeleteDuplicate(r)

Next ==
  \/ \E k \in Key : Upload(k) \/ Remove(k)
  \/ \E r \in Request : Complete(r)
  \/ \E c \in Conn : ProcessCrash(c)

Spec == Init /\ [][Next]_vars
-----------------------------------------------------------------------------
(* Properties.                                                             *)

\* Every variable stays in its type.
TypeOK ==
  /\ bucket \in [Key -> Object]
  /\ uploaded \in [Key -> Object]
  /\ removed \subseteq Key
  /\ index \in [Content -> Seq(Key)]
  /\ completion \in [Key -> Completion \cup {NoCompletion}]
  /\ watch \in [Conn -> [keys : SUBSET RedisKey, dirty : BOOLEAN]]
  /\ crowded \subseteq Conn
  /\ pc \in [Request -> Answered \cup {"idle", "get", "strip", "scan", "list", "compare",
                                       "watch", "read", "exec", "unwatch", "delete"}]
  /\ body \in [Request -> Content]
  /\ left \in [Request -> Seq(Key)]
  /\ canon \in [Request -> Key]
  /\ read \in [Request -> Seq(Key)]
  /\ tries \in [Request -> Nat]
  /\ after \in [Request -> {"watch", "accepted", "delete", "conflict"}]
  /\ budget \in [Trouble -> Nat]

\* Two requests to complete k got beyond their first check.
Repeated(k) ==
  \E r, s \in Request : r # s /\ KeyOf[r] = k /\ KeyOf[s] = k /\ pc[r] # "idle" /\ pc[s] # "idle"

Done(k) == completion[k] # NoCompletion

\* The canonical object an upload was pointed at is there, unless someone else
\* removed it or its own upload was completed again: deduplication by itself
\* never deletes the last copy.
AcceptedHasObject ==
  \A k \in Key : Done(k) =>
    LET c == completion[k].canonical
    IN  bucket[c] # Absent \/ c \in removed \/ Repeated(c)

\* The canonical object has the bytes that were hashed and scanned, or these
\* without EXIF data, whoever rewrote it since.
RecordedBytesStored ==
  \A k \in Key : Done(k) =>
    LET h == completion[k].sha
    IN  bucket[completion[k].canonical] \in {h, Strip[h], Absent}

\* A completed upload can be found by its hash: no concurrent completion overwrites
\* its entry in the index, unless a completion of that hash was served on a connection
\* that two transactions used at once (job-repo.ts:437).
IndexedUnlessCrowded ==
  \A k \in Key : Done(k) =>
    \/ completion[k].canonical \in Listed(index[completion[k].sha])
    \/ \E r \in Request : body[r] = completion[k].sha /\ ConnOf[r] \in crowded

\* A client is told that its file does not match the declared checksum only if
\* it does not.
MismatchMeansDamage ==
  \A r \in Request : pc[r] = "mismatch" => uploaded[KeyOf[r]] # Declared[KeyOf[r]]
=============================================================================
