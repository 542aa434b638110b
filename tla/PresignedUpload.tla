----------------------------- MODULE PresignedUpload -----------------------------
(* The posts application: the server hands out presigned uploads, clients store   *)
(* objects in MinIO directly, and rows in PostgreSQL refer to the objects.  No    *)
(* transaction spans the two stores.  An object key is a fresh UUID and a post id *)
(* a fresh SERIAL: both are named here by the request that obtained them.         *)
EXTENDS Integers

CONSTANTS Requests,     \* calls of the API, and submits of the form in the page
          Files,        \* contents a client may upload, with their content type
          Size,         \* how many bytes each of them has
          Videos,       \* those MinIO keeps with a content type that begins with video/
          MaxBytes,     \* maxUploadBytes, of MAX_UPLOAD_MB: the server takes any number
          PageBytes,    \* the largest file the form of the page sends
          None,         \* no file, no key, no row
          Expiry,       \* how long a presigned upload is valid, in ticks
          Calls,        \* which operations occur: a subset of AllCalls
          PageHasKey,   \* API_KEY in app.js is the server's (as committed: it is not)
          Faults        \* what may go wrong: a subset of FaultKinds

AllCalls == {"submit",                                      \* the form of the page
             "init", "upload", "create", "delete", "view"}  \* single calls

FaultKinds == {"minio",   \* MinIO fails, or the connection to it is lost
               "db",      \* PostgreSQL fails, or its answer is lost
               "crash"}   \* the server process dies and is started again

\* What CreatePostFromKey makes of what StatObject tells of an object: its size, and
\* "image" for every content type but those of videos.
Described == [f \in Files |-> [size |-> Size[f],
                              type |-> IF f \in Videos THEN "video" ELSE "image"]]

Descriptions == {Described[f] : f \in Files}

ASSUME FilesAssumption == Size \in [Files -> Nat] /\ Videos \subseteq Files
ASSUME BytesAssumption == MaxBytes \in Int /\ PageBytes \in Nat
ASSUME NoneAssumption == None \notin Files \union Requests \union Descriptions
ASSUME ExpiryAssumption == Expiry \in Nat \ {0}
ASSUME CallsAssumption == Calls \subseteq AllCalls
ASSUME PageAssumption == PageHasKey \in BOOLEAN
ASSUME FaultsAssumption == Faults \subseteq FaultKinds

VARIABLES
  pc,       \* pc[r]: the next step of request r
  op,       \* op[r]: which operation r is
  key,      \* key[r]: the object key r works with, or has been shown
  file,     \* file[r]: the file r uploads
  info,     \* info[r]: what r was told of an object, by MinIO or by a row
  post,     \* post[r]: the row r reads or deletes
  code,     \* code[r]: the last HTTP status r got, 0 while there is none
  grant,    \* grant[k]: how k may be uploaded, "none" when it was never presigned
  left,     \* left[k]: ticks for which that is still valid
  object,   \* MinIO: the file stored under k
  rowKey,   \* PostgreSQL: object_key of row i, None when there is no such row
  rowInfo,  \* PostgreSQL: size_bytes and media_type of row i
  removed   \* history: delete r has sent its removal to MinIO

request == <<pc, op, key, file, info, post, code>>
minio   == <<grant, left, object>>
db      == <<rowKey, rowInfo>>
vars    == <<request, minio, db, removed>>

-----------------------------------------------------------------------------------
OnServer == {"init", "stat", "insert", "read", "lookup", "remove", "drop"}
Working  == OnServer \union {"upload", "uploading"}

TypeOK == /\ pc \in [Requests -> Working \union {"idle", "done", "lost"}]
          /\ op \in [Requests -> AllCalls \union {"none"}]
          /\ key \in [Requests -> Requests \union {None}]
          /\ file \in [Requests -> Files \union {None}]
          /\ info \in [Requests -> Descriptions \union {None}]
          /\ post \in [Requests -> Requests \union {None}]
          /\ code \in [Requests -> {0, 200, 201, 204, 400, 401, 403, 404, 500}]
          /\ grant \in [Requests -> {"none", "post", "put"}]
          /\ left \in [Requests -> 0..Expiry]
          /\ object \in [Requests -> Files \union {None}]
          /\ rowKey \in [Requests -> Requests \union {None}]
          /\ rowInfo \in [Requests -> Descriptions \union {None}]
          /\ removed \in [Requests -> BOOLEAN]

Init == /\ pc = [r \in Requests |-> "idle"]
        /\ op = [r \in Requests |-> "none"]
        /\ key = [r \in Requests |-> None]
        /\ file = [r \in Requests |-> None]
        /\ info = [r \in Requests |-> None]
        /\ post = [r \in Requests |-> None]
        /\ code = [r \in Requests |-> 0]
        /\ grant = [r \in Requests |-> "none"]
        /\ left = [r \in Requests |-> 0]
        /\ object = [r \in Requests |-> None]
        /\ rowKey = [r \in Requests |-> None]
        /\ rowInfo = [r \in Requests |-> None]
        /\ removed = [r \in Requests |-> FALSE]

Set(f, x, v) == [f EXCEPT ![x] = v]

Goto(r, where) == pc' = Set(pc, r, where)

\* A call returns status c: a single call is over, the form of the page goes on to
\* its next step when there is one and the status is a success.
Answer(r, c, next) ==
  /\ code' = Set(code, r, c)
  /\ Goto(r, IF op[r] = "submit" /\ c < 300 THEN next ELSE "done")

-----------------------------------------------------------------------------------
(* Calls arrive.                                                                  *)

\* The form is submitted with a file the page does not find too large.
Submit(r, f) == /\ Size[f] <= PageBytes
                /\ Goto(r, "init")
                /\ file' = Set(file, r, f)
                /\ UNCHANGED <<key, post>>

Init1(r) == /\ Goto(r, "init")
            /\ UNCHANGED <<key, file, post>>

\* A client uploads any file with a presigned upload it was given.
Upload1(r, k, f) == /\ grant[k] # "none"
                    /\ Goto(r, "upload")
                    /\ key' = Set(key, r, k)
                    /\ file' = Set(file, r, f)
                    /\ UNCHANGED post

\* A client asks for a post with a key it knows, uploaded or not.
Create1(r, k) == /\ grant[k] # "none"
                 /\ Goto(r, "stat")
                 /\ key' = Set(key, r, k)
                 /\ UNCHANGED <<file, post>>

Delete1(r, i) == /\ Goto(r, "lookup")
                 /\ post' = Set(post, r, i)
                 /\ UNCHANGED <<key, file>>

View1(r, i) == /\ Goto(r, "read")
               /\ post' = Set(post, r, i)
               /\ UNCHANGED <<key, file>>

Arrive(r) == /\ pc[r] = "idle"
             /\ \E o \in Calls :
                  /\ op' = Set(op, r, o)
                  /\ \/ o = "submit" /\ \E f \in Files : Submit(r, f)
                     \/ o = "init"   /\ Init1(r)
                     \/ o = "upload" /\ \E k \in Requests, f \in Files : Upload1(r, k, f)
                     \/ o = "create" /\ \E k \in Requests : Create1(r, k)
                     \/ o = "delete" /\ \E i \in Requests : Delete1(r, i)
                     \/ o = "view"   /\ \E i \in Requests : View1(r, i)
             /\ UNCHANGED <<info, code, minio, db, removed>>

-----------------------------------------------------------------------------------
(* The server.                                                                    *)

\* AuthMiddleware: the page sends its own API_KEY, other clients know the key.
Authorized(r) == op[r] # "submit" \/ PageHasKey

\* The first step of a call is refused when it carries no valid key; reads need none.
Unauthorized(r) == /\ pc[r] \in {"init", "stat", "lookup"}
                   /\ ~Authorized(r)
                   /\ Answer(r, 401, "done")
                   /\ UNCHANGED <<op, key, file, info, post, minio, db, removed>>

\* Mutant: the key is the name of the file, without the UUID.
InitUploadByName(r) == /\ pc[r] = "init"
                       /\ Authorized(r)
                       /\ \E k \in Requests :
                            /\ \E method \in {"post", "put"} : grant' = Set(grant, k, method)
                            /\ left' = Set(left, k, Expiry)
                            /\ key' = Set(key, r, k)
                       /\ Answer(r, 200, "upload")
                       /\ UNCHANGED <<op, file, info, post, object, db, removed>>

\* Mutant: the upload is valid longer than it says.
InitUploadLonger(r) == /\ pc[r] = "init"
                       /\ Authorized(r)
                       /\ \E method \in {"post", "put"} : grant' = Set(grant, r, method)
                       /\ left' = Set(left, r, Expiry + 1)
                       /\ key' = Set(key, r, r)
                       /\ Answer(r, 200, "upload")
                       /\ UNCHANGED <<op, file, info, post, object, db, removed>>

\* InitUpload: an unknown method means "post", so those two are all there is.
InitUpload(r) == /\ pc[r] = "init"
                 /\ Authorized(r)
                 /\ \E method \in {"post", "put"} : grant' = Set(grant, r, method)
                 /\ left' = Set(left, r, Expiry)
                 /\ key' = Set(key, r, r)
                 /\ Answer(r, 200, "upload")
                 /\ UNCHANGED <<op, file, info, post, object, db, removed>>

\* Presigning needs MinIO once, for the region of the bucket.
InitFails(r) == /\ "minio" \in Faults
                /\ pc[r] = "init"
                /\ Authorized(r)
                /\ Answer(r, 500, "done")
                /\ UNCHANGED <<op, key, file, info, post, minio, db, removed>>

\* Mutant: the post is created also when there is no object.
StatUnchecked(r) == /\ pc[r] = "stat"
                    /\ Authorized(r)
                    /\ \E d \in Descriptions : info' = Set(info, r, d)
                    /\ Goto(r, "insert")
                    /\ UNCHANGED <<op, key, file, post, code, minio, db, removed>>

\* CreatePostFromKey, step 1: StatObject.
Stat(r) == /\ pc[r] = "stat"
           /\ Authorized(r)
           /\ IF object[key[r]] # None
              THEN /\ info' = Set(info, r, Described[object[key[r]]])
                   /\ Goto(r, "insert")
                   /\ UNCHANGED code
              ELSE Answer(r, 400, "done") /\ UNCHANGED info
           /\ UNCHANGED <<op, key, file, post, minio, db, removed>>

StatFails(r) == /\ "minio" \in Faults
                /\ pc[r] = "stat"
                /\ Authorized(r)
                /\ Answer(r, 400, "done")
                /\ UNCHANGED <<op, key, file, info, post, minio, db, removed>>

SqlInsert(r) == /\ rowKey' = Set(rowKey, r, key[r])
                /\ rowInfo' = Set(rowInfo, r, info[r])

\* Mutant: the insertion is never committed.
InsertUncommitted(r) == /\ pc[r] = "insert"
                        /\ Answer(r, 201, "done")
                        /\ UNCHANGED <<op, key, file, info, post, minio, db, removed>>

\* Step 2: the row is inserted with what StatObject described.
Insert(r) == /\ pc[r] = "insert"
             /\ SqlInsert(r)
             /\ Answer(r, 201, "done")
             /\ UNCHANGED <<op, key, file, info, post, minio, removed>>

\* Mutant: the object is removed when the row could not be inserted.
InsertFailsCleanup(r) == /\ "db" \in Faults
                         /\ pc[r] = "insert"
                         /\ SqlInsert(r) \/ UNCHANGED db
                         /\ object' = Set(object, key[r], None)
                         /\ Answer(r, 500, "done")
                         /\ UNCHANGED <<op, key, file, info, post, grant, left, removed>>

InsertFails(r) == /\ "db" \in Faults
                  /\ pc[r] = "insert"
                  /\ SqlInsert(r) \/ UNCHANGED db
                  /\ Answer(r, 500, "done")
                  /\ UNCHANGED <<op, key, file, info, post, minio, removed>>

\* ListPosts, with regard to one of the posts, and GetPost.  A list without the post
\* is a success, also when the rows stop coming: nobody asks rows.Err().
Read(r) == /\ pc[r] = "read"
           /\ IF rowKey[post[r]] # None
              THEN /\ key' = Set(key, r, rowKey[post[r]])
                   /\ info' = Set(info, r, rowInfo[post[r]])
                   /\ Answer(r, 200, "done")
              ELSE /\ \E c \in {200, 404} : Answer(r, c, "done")
                   /\ UNCHANGED <<key, info>>
           /\ UNCHANGED <<op, file, post, minio, db, removed>>

ReadFails(r) == /\ "db" \in Faults
                /\ pc[r] = "read"
                /\ \E c \in {200, 500} : Answer(r, c, "done")
                /\ UNCHANGED <<op, key, file, info, post, minio, db, removed>>

\* Mutant: the row is deleted before the object.
LookupThenDrop(r) == /\ pc[r] = "lookup"
                     /\ IF rowKey[post[r]] # None
                        THEN /\ key' = Set(key, r, rowKey[post[r]])
                             /\ Goto(r, "drop")
                             /\ UNCHANGED code
                        ELSE Answer(r, 404, "done") /\ UNCHANGED key
                     /\ UNCHANGED <<op, file, info, post, minio, db, removed>>

\* DeletePost, step 1: the key of the row.
Lookup(r) == /\ pc[r] = "lookup"
             /\ IF rowKey[post[r]] # None
                THEN /\ key' = Set(key, r, rowKey[post[r]])
                     /\ Goto(r, "remove")
                     /\ UNCHANGED code
                ELSE Answer(r, 404, "done") /\ UNCHANGED key
             /\ UNCHANGED <<op, file, info, post, minio, db, removed>>

LookupFails(r) == /\ "db" \in Faults
                  /\ pc[r] = "lookup"
                  /\ Answer(r, 500, "done")
                  /\ UNCHANGED <<op, key, file, info, post, minio, db, removed>>

\* Step 2: the object is removed; an error is ignored ("best-effort").
Remove(r) == /\ pc[r] = "remove"
             /\ object' = Set(object, key[r], None)
             /\ removed' = Set(removed, r, TRUE)
             /\ Goto(r, "drop")
             /\ UNCHANGED <<op, key, file, info, post, code, grant, left, db>>

RemoveFails(r) == /\ "minio" \in Faults
                  /\ pc[r] = "remove"
                  /\ object' = Set(object, key[r], None) \/ UNCHANGED object
                  /\ removed' = Set(removed, r, TRUE)
                  /\ Goto(r, "drop")
                  /\ UNCHANGED <<op, key, file, info, post, code, grant, left, db>>

SqlDelete(i) == /\ rowKey' = Set(rowKey, i, None)
                /\ rowInfo' = Set(rowInfo, i, None)

\* Step 3: the row is deleted, if it is still there.
Drop(r) == /\ pc[r] = "drop"
           /\ SqlDelete(post[r])
           /\ Answer(r, 204, "done")
           /\ UNCHANGED <<op, key, file, info, post, minio, removed>>

DropFails(r) == /\ "db" \in Faults
                /\ pc[r] = "drop"
                /\ SqlDelete(post[r]) \/ UNCHANGED db
                /\ Answer(r, 500, "done")
                /\ UNCHANGED <<op, key, file, info, post, minio, removed>>

\* The server dies with the calls inside it.  Uploads go to MinIO and go on; a form
\* whose upload is still running will find the server again.
Crash == /\ "crash" \in Faults
         /\ \E r \in Requests : pc[r] \in OnServer
         /\ pc' = [r \in Requests |-> IF pc[r] \in OnServer THEN "lost" ELSE pc[r]]
         /\ UNCHANGED <<op, key, file, info, post, code, minio, db, removed>>

-----------------------------------------------------------------------------------
(* MinIO and its clients.                                                         *)

\* Mutant: the policy has no content length range.
AcceptsAny(k, f) == left[k] > 0

\* SetContentLengthRange refuses a range that is empty, and its error is dropped: a
\* limit below one byte leaves the policy without a range.
Ranged == 1 <= MaxBytes

\* What MinIO takes: a POST within the range of its policy, a PUT of any size.
Accepts(k, f) == /\ left[k] > 0
                 /\ grant[k] = "post" /\ Ranged => Size[f] \in 1..MaxBytes

UploadBegins(r) == /\ pc[r] = "upload"
                   /\ Accepts(key[r], file[r])
                   /\ Goto(r, "uploading")
                   /\ UNCHANGED <<op, key, file, info, post, code, minio, db, removed>>

UploadRefused(r) == /\ pc[r] = "upload"
                    /\ ~Accepts(key[r], file[r])
                    /\ Answer(r, 403, "done")
                    /\ UNCHANGED <<op, key, file, info, post, minio, db, removed>>

\* The object becomes visible, replacing an earlier one, when it is complete.
UploadEnds(r) == /\ pc[r] = "uploading"
                 /\ object' = Set(object, key[r], file[r])
                 /\ Answer(r, 200, "stat")
                 /\ UNCHANGED <<op, key, file, info, post, grant, left, db, removed>>

\* The upload breaks off, or its answer is lost.
UploadFails(r) == /\ "minio" \in Faults
                  /\ pc[r] = "uploading"
                  /\ object' = Set(object, key[r], file[r]) \/ UNCHANGED object
                  /\ Answer(r, 500, "done")
                  /\ UNCHANGED <<op, key, file, info, post, grant, left, db, removed>>

\* Time passes for the presigned uploads.
Tick == /\ \E k \in Requests : left[k] > 0
        /\ left' = [k \in Requests |-> IF left[k] > 0 THEN left[k] - 1 ELSE 0]
        /\ UNCHANGED <<request, grant, object, db, removed>>

\* All calls are answered: the server waits.
Idle == /\ \A r \in Requests : pc[r] \in {"idle", "done", "lost"}
        /\ UNCHANGED vars

Next == \/ \E r \in Requests :
             \/ Arrive(r) \/ Unauthorized(r)
             \/ InitUpload(r) \/ InitFails(r)
             \/ Stat(r) \/ StatFails(r) \/ Insert(r) \/ InsertFails(r)
             \/ Read(r) \/ ReadFails(r) \/ Lookup(r) \/ LookupFails(r) \/ Remove(r) \/ RemoveFails(r)
             \/ Drop(r) \/ DropFails(r)
             \/ UploadBegins(r) \/ UploadRefused(r) \/ UploadEnds(r) \/ UploadFails(r)
        \/ Crash \/ Tick \/ Idle

Spec == Init /\ [][Next]_vars

-----------------------------------------------------------------------------------
(* Properties.                                                                    *)

Rows == {i \in Requests : rowKey[i] # None}

\* Who has been shown a post, and may follow its URL at any later time.
Viewers == {r \in Requests : op[r] = "view" /\ key[r] # None}

\* An object that was seen by CreatePostFromKey, whoever calls what in which order
\* and whatever fails, is missing later only because a DeletePost removed the same
\* key: uploads never lose an object, and no post is created without one.
DanglingNeedsRemoval ==
  \A i \in Rows : object[rowKey[i]] = None =>
    \E r \in Requests : op[r] = "delete" /\ key[r] = rowKey[i] /\ removed[r]

\* With a limit of at least one byte (MAX_UPLOAD_MB), a post made from a key that was
\* presigned for POST records a size of at least one byte and at most the limit, also
\* when the key is uploaded again while it is valid.
PolicyEnforced ==
  Ranged => \A i \in Rows :
              grant[rowKey[i]] = "post" => rowInfo[i].size \in 1..MaxBytes

\* When all keys come from the form of the page, and whatever fails, the object of a
\* post that exists, or was ever shown to somebody, is missing only when a deletion
\* of that post has sent the removal: the order of DeletePost loses no object of a
\* post nobody deletes.
DanglingOnlyByDelete ==
  LET Deleted(i) == \E d \in Requests : op[d] = "delete" /\ post[d] = i /\ removed[d]
  IN  /\ \A i \in Rows : object[rowKey[i]] = None => Deleted(i)
      /\ \A r \in Viewers : object[key[r]] = None => Deleted(post[r])

\* Under the same conditions the size that a post shows, or has shown, is that of the
\* object found under its URL, and it shows a video exactly when the content type of
\* that object is one: CreatePostFromKey records what StatObject told, and nothing
\* else is stored under the key before or after.
MetadataMatches ==
  LET Matches(k, d) == object[k] = None \/ d = Described[object[k]]
  IN  /\ \A i \in Rows : Matches(rowKey[i], rowInfo[i])
      /\ \A r \in Viewers : Matches(key[r], info[r])

\* Under the same conditions an object to which no post refers is one whose form is
\* about to create the post, or one on whose key some call has failed, died with
\* the server, or tried a removal: calls that succeed leave nothing behind.
OrphanNeedsFailure ==
  \A k \in Requests : object[k] # None =>
    \/ \E i \in Rows : rowKey[i] = k
    \/ \E r \in Requests : /\ key[r] = k
                           /\ \/ pc[r] \in {"stat", "insert", "lost"}
                              \/ code[r] >= 400
                              \/ removed[r]

\* What the users of the page can tell of the life of a post: how far it has come, and
\* what a request was told.  A list without the post (200) tells nothing.
Removing(i) == \E d \in Requests : op[d] = "delete" /\ post[d] = i /\ removed[d]
LookedUp(i) == \E d \in Requests : op[d] = "delete" /\ key[d] = i

stage == [i \in Requests |-> IF Removing(i) THEN "removing"
                             ELSE IF rowKey[i] # None \/ LookedUp(i) THEN "posted"
                             ELSE IF object[i] # None THEN "stored" ELSE "new"]

told == [r \in Requests |-> IF op[r] = "view" /\ key[r] # None THEN <<"shown", info[r]>>
                            ELSE IF code[r] = 201 THEN <<"posted">>
                            ELSE IF code[r] = 204 THEN <<"deleted">>
                            ELSE IF code[r] = 404 THEN <<"missing">> ELSE <<>>]

PS == INSTANCE PostStore WITH Posts <- Requests, media <- object, row <- rowInfo, result <- told

\* When all keys come from the form of the page, and whatever fails, every post lives
\* one life: stored once, created once for what is stored, removed before it is
\* dropped and only when it existed, and told of as it was at one moment.
ImplementsPostStore == PS!PSpec
==================================================================================
