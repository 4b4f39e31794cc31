---------------------------- MODULE AssetImages -----------------------------
(***************************************************************************)
(* Images of catalog models (app/pats/assets.ts): an Asset row is created, *)
(* a client uploads bytes to the bucket with a signed URL, a finalize      *)
(* checks them and links them to the model, a delete unlinks them.         *)
(*                                                                         *)
(* Three parties touch the same asset with nothing to hold them together:  *)
(* the rows in PostgreSQL, the objects in the bucket, the client with its  *)
(* URL.  Handlers read the asset first (XLoad), compare its status and the *)
(* If-Match version, and later write it by id; an update of a row waits    *)
(* for the transaction that has it locked.  A client that passes a stale   *)
(* version is refused and changes nothing, so versions are left out.  The  *)
(* idempotency of the create is in CatalogIdempotency.                     *)
(***************************************************************************)
EXTENDS FiniteSets

CONSTANTS
    Workers,   \* requests the server may be working on at one time
    Assets,    \* ids of assets; also the key of the asset's object
    Models,    \* catalog models; also the key of the image it was seeded with
    NoImage    \* the link of a model without imageObjectKey

ASSUME AssetAssumption ==
    Assets \cap Models = {} /\ NoImage \notin Assets \cup Models

VARIABLES
    asset,     \* the Asset rows
    link,      \* link[m]: sourceReference.imageObjectKey of model m
    bucket,    \* bucket[k]: the object stored under key k
    urls,      \* assets somebody holds an unexpired upload URL for
    job,       \* job[w]: the request worker w is working on
    lapped,    \* two requests have overlapped (history)
    retained   \* assets whose bytes a DELETE promised to keep (history)

vars == <<asset, link, bucket, urls, job, lapped, retained>>

Keys == Assets \cup Models

NoRow == [status |-> "NONE"]
AssetRow ==
    [status: {"REQUESTED", "UPLOAD_REQUESTED", "AVAILABLE", "QUARANTINED",
              "RETIRED"},
     model: Models]

(* Bytes of the declared size, type and checksum, or others.               *)
Bytes == {"declared", "other"}

Idle == [pc |-> "idle"]
Job ==
    {Idle}
    \cup [pc: {"upload", "finalize", "verified", "mismatch", "delete"},
          asset: Assets]
    \cup [pc: {"linking"}, asset: Assets, previous: Keys \cup {NoImage}]
    \cup [pc: {"retiring"}, asset: Assets, previous: Keys \cup {NoImage},
          superseded: SUBSET Assets]
    \cup [pc: {"cleaning"}, asset: Assets, keys: SUBSET Keys]
    \cup [pc: {"unlinking"}, asset: Assets, linked: BOOLEAN]

TypeOK ==
    /\ asset \in [Assets -> {NoRow} \cup AssetRow]
    /\ link \in [Models -> Keys \cup {NoImage}]
    /\ bucket \in [Keys -> Bytes \cup {"none"}]
    /\ urls \in SUBSET Assets
    /\ job \in [Workers -> Job]
    /\ lapped \in BOOLEAN
    /\ retained \in SUBSET Assets

(* readAsset: retired rows are not found. *)
Found(a) == asset[a].status \notin {"NONE", "RETIRED"}
Open(a) == asset[a].status \in {"REQUESTED", "UPLOAD_REQUESTED"}
(* Mutation: the search for superseded images does not look at the status. *)
AssetsOf(m) == {a \in Assets : asset[a] # NoRow /\ asset[a].model = m}
AvailableFor(m) ==
    {a \in Assets : asset[a].status = "AVAILABLE" /\ asset[a].model = m}
SetStatus(a, status) == asset' = [asset EXCEPT ![a].status = status]

(* Rows written by transactions that have not ended: a finalize and a      *)
(* delete begin with the asset, a finalize goes on to the model.           *)
Locked(a) ==
    \E w \in Workers :
      job[w].pc \in {"linking", "retiring", "unlinking"} /\ job[w].asset = a
ModelOf(w) == asset[job[w].asset].model
ModelLocked(m) == \E w \in Workers : job[w].pc = "retiring" /\ ModelOf(w) = m

Begin(w, request) ==
    /\ job[w] = Idle
    /\ job' = [job EXCEPT ![w] = request]
    /\ lapped' = (lapped \/ \E v \in Workers : job[v] # Idle)
Continue(w, request) ==
    job' = [job EXCEPT ![w] = request] /\ UNCHANGED lapped
Finish(w) == Continue(w, Idle)

(* Some models come with a seeded image, which no Asset row describes.     *)
Init ==
    /\ asset = [a \in Assets |-> NoRow]
    /\ link \in {f \in [Models -> Models \cup {NoImage}] :
                   \A m \in Models : f[m] \in {m, NoImage}}
    /\ bucket = [k \in Keys |->
                   IF k \in Models /\ link[k] = k THEN "declared" ELSE "none"]
    /\ urls = {}
    /\ job = [w \in Workers |-> Idle]
    /\ lapped = FALSE
    /\ retained = {}
-----------------------------------------------------------------------------
(* POST /assets *)
Create(a, m) ==
    /\ asset[a] = NoRow
    /\ asset' = [asset EXCEPT ![a] = [status |-> "REQUESTED", model |-> m]]
    /\ UNCHANGED <<link, bucket, urls, job, lapped, retained>>

(* POST /assets/:assetId/upload-requests: the URL is signed first, the row *)
(* is updated by id, and only then the client gets the URL.                *)
UploadLoad(w, a) ==
    /\ Open(a)
    /\ Begin(w, [pc |-> "upload", asset |-> a])
    /\ UNCHANGED <<asset, link, bucket, urls, retained>>

UploadCommit(w) ==
    /\ job[w].pc = "upload" /\ ~Locked(job[w].asset)
    /\ SetStatus(job[w].asset, "UPLOAD_REQUESTED")
    /\ urls' = urls \cup {job[w].asset}
    /\ Finish(w)
    /\ UNCHANGED <<link, bucket, retained>>

(* The client stores bytes, as often as it likes while its URL is valid.   *)
Put(a, bytes) ==
    /\ a \in urls
    /\ bucket' = [bucket EXCEPT ![a] = bytes]
    /\ UNCHANGED <<asset, link, urls, job, lapped, retained>>

Expire(a) ==
    /\ a \in urls
    /\ urls' = urls \ {a}
    /\ UNCHANGED <<asset, link, bucket, job, lapped, retained>>
-----------------------------------------------------------------------------
(* PATCH /assets/:assetId *)
FinalizeLoad(w, a) ==
    /\ Open(a)
    /\ Begin(w, [pc |-> "finalize", asset |-> a])
    /\ UNCHANGED <<asset, link, bucket, urls, retained>>

(* Mutation: an object that is not there is not an error.                  *)
VerifyMissing(w) ==
    LET a == job[w].asset
    IN /\ job[w].pc = "finalize"
       /\ Continue(w, [pc |-> IF bucket[a] = "other" THEN "mismatch"
                              ELSE "verified",
                       asset |-> a])
       /\ UNCHANGED <<asset, link, bucket, urls, retained>>

(* Without bytes it answers 422 and the asset stays open.                  *)
Verify(w) ==
    LET a == job[w].asset
    IN /\ job[w].pc = "finalize"
       /\ \/ bucket[a] = "none" /\ Finish(w)
          \/ /\ bucket[a] = "declared"
             /\ Continue(w, [pc |-> "verified", asset |-> a])
          \/ /\ bucket[a] = "other"
             /\ Continue(w, [pc |-> "mismatch", asset |-> a])
       /\ UNCHANGED <<asset, link, bucket, urls, retained>>

Quarantine(w) ==
    /\ job[w].pc = "mismatch" /\ ~Locked(job[w].asset)
    /\ SetStatus(job[w].asset, "QUARANTINED")
    /\ Finish(w)
    /\ UNCHANGED <<link, bucket, urls, retained>>

(* The transaction: update of the asset row and read of the model; then    *)
(* update of the model row and search for the images it supersedes; then   *)
(* their update, and the commit.                                           *)
LinkRead(w) ==
    /\ job[w].pc = "verified" /\ ~Locked(job[w].asset)
    /\ Continue(w, [pc |-> "linking", asset |-> job[w].asset,
                    previous |-> link[ModelOf(w)]])
    /\ UNCHANGED <<asset, link, bucket, urls, retained>>

(* Mutation: superseded images are searched before the model is locked.    *)
LinkModelEarly(w) ==
    /\ job[w].pc = "linking"
    /\ Continue(w, [pc |-> "retiring", asset |-> job[w].asset,
                    previous |-> job[w].previous,
                    superseded |-> AvailableFor(ModelOf(w)) \ {job[w].asset}])
    /\ UNCHANGED <<asset, link, bucket, urls, retained>>

LinkModel(w) ==
    /\ job[w].pc = "linking" /\ ~ModelLocked(ModelOf(w))
    /\ Continue(w, [pc |-> "retiring", asset |-> job[w].asset,
                    previous |-> job[w].previous,
                    superseded |-> AvailableFor(ModelOf(w)) \ {job[w].asset}])
    /\ UNCHANGED <<asset, link, bucket, urls, retained>>

(* Keys of the superseded images and of the image linked before.  The code *)
(* deletes a key that is both twice.                                       *)
Superseded(w) ==
    (job[w].superseded \cup {job[w].previous}) \ {job[w].asset, NoImage}

LinkCommit(w) ==
    LET a == job[w].asset
    IN /\ job[w].pc = "retiring"
       /\ \A b \in job[w].superseded : ~Locked(b)
       /\ asset' = [b \in Assets |->
                      IF b = a THEN [asset[b] EXCEPT !.status = "AVAILABLE"]
                      ELSE IF b \in job[w].superseded
                           THEN [asset[b] EXCEPT !.status = "RETIRED"]
                           ELSE asset[b]]
       /\ link' = [link EXCEPT ![ModelOf(w)] = a]
       /\ Continue(w, [pc |-> "cleaning", asset |-> a, keys |-> Superseded(w)])
       /\ UNCHANGED <<bucket, urls, retained>>

(* A delete that fails is logged and the next key tried.                   *)
CleanUp(w) ==
    /\ job[w].pc = "cleaning"
    /\ \E k \in job[w].keys :
         /\ Continue(w, [job[w] EXCEPT !.keys = @ \ {k}])
         /\ \/ bucket' = [bucket EXCEPT ![k] = "none"]
            \/ UNCHANGED bucket
    /\ UNCHANGED <<asset, link, urls, retained>>

Answer(w) ==
    /\ job[w].pc = "cleaning" /\ job[w].keys = {}
    /\ Finish(w)
    /\ UNCHANGED <<asset, link, bucket, urls, retained>>
-----------------------------------------------------------------------------
(* DELETE /assets/:assetId, in whatever status but RETIRED *)
DeleteLoad(w, a) ==
    /\ Found(a)
    /\ Begin(w, [pc |-> "delete", asset |-> a])
    /\ UNCHANGED <<asset, link, bucket, urls, retained>>

(* Update of the asset row and read of the model. *)
DeleteRead(w) ==
    LET a == job[w].asset
    IN /\ job[w].pc = "delete" /\ ~Locked(a)
       /\ Continue(w, [pc |-> "unlinking", asset |-> a,
                       linked |-> link[ModelOf(w)] = a])
       /\ UNCHANGED <<asset, link, bucket, urls, retained>>

DeleteCommit(w) ==
    LET a == job[w].asset
    IN /\ job[w].pc = "unlinking"
       /\ \/ /\ job[w].linked /\ ~ModelLocked(ModelOf(w))
             /\ link' = [link EXCEPT ![ModelOf(w)] = NoImage]
          \/ ~job[w].linked /\ UNCHANGED link
       /\ SetStatus(a, "RETIRED")
       /\ retained' = retained \cup {a}
       /\ Finish(w)
       /\ UNCHANGED <<bucket, urls>>

(* A call throws, a transaction is rolled back, or the process stops.      *)
Abort(w) ==
    /\ job[w] # Idle
    /\ Finish(w)
    /\ UNCHANGED <<asset, link, bucket, urls, retained>>
-----------------------------------------------------------------------------
Upload(w) == (\E a \in Assets : UploadLoad(w, a)) \/ UploadCommit(w)
Finalize(w) ==
    \/ \E a \in Assets : FinalizeLoad(w, a)
    \/ Verify(w) \/ Quarantine(w)
    \/ LinkRead(w) \/ LinkModel(w) \/ LinkCommit(w) \/ CleanUp(w) \/ Answer(w)
Delete(w) ==
    (\E a \in Assets : DeleteLoad(w, a)) \/ DeleteRead(w) \/ DeleteCommit(w)
Client(a) ==
    (\E m \in Models : Create(a, m)) \/ (\E b \in Bytes : Put(a, b)) \/ Expire(a)

Next ==
    \/ \E w \in Workers : Upload(w) \/ Finalize(w) \/ Delete(w) \/ Abort(w)
    \/ \E a \in Assets : Client(a)

Spec == Init /\ [][Next]_vars
-----------------------------------------------------------------------------
(* However requests overlap, a model has at most one available image: of   *)
(* two that are finalized at once the second retires the first, although   *)
(* both began when neither was available (:581).                           *)
OneAvailable ==
    \A a, b \in Assets :
      (asset[a].status = "AVAILABLE" /\ asset[b].status = "AVAILABLE"
       /\ asset[a].model = asset[b].model) => a = b
-----------------------------------------------------------------------------
(* What holds as long as no two requests have overlapped, whatever client  *)
(* uploads and failures happen in between.                                 *)

(* A model shows a managed image exactly when that image is available to   *)
(* it: status and link are written to two tables and removed from two.     *)
LinkedIsAvailable ==
    ~lapped =>
      \A a \in Assets :
        asset[a].status = "AVAILABLE" <=> \E m \in Models : link[m] = a

(* The image a model shows has bytes: the cleanup of superseded objects    *)
(* (:607), which a failure may cut short and nothing resumes, never takes  *)
(* those of an image that is or comes into use.                            *)
LinkedHasBytes ==
    ~lapped =>
      \A m \in Models : link[m] # NoImage => bucket[link[m]] # "none"

(* Bytes of an asset removed by DELETE are retained ("bytes retained under *)
(* review"), whatever is finalized for its model later.                    *)
RetainedStay ==
    [][~lapped' =>
         \A a \in retained : bucket[a] # "none" => bucket'[a] # "none"]_vars

(* An asset only moves on: neither an upload request nor a finalize takes  *)
(* one back that has been finalized, quarantined or retired.               *)
Moves ==
    { <<"NONE", "REQUESTED">>, <<"REQUESTED", "UPLOAD_REQUESTED">>,
      <<"UPLOAD_REQUESTED", "AVAILABLE">>, <<"UPLOAD_REQUESTED", "QUARANTINED">>,
      <<"REQUESTED", "RETIRED">>, <<"UPLOAD_REQUESTED", "RETIRED">>,
      <<"AVAILABLE", "RETIRED">>, <<"QUARANTINED", "RETIRED">> }
OnlyMovesOn ==
    [][~lapped' =>
         \A a \in Assets :
           asset'[a].status # asset[a].status =>
             <<asset[a].status, asset'[a].status>> \in Moves]_vars
=============================================================================
