------------------------- MODULE AssetImagesProofs --------------------------
(***************************************************************************)
(* Theorems about AssetImages, for any number of requests, assets and      *)
(* models: a model never has two available images; and as long as no two   *)
(* requests have overlapped, links, statuses and bytes agree.              *)
(***************************************************************************)
EXTENDS AssetImages, TLAPS

Exists(a) == asset[a].status # "NONE"

(* A request works on a row that exists. *)
JobsHaveRows == \A w \in Workers : job[w] # Idle => Exists(job[w].asset)

(* Nobody can have stored bytes for an asset before its upload request.    *)
UploadsAreRequested ==
    \A a \in Assets :
      asset[a].status \in {"NONE", "REQUESTED"} =>
        a \notin urls /\ bucket[a] = "none"

(* Between its search and its commit a finalize is alone with the model,   *)
(* and knows every available image of it.                                  *)
RetiresAll ==
    \A w \in Workers :
      job[w].pc = "retiring" =>
        /\ \A v \in Workers :
             job[v].pc = "retiring" /\ ModelOf(v) = ModelOf(w) => v = w
        /\ AvailableFor(ModelOf(w)) \subseteq job[w].superseded \cup {job[w].asset}
        /\ \A b \in job[w].superseded : Exists(b)

Overlapping ==
    TypeOK /\ JobsHaveRows /\ UploadsAreRequested /\ RetiresAll /\ OneAvailable
-----------------------------------------------------------------------------
(* One request at a time.                                                  *)

Alone == \A v, w \in Workers : job[v] # Idle /\ job[w] # Idle => v = w

LinksAgree ==
    /\ \A m \in Models : link[m] \in Assets \cup {m, NoImage}
    /\ \A a \in Assets, m \in Models :
         link[m] = a <=> asset[a].status = "AVAILABLE" /\ asset[a].model = m

BytesAgree == \A m \in Models : link[m] # NoImage => bucket[link[m]] # "none"

RetainedAreRetired == \A a \in retained : asset[a].status = "RETIRED"

Opening == {"upload", "finalize", "verified", "mismatch", "linking", "retiring"}
Verified == {"verified", "mismatch", "linking", "retiring"}

(* What a request has read is still so.                                    *)
JobIsCurrent(w) ==
    /\ job[w].pc \in Opening => Open(job[w].asset)
    /\ job[w].pc \in Verified => bucket[job[w].asset] # "none"
    /\ job[w].pc \in {"linking", "retiring"} => job[w].previous = link[ModelOf(w)]
    /\ job[w].pc = "retiring" => job[w].superseded \subseteq AvailableFor(ModelOf(w))
    /\ job[w].pc \in {"delete", "unlinking"} => Found(job[w].asset)
    /\ job[w].pc = "unlinking" =>
         job[w].linked = (link[ModelOf(w)] = job[w].asset)
    /\ job[w].pc = "cleaning" =>
         /\ job[w].keys \cap retained = {}
         /\ \A m \in Models : link[m] \notin job[w].keys

Serial ==
    /\ Alone /\ LinksAgree /\ BytesAgree /\ RetainedAreRetired
    /\ \A w \in Workers : JobIsCurrent(w)

IInv == Overlapping /\ (~lapped => Serial)
-----------------------------------------------------------------------------
(* The shape of a request by where it is. *)
LEMMA JobShape ==
  ASSUME NEW request \in Job
  PROVE  /\ request # Idle <=> request.pc # "idle"
         /\ request # Idle => request.asset \in Assets
         /\ request.pc \in {"linking", "retiring"} =>
              request.previous \in Keys \cup {NoImage}
         /\ request.pc = "retiring" => request.superseded \in SUBSET Assets
         /\ request.pc = "cleaning" =>
              /\ request.keys \in SUBSET Keys
              /\ \A S \in SUBSET Keys : [request EXCEPT !.keys = S] \in Job
         /\ request.pc = "unlinking" => request.linked \in BOOLEAN
  BY DEF Job, Idle

LEMMA RowShape ==
  ASSUME NEW row \in {NoRow} \cup AssetRow
  PROVE  row.status # "NONE" <=> row \in AssetRow
  BY DEF NoRow, AssetRow

(* What is known of a worker that is not idle. *)
LEMMA AtWork ==
  ASSUME TypeOK, JobsHaveRows, NEW w \in Workers, job[w].pc # "idle"
  PROVE  /\ job[w] \in Job /\ job[w] # Idle /\ job[w].asset \in Assets
         /\ asset[job[w].asset] \in AssetRow /\ ModelOf(w) \in Models
<1>1. job[w] \in Job
  BY DEF TypeOK
<1>2. job[w] # Idle /\ job[w].asset \in Assets
  BY <1>1, JobShape
<1>3. asset[job[w].asset] \in AssetRow
  BY <1>2, RowShape DEF TypeOK, JobsHaveRows, Exists
<1> QED
  BY <1>1, <1>2, <1>3 DEF AssetRow, ModelOf
-----------------------------------------------------------------------------
LEMMA Initial == Init => IInv
<1> SUFFICES ASSUME Init PROVE IInv
  OBVIOUS
<1>1. TypeOK
  <2>1. asset \in [Assets -> {NoRow} \cup AssetRow] /\ job \in [Workers -> Job]
    BY DEF Init, Job
  <2>2. link \in [Models -> Keys \cup {NoImage}]
    BY DEF Init, Keys
  <2>3. bucket \in [Keys -> Bytes \cup {"none"}]
    BY DEF Init, Bytes
  <2> QED BY <2>1, <2>2, <2>3 DEF Init, TypeOK
<1>2. JobsHaveRows /\ UploadsAreRequested /\ RetiresAll /\ OneAvailable
  BY AssetAssumption DEF Init, JobsHaveRows, UploadsAreRequested, RetiresAll,
     OneAvailable, Idle, NoRow, Keys
<1>3. Alone /\ LinksAgree /\ BytesAgree /\ RetainedAreRetired
  BY AssetAssumption DEF Init, Alone, LinksAgree, BytesAgree, RetainedAreRetired,
     Idle, NoRow, Keys
<1>4. \A w \in Workers : JobIsCurrent(w)
  BY DEF Init, JobIsCurrent, Idle, Opening, Verified
<1> QED
  BY <1>1, <1>2, <1>3, <1>4 DEF IInv, Overlapping, Serial
-----------------------------------------------------------------------------
(* Steps that make nothing available and begin no retiring.                *)
LEMMA OverlapStep ==
  ASSUME Overlapping, TypeOK',
         \A a \in Assets : Exists(a) => Exists(a)' /\ asset'[a].model = asset[a].model,
         \A a \in Assets : asset'[a].status = "AVAILABLE" => asset[a].status = "AVAILABLE",
         \A v \in Workers : job'[v].pc = "retiring" => job'[v] = job[v]
  PROVE  RetiresAll' /\ OneAvailable'
<1>1. \A a \in Assets :
        asset'[a].status = "AVAILABLE" =>
          asset[a].status = "AVAILABLE" /\ asset'[a].model = asset[a].model
  BY DEF Exists
<1>2. OneAvailable'
  BY <1>1 DEF Overlapping, OneAvailable
<1>3. ASSUME NEW v \in Workers, job'[v].pc = "retiring"
      PROVE  /\ job[v].pc = "retiring" /\ ModelOf(v)' = ModelOf(v)
             /\ job'[v] = job[v] /\ job[v].superseded \subseteq Assets
  <2>1. job'[v] = job[v] /\ job[v].pc = "retiring"
    BY <1>3
  <2>2. job[v].asset \in Assets /\ Exists(job[v].asset)
    BY <2>1, AtWork, RowShape DEF Overlapping, JobsHaveRows
  <2>3. job[v].superseded \subseteq Assets
    BY <2>1, JobShape DEF Overlapping, TypeOK
  <2> QED BY <2>1, <2>2, <2>3 DEF ModelOf
<1>4. \A m : AvailableFor(m)' \subseteq AvailableFor(m)
  BY <1>1 DEF AvailableFor
<1> QED
  BY <1>2, <1>3, <1>4 DEF Overlapping, RetiresAll

OthersIdle(w) == \A v \in Workers : v # w => job[v] = Idle

LEMMA SerialStep ==
  ASSUME NEW w \in Workers, NEW request, TypeOK, Serial, OthersIdle(w),
         job' = [job EXCEPT ![w] = request],
         LinksAgree', BytesAgree', RetainedAreRetired', JobIsCurrent(w)'
  PROVE  Serial'
<1>1. \A v \in Workers : v # w => job'[v] = Idle
  BY DEF OthersIdle, TypeOK
<1>2. Alone'
  BY <1>1 DEF Alone
<1>3. ASSUME NEW v \in Workers, v # w PROVE JobIsCurrent(v)'
  <2>1. job'[v].pc = "idle"
    BY <1>1, <1>3 DEF Idle
  <2> QED BY <2>1 DEF JobIsCurrent, Opening, Verified
<1> QED
  BY <1>2, <1>3 DEF Serial

(* A request that begins or continues while no two overlap is the only one.*)
LEMMA BeginsAlone ==
  ASSUME IInv, NEW w \in Workers, NEW request, Begin(w, request)
  PROVE  /\ job' = [job EXCEPT ![w] = request]
         /\ ~lapped' => Serial /\ OthersIdle(w)
BY DEF IInv, Begin, OthersIdle

LEMMA ContinuesAlone ==
  ASSUME IInv, NEW w \in Workers, NEW request, Continue(w, request), job[w] # Idle
  PROVE  /\ job' = [job EXCEPT ![w] = request] /\ lapped' = lapped
         /\ ~lapped' => Serial /\ OthersIdle(w)
BY DEF IInv, Continue, OthersIdle, Serial, Alone

(* Steps that only move a request on.                                      *)
LEMMA JobStep ==
  ASSUME IInv, NEW w \in Workers, NEW request \in Job,
         job' = [job EXCEPT ![w] = request],
         UNCHANGED <<asset, link, bucket, urls, retained>>,
         lapped' \in BOOLEAN,
         ~lapped' => Serial /\ OthersIdle(w),
         request # Idle => Exists(request.asset),
         request.pc # "retiring",
         ~lapped' => JobIsCurrent(w)'
  PROVE  IInv'
<1>1. job'[w] = request /\ \A v \in Workers : v # w => job'[v] = job[v]
  BY DEF IInv, Overlapping, TypeOK
<1>2. TypeOK'
  BY DEF IInv, Overlapping, TypeOK
<1>3. JobsHaveRows' /\ UploadsAreRequested'
  BY <1>1 DEF IInv, Overlapping, JobsHaveRows, UploadsAreRequested, Exists
<1>4. RetiresAll' /\ OneAvailable'
  BY <1>1, <1>2, OverlapStep DEF IInv, Exists
<1>5. ~lapped' => LinksAgree' /\ BytesAgree' /\ RetainedAreRetired'
  BY DEF Serial, LinksAgree, BytesAgree, RetainedAreRetired
<1>6. ~lapped' => Serial'
  BY <1>5, SerialStep DEF IInv, Overlapping
<1> QED
  BY <1>2, <1>3, <1>4, <1>6 DEF IInv, Overlapping
-----------------------------------------------------------------------------
LEMMA CreateStep ==
  ASSUME IInv, NEW a \in Assets, NEW m \in Models, Create(a, m)
  PROVE  IInv'
<1> DEFINE row == [status |-> "REQUESTED", model |-> m]
<1>1. /\ asset[a].status = "NONE" /\ asset'[a] = row
      /\ \A b \in Assets : b # a => asset'[b] = asset[b]
      /\ UNCHANGED <<link, bucket, urls, job, lapped, retained>>
      /\ row \in AssetRow
  BY DEF Create, IInv, Overlapping, TypeOK, NoRow, AssetRow
<1>2. TypeOK'
  BY <1>1 DEF IInv, Overlapping, TypeOK, Create
<1>3. JobsHaveRows'
  <2>1. \A w \in Workers : job[w] # Idle => job[w].asset \in Assets
    BY JobShape DEF IInv, Overlapping, TypeOK
  <2> QED BY <1>1, <2>1 DEF IInv, Overlapping, JobsHaveRows, Exists
<1>4. UploadsAreRequested'
  BY <1>1 DEF IInv, Overlapping, UploadsAreRequested
<1>5. RetiresAll' /\ OneAvailable'
  <2>1. \A b \in Assets : Exists(b) => Exists(b)' /\ asset'[b].model = asset[b].model
    BY <1>1 DEF Exists
  <2> QED BY <1>1, <1>2, <2>1, OverlapStep DEF IInv
<1>6. ASSUME ~lapped' PROVE Serial'
  <2>1. Serial
    BY <1>1, <1>6 DEF IInv
  <2>2. Alone' /\ BytesAgree'
    BY <1>1, <2>1 DEF Serial, Alone, BytesAgree
  <2>3. LinksAgree'
    BY <1>1, <2>1 DEF Serial, LinksAgree
  <2>4. RetainedAreRetired'
    BY <1>1, <2>1 DEF Serial, RetainedAreRetired, IInv, Overlapping, TypeOK
  <2>5. ASSUME NEW w \in Workers PROVE JobIsCurrent(w)'
    <3>1. CASE job[w].pc = "idle"
      BY <1>1, <3>1 DEF JobIsCurrent, Opening, Verified
    <3>2. CASE job[w].pc # "idle"
      <4>1. job[w].asset \in Assets /\ asset[job[w].asset].status # "NONE"
        BY <3>2, AtWork, RowShape DEF IInv, Overlapping
      <4>2. asset'[job[w].asset] = asset[job[w].asset] /\ ModelOf(w)' = ModelOf(w)
        BY <1>1, <4>1 DEF ModelOf
      <4>3. \A n : AvailableFor(n) \subseteq AvailableFor(n)'
        BY <1>1 DEF AvailableFor
      <4> QED BY <1>1, <2>1, <4>2, <4>3
              DEF Serial, JobIsCurrent, Open, Found
    <3> QED BY <3>1, <3>2
  <2> QED BY <2>2, <2>3, <2>4, <2>5 DEF Serial
<1> QED
  BY <1>2, <1>3, <1>4, <1>5, <1>6 DEF IInv, Overlapping

(* What the client does touches no row; it only ever adds bytes.           *)
LEMMA ClientStep ==
  ASSUME IInv, UNCHANGED <<asset, link, job, lapped, retained>>,
         urls' \in SUBSET urls, bucket' \in [Keys -> Bytes \cup {"none"}],
         \A k \in Keys : k \in urls \/ bucket'[k] = bucket[k],
         \A k \in Keys : bucket[k] # "none" => bucket'[k] # "none"
  PROVE  IInv'
<1>1. TypeOK'
  BY DEF IInv, Overlapping, TypeOK
<1>2. JobsHaveRows'
  BY DEF IInv, Overlapping, JobsHaveRows, Exists
<1>3. UploadsAreRequested'
  BY DEF IInv, Overlapping, UploadsAreRequested, Keys
<1>4. RetiresAll' /\ OneAvailable'
  BY <1>1, OverlapStep DEF IInv, Exists
<1>5. ASSUME ~lapped' PROVE Serial'
  <2>1. Serial
    BY <1>5 DEF IInv
  <2>2. Alone' /\ LinksAgree' /\ RetainedAreRetired'
    BY <2>1 DEF Serial, Alone, LinksAgree, RetainedAreRetired
  <2>3. BytesAgree'
    BY <2>1 DEF Serial, BytesAgree, IInv, Overlapping, TypeOK
  <2>4. ASSUME NEW w \in Workers PROVE JobIsCurrent(w)'
    <3>1. job[w].pc # "idle" => job[w].asset \in Keys
      BY AtWork DEF IInv, Overlapping, Keys
    <3>2. job[w].pc \in Verified => bucket'[job[w].asset] # "none"
      BY <2>1, <3>1 DEF Serial, JobIsCurrent, Verified
    <3> QED BY <2>1, <3>2
            DEF Serial, JobIsCurrent, Open, Found, ModelOf, AvailableFor
  <2> QED BY <2>2, <2>3, <2>4 DEF Serial
<1> QED
  BY <1>1, <1>2, <1>3, <1>4, <1>5 DEF IInv, Overlapping
-----------------------------------------------------------------------------
(* The loads: the asset was found, or open.                                *)
LEMMA LoadStep ==
  ASSUME IInv, NEW w \in Workers, NEW a \in Assets, NEW pc,
         Begin(w, [pc |-> pc, asset |-> a]),
         \/ pc \in {"upload", "finalize"} /\ Open(a)
         \/ pc = "delete" /\ Found(a),
         UNCHANGED <<asset, link, bucket, urls, retained>>
  PROVE  IInv'
<1> DEFINE request == [pc |-> pc, asset |-> a]
<1>1. request \in Job /\ request.pc = pc /\ request.asset = a
  BY DEF Job
<1>2. job'[w] = request /\ lapped' \in BOOLEAN
  BY DEF Begin, IInv, Overlapping, TypeOK
<1>3. Exists(a)
  BY DEF Exists, Open, Found
<1>4. JobIsCurrent(w)'
  BY <1>1, <1>2 DEF JobIsCurrent, Opening, Verified, Open, Found
<1> HIDE DEF request
<1>5. Begin(w, request)
  BY DEF request
<1> QED
  BY <1>1, <1>2, <1>3, <1>4, <1>5, BeginsAlone, JobStep

LEMMA VerifyStep ==
  ASSUME IInv, NEW w \in Workers, Verify(w)
  PROVE  IInv'
<1> DEFINE a == job[w].asset
<1>1. /\ job[w] \in Job /\ job[w] # Idle /\ a \in Assets /\ Exists(a)
      /\ lapped' = lapped /\ lapped \in BOOLEAN
  BY AtWork, RowShape DEF Verify, Exists, IInv, Overlapping, Finish, Continue,
     TypeOK
<1>2. PICK request \in Job :
        /\ Continue(w, request) /\ request.pc # "retiring"
        /\ \/ request = Idle
           \/ /\ request.pc \in {"verified", "mismatch"} /\ request.asset = a
              /\ bucket[a] # "none"
  <2>1. CASE bucket[a] = "none" /\ Finish(w)
    BY <2>1 DEF Finish, Job, Idle
  <2>2. CASE bucket[a] = "declared" /\ Continue(w, [pc |-> "verified", asset |-> a])
    <3>1. [pc |-> "verified", asset |-> a] \in Job
      BY <1>1 DEF Job
    <3> QED BY <2>2, <3>1
  <2>3. CASE bucket[a] = "other" /\ Continue(w, [pc |-> "mismatch", asset |-> a])
    <3>1. [pc |-> "mismatch", asset |-> a] \in Job
      BY <1>1 DEF Job
    <3> QED BY <2>3, <3>1
  <2> QED BY <2>1, <2>2, <2>3 DEF Verify
<1>3. job'[w] = request
  BY <1>2 DEF Continue, IInv, Overlapping, TypeOK
<1>4. ~lapped => JobIsCurrent(w)'
  <2>1. ~lapped => Open(a)
    BY DEF IInv, Serial, JobIsCurrent, Opening, Verify
  <2> QED BY <1>2, <1>3, <2>1
          DEF JobIsCurrent, Opening, Verified, Open, Idle, Verify
<1> QED
  BY <1>1, <1>2, <1>4, ContinuesAlone, JobStep DEF Verify

LEMMA AbortStep ==
  ASSUME IInv, NEW w \in Workers, job[w] # Idle, Finish(w),
         UNCHANGED <<asset, link, bucket, urls, retained>>
  PROVE  IInv'
<1>1. job'[w] = Idle /\ Idle \in Job /\ Idle.pc = "idle" /\ lapped \in BOOLEAN
  BY DEF Finish, Continue, IInv, Overlapping, TypeOK, Job, Idle
<1>2. JobIsCurrent(w)'
  BY <1>1 DEF JobIsCurrent, Opening, Verified
<1> QED
  BY <1>1, <1>2, ContinuesAlone, JobStep DEF Finish
-----------------------------------------------------------------------------
(* The last write of an upload request, a quarantine or a delete.          *)
LEMMA RowStep ==
  ASSUME IInv, NEW w \in Workers, NEW status,
         job[w] # Idle, Finish(w), SetStatus(job[w].asset, status),
         status \in {"UPLOAD_REQUESTED", "QUARANTINED", "RETIRED"},
         bucket' = bucket, urls' \in SUBSET (urls \cup {job[w].asset}),
         link' \in [Models -> Keys \cup {NoImage}],
         retained' \in SUBSET Assets
  PROVE  /\ Overlapping'
         /\ \A b \in Assets : b # job[w].asset => asset'[b] = asset[b]
         /\ asset'[job[w].asset].status = status
         /\ asset'[job[w].asset].model = ModelOf(w)
         /\ JobIsCurrent(w)' /\ job' = [job EXCEPT ![w] = Idle]
         /\ ~lapped' => Serial /\ OthersIdle(w)
<1> DEFINE a == job[w].asset
<1>1. /\ a \in Assets /\ asset[a] \in AssetRow /\ ModelOf(w) = asset[a].model
      /\ job' = [job EXCEPT ![w] = Idle] /\ lapped' = lapped
      /\ ~lapped' => Serial /\ OthersIdle(w)
  <2>1. job[w].pc # "idle"
    BY JobShape DEF IInv, Overlapping, TypeOK
  <2> QED
    BY <2>1, AtWork, ContinuesAlone
       DEF IInv, Overlapping, Finish, ModelOf
<1>2. /\ asset'[a] \in AssetRow /\ asset'[a].status = status
      /\ asset'[a].model = asset[a].model
      /\ \A b \in Assets : b # a => asset'[b] = asset[b]
      /\ asset' \in [Assets -> {NoRow} \cup AssetRow]
  BY <1>1 DEF SetStatus, IInv, Overlapping, TypeOK, AssetRow
<1>3. job'[w] = Idle /\ \A v \in Workers : v # w => job'[v] = job[v]
  BY <1>1 DEF IInv, Overlapping, TypeOK
<1>4. TypeOK'
  BY <1>1, <1>2 DEF IInv, Overlapping, TypeOK, Job
<1>5. \A b \in Assets : Exists(b) => Exists(b)' /\ asset'[b].model = asset[b].model
  BY <1>2 DEF Exists
<1>6. JobsHaveRows'
  <2>1. \A v \in Workers : job[v] # Idle => job[v].asset \in Assets
    BY JobShape DEF IInv, Overlapping, TypeOK
  <2> QED BY <1>3, <1>5, <2>1 DEF IInv, Overlapping, JobsHaveRows
<1>7. UploadsAreRequested'
  BY <1>2 DEF IInv, Overlapping, UploadsAreRequested
<1>8. RetiresAll' /\ OneAvailable'
  <2>1. \A v \in Workers : job'[v].pc = "retiring" => job'[v] = job[v]
    BY <1>3 DEF Idle
  <2>2. \A b \in Assets :
          asset'[b].status = "AVAILABLE" => asset[b].status = "AVAILABLE"
    BY <1>2
  <2> QED BY <1>4, <1>5, <2>1, <2>2, OverlapStep DEF IInv
<1>9. JobIsCurrent(w)'
  BY <1>3 DEF JobIsCurrent, Opening, Verified, Idle
<1> QED
  BY <1>1, <1>2, <1>4, <1>6, <1>7, <1>8, <1>9 DEF Overlapping

LEMMA UploadCommitStep ==
  ASSUME IInv, NEW w \in Workers, UploadCommit(w)
  PROVE  IInv'
<1> DEFINE a == job[w].asset
<1>1. job[w].pc = "upload" /\ job[w] # Idle /\ a \in Assets /\ ModelOf(w) = asset[a].model
  BY AtWork DEF UploadCommit, IInv, Overlapping, ModelOf
<1>2. /\ Overlapping' /\ JobIsCurrent(w)' /\ job' = [job EXCEPT ![w] = Idle]
      /\ asset'[a].status = "UPLOAD_REQUESTED" /\ asset'[a].model = asset[a].model
      /\ \A b \in Assets : b # a => asset'[b] = asset[b]
      /\ ~lapped' => Serial /\ OthersIdle(w)
  BY <1>1, RowStep DEF UploadCommit, IInv, Overlapping, TypeOK
<1>3. ASSUME ~lapped' PROVE Serial'
  <2>1. Serial /\ OthersIdle(w) /\ Open(a)
    BY <1>1, <1>2, <1>3 DEF Serial, JobIsCurrent, Opening
  <2>2. LinksAgree'
    BY <1>2, <2>1 DEF Serial, LinksAgree, Open, UploadCommit
  <2>3. BytesAgree'
    BY <2>1 DEF Serial, BytesAgree, UploadCommit
  <2>4. RetainedAreRetired'
    BY <1>2, <2>1 DEF Serial, RetainedAreRetired, Open, UploadCommit, IInv,
       Overlapping, TypeOK
  <2> QED BY <1>2, <2>1, <2>2, <2>3, <2>4, SerialStep DEF IInv, Overlapping
<1> QED
  BY <1>2, <1>3 DEF IInv

LEMMA QuarantineStep ==
  ASSUME IInv, NEW w \in Workers, Quarantine(w)
  PROVE  IInv'
<1> DEFINE a == job[w].asset
<1>1. job[w].pc = "mismatch" /\ job[w] # Idle /\ a \in Assets /\ ModelOf(w) = asset[a].model
  BY AtWork DEF Quarantine, IInv, Overlapping, ModelOf
<1>2. /\ Overlapping' /\ JobIsCurrent(w)' /\ job' = [job EXCEPT ![w] = Idle]
      /\ asset'[a].status = "QUARANTINED" /\ asset'[a].model = asset[a].model
      /\ \A b \in Assets : b # a => asset'[b] = asset[b]
      /\ ~lapped' => Serial /\ OthersIdle(w)
  BY <1>1, RowStep DEF Quarantine, IInv, Overlapping, TypeOK
<1>3. ASSUME ~lapped' PROVE Serial'
  <2>1. Serial /\ OthersIdle(w) /\ Open(a)
    BY <1>1, <1>2, <1>3 DEF Serial, JobIsCurrent, Opening
  <2>2. LinksAgree'
    BY <1>2, <2>1 DEF Serial, LinksAgree, Open, Quarantine
  <2>3. BytesAgree'
    BY <2>1 DEF Serial, BytesAgree, Quarantine
  <2>4. RetainedAreRetired'
    BY <1>2, <2>1 DEF Serial, RetainedAreRetired, Open, Quarantine, IInv,
       Overlapping, TypeOK
  <2> QED BY <1>2, <2>1, <2>2, <2>3, <2>4, SerialStep DEF IInv, Overlapping
<1> QED
  BY <1>2, <1>3 DEF IInv
-----------------------------------------------------------------------------
LEMMA LinkReadStep ==
  ASSUME IInv, NEW w \in Workers, LinkRead(w)
  PROVE  IInv'
<1> DEFINE request == [pc |-> "linking", asset |-> job[w].asset,
                       previous |-> link[ModelOf(w)]]
<1>1. /\ job[w] \in Job /\ job[w] # Idle /\ job[w].asset \in Assets
      /\ ModelOf(w) \in Models /\ Exists(job[w].asset)
      /\ link[ModelOf(w)] \in Keys \cup {NoImage}
  BY AtWork, RowShape DEF LinkRead, IInv, Overlapping, TypeOK, Exists
<1>2. /\ request \in Job /\ request.pc = "linking"
      /\ request.asset = job[w].asset /\ request.previous = link[ModelOf(w)]
  BY <1>1 DEF Job
<1> HIDE DEF request
<1>3. /\ Continue(w, request) /\ job[w].pc = "verified"
      /\ UNCHANGED <<asset, link, bucket, urls, retained>>
  BY DEF LinkRead, request
<1>4. /\ job' = [job EXCEPT ![w] = request] /\ lapped' = lapped
      /\ ~lapped' => Serial /\ OthersIdle(w)
  BY <1>1, <1>3, ContinuesAlone
<1>5. job'[w] = request /\ lapped \in BOOLEAN
  BY <1>4 DEF IInv, Overlapping, TypeOK
<1>6. ~lapped' => JobIsCurrent(w)'
  <2>1. ~lapped' => Open(job[w].asset) /\ bucket[job[w].asset] # "none"
    BY <1>3, <1>4 DEF Serial, JobIsCurrent, Opening, Verified
  <2>2. ModelOf(w)' = ModelOf(w)
    BY <1>2, <1>3, <1>5 DEF ModelOf
  <2> QED BY <1>2, <1>3, <1>5, <2>1, <2>2
          DEF JobIsCurrent, Opening, Verified, Open
<1> QED
  BY <1>1, <1>2, <1>3, <1>4, <1>5, <1>6, JobStep

LEMMA AnswerStep ==
  ASSUME IInv, NEW w \in Workers, Answer(w)
  PROVE  IInv'
<1>1. job[w] # Idle
  BY DEF Answer, Idle
<1> QED
  BY <1>1, AbortStep DEF Answer

LEMMA DeleteReadStep ==
  ASSUME IInv, NEW w \in Workers, DeleteRead(w)
  PROVE  IInv'
<1> DEFINE a == job[w].asset
           request == [pc |-> "unlinking", asset |-> a,
                       linked |-> link[ModelOf(w)] = a]
<1>1. /\ job[w] \in Job /\ job[w] # Idle /\ a \in Assets /\ Exists(a)
  BY AtWork, RowShape DEF DeleteRead, IInv, Overlapping, TypeOK, Exists
<1>2. /\ request \in Job /\ request.pc = "unlinking"
      /\ request.asset = a /\ request.linked = (link[ModelOf(w)] = a)
  BY <1>1 DEF Job
<1> HIDE DEF request
<1>3. /\ Continue(w, request) /\ job[w].pc = "delete"
      /\ UNCHANGED <<asset, link, bucket, urls, retained>>
  BY DEF DeleteRead, request
<1>4. /\ job' = [job EXCEPT ![w] = request] /\ lapped' = lapped
      /\ ~lapped' => Serial /\ OthersIdle(w)
  BY <1>1, <1>3, ContinuesAlone
<1>5. job'[w] = request /\ lapped \in BOOLEAN
  BY <1>4 DEF IInv, Overlapping, TypeOK
<1>6. ~lapped' => JobIsCurrent(w)'
  <2>1. ~lapped' => Found(a)
    BY <1>3, <1>4 DEF Serial, JobIsCurrent
  <2>2. ModelOf(w)' = ModelOf(w)
    BY <1>2, <1>3, <1>5 DEF ModelOf
  <2> QED BY <1>2, <1>3, <1>5, <2>1, <2>2
          DEF JobIsCurrent, Opening, Verified, Found
<1> QED
  BY <1>1, <1>2, <1>3, <1>4, <1>5, <1>6, JobStep
-----------------------------------------------------------------------------
(* The search that begins a retiring: the model is locked by nobody else.  *)
LEMMA LinkModelStep ==
  ASSUME IInv, NEW w \in Workers, LinkModel(w)
  PROVE  IInv'
<1> DEFINE a == job[w].asset
           others == AvailableFor(ModelOf(w)) \ {a}
           request == [pc |-> "retiring", asset |-> a,
                       previous |-> job[w].previous, superseded |-> others]
<1>1. /\ job[w] \in Job /\ job[w] # Idle /\ a \in Assets /\ Exists(a)
      /\ job[w].previous \in Keys \cup {NoImage}
  BY AtWork, RowShape, JobShape
     DEF LinkModel, IInv, Overlapping, TypeOK, Exists
<1>2. /\ request \in Job /\ request.pc = "retiring" /\ request.asset = a
      /\ request.previous = job[w].previous /\ request.superseded = others
  BY <1>1 DEF Job, AvailableFor
<1> HIDE DEF request
<1>3. /\ Continue(w, request) /\ job[w].pc = "linking" /\ ~ModelLocked(ModelOf(w))
      /\ UNCHANGED <<asset, link, bucket, urls, retained>>
  BY DEF LinkModel, request
<1>4. /\ job' = [job EXCEPT ![w] = request] /\ lapped' = lapped
      /\ ~lapped' => Serial /\ OthersIdle(w)
  BY <1>1, <1>3, ContinuesAlone
<1>5. job'[w] = request /\ \A v \in Workers : v # w => job'[v] = job[v]
  BY <1>4 DEF IInv, Overlapping, TypeOK
<1>6. TypeOK'
  BY <1>2, <1>3, <1>4 DEF IInv, Overlapping, TypeOK
<1>7. JobsHaveRows' /\ UploadsAreRequested' /\ OneAvailable'
  BY <1>1, <1>2, <1>3, <1>5 DEF IInv, Overlapping, JobsHaveRows,
     UploadsAreRequested, OneAvailable, Exists
<1>8. \A v \in Workers : ModelOf(v)' = ModelOf(v)
  BY <1>2, <1>3, <1>5 DEF ModelOf
<1>9. \A v \in Workers : AvailableFor(ModelOf(v))' = AvailableFor(ModelOf(v))
  BY <1>3, <1>8 DEF AvailableFor
<1>10. RetiresAll'
  <2>1. \A v \in Workers : v # w /\ job[v].pc = "retiring" => ModelOf(v) # ModelOf(w)
    BY <1>3 DEF ModelLocked
  <2>2. SUFFICES ASSUME NEW v \in Workers, job'[v].pc = "retiring"
                 PROVE  /\ \A u \in Workers :
                             job'[u].pc = "retiring" /\ ModelOf(u)' = ModelOf(v)' => u = v
                        /\ (AvailableFor(ModelOf(v))
                               \subseteq job[v].superseded \cup {job[v].asset})'
                        /\ \A b \in job'[v].superseded : Exists(b)'
    BY DEF RetiresAll
  <2>3. CASE v = w
    BY <1>2, <1>3, <1>5, <1>8, <1>9, <2>1, <2>3 DEF AvailableFor, Exists
  <2>4. CASE v # w
    BY <1>2, <1>3, <1>5, <1>8, <1>9, <2>1, <2>2, <2>4 DEF Exists, IInv, Overlapping, RetiresAll
  <2> QED BY <2>3, <2>4
<1>11. ASSUME ~lapped' PROVE Serial'
  <2>1. Serial /\ OthersIdle(w)
    BY <1>4, <1>11
  <2>2. LinksAgree' /\ BytesAgree' /\ RetainedAreRetired'
    BY <1>3, <2>1 DEF Serial, LinksAgree, BytesAgree, RetainedAreRetired
  <2>3. JobIsCurrent(w)'
    <3>1. /\ Open(a) /\ bucket[a] # "none" /\ job[w].previous = link[ModelOf(w)]
      BY <1>3, <2>1 DEF Serial, JobIsCurrent, Opening, Verified
    <3> QED BY <1>2, <1>3, <1>5, <1>8, <1>9, <3>1
            DEF JobIsCurrent, Opening, Verified, Open
  <2> QED BY <1>4, <2>1, <2>2, <2>3, SerialStep DEF IInv, Overlapping
<1> QED
  BY <1>6, <1>7, <1>10, <1>11 DEF IInv, Overlapping

(* The cleanup takes the bytes of images that are not linked.              *)
LEMMA CleanUpStep ==
  ASSUME IInv, NEW w \in Workers, CleanUp(w)
  PROVE  IInv' /\ (~lapped' => \A k \in retained : bucket'[k] = bucket[k])
<1>1. PICK k \in job[w].keys :
        /\ Continue(w, [job[w] EXCEPT !.keys = @ \ {k}])
        /\ \/ bucket' = [bucket EXCEPT ![k] = "none"]
           \/ UNCHANGED bucket
  BY DEF CleanUp
<1> DEFINE request == [job[w] EXCEPT !.keys = @ \ {k}]
<1>2. /\ job[w] \in Job /\ job[w] # Idle /\ job[w].pc = "cleaning"
      /\ job[w].asset \in Assets /\ Exists(job[w].asset)
      /\ job[w].keys \in SUBSET Keys
  BY AtWork, RowShape, JobShape DEF CleanUp, IInv, Overlapping, TypeOK, Exists
<1>3. /\ request \in Job /\ request.pc = "cleaning"
      /\ request.asset = job[w].asset /\ request.keys = job[w].keys \ {k}
  BY <1>2 DEF Job, Idle
<1> HIDE DEF request
<1>4. /\ job' = [job EXCEPT ![w] = request] /\ lapped' = lapped
      /\ ~lapped' => Serial /\ OthersIdle(w)
  BY <1>1, <1>2, ContinuesAlone DEF request
<1>5. job'[w] = request /\ \A v \in Workers : v # w => job'[v] = job[v]
  BY <1>4 DEF IInv, Overlapping, TypeOK
<1>6. UNCHANGED <<asset, link, urls, retained>>
  BY DEF CleanUp
<1>7. \A n \in Keys : bucket'[n] = bucket[n] \/ (n = k /\ bucket'[n] = "none")
  BY <1>1, <1>2 DEF IInv, Overlapping, TypeOK
<1>8. TypeOK'
  <2>1. bucket' \in [Keys -> Bytes \cup {"none"}]
    BY <1>1 DEF IInv, Overlapping, TypeOK
  <2> QED BY <1>3, <1>4, <1>6, <2>1 DEF IInv, Overlapping, TypeOK
<1>9. JobsHaveRows'
  BY <1>2, <1>3, <1>5, <1>6 DEF IInv, Overlapping, JobsHaveRows, Exists
<1>10. UploadsAreRequested'
  BY <1>6, <1>7 DEF IInv, Overlapping, UploadsAreRequested, Keys
<1>11. RetiresAll' /\ OneAvailable'
  BY <1>3, <1>5, <1>6, <1>8, OverlapStep DEF IInv, Exists
<1>12. ASSUME ~lapped'
       PROVE  Serial' /\ \A n \in retained : bucket'[n] = bucket[n]
  <2>1. /\ Serial /\ OthersIdle(w) /\ k \notin retained
        /\ \A m \in Models : link[m] \notin job[w].keys
    BY <1>2, <1>4, <1>12 DEF Serial, JobIsCurrent
  <2>2. LinksAgree' /\ RetainedAreRetired'
    BY <1>6, <2>1 DEF Serial, LinksAgree, RetainedAreRetired
  <2>3. BytesAgree'
    BY <1>6, <1>7, <2>1 DEF Serial, BytesAgree, IInv, Overlapping, TypeOK
  <2>4. JobIsCurrent(w)'
    <3>1. job[w].keys \cap retained = {}
      BY <1>2, <2>1 DEF Serial, JobIsCurrent
    <3> QED BY <1>3, <1>5, <1>6, <2>1, <3>1 DEF JobIsCurrent, Opening, Verified
  <2>5. \A n \in retained : bucket'[n] = bucket[n]
    BY <1>7, <2>1 DEF IInv, Overlapping, TypeOK, Keys
  <2> QED BY <1>4, <2>1, <2>2, <2>3, <2>4, <2>5, SerialStep DEF IInv, Overlapping
<1> QED
  BY <1>8, <1>9, <1>10, <1>11, <1>12 DEF IInv, Overlapping
-----------------------------------------------------------------------------
(* The commit of a finalize: the one other image that may be available was *)
(* found by its search.                                                    *)
LEMMA LinkCommitStep ==
  ASSUME IInv, NEW w \in Workers, LinkCommit(w)
  PROVE  IInv'
<1> DEFINE a == job[w].asset
           m == ModelOf(w)
           S == job[w].superseded
           request == [pc |-> "cleaning", asset |-> a, keys |-> Superseded(w)]
<1>1. /\ job[w] \in Job /\ job[w] # Idle /\ job[w].pc = "retiring" /\ a \in Assets
      /\ asset[a] \in AssetRow /\ m \in Models /\ m = asset[a].model
      /\ S \in SUBSET Assets /\ job[w].previous \in Keys \cup {NoImage}
  BY AtWork, JobShape DEF LinkCommit, IInv, Overlapping, TypeOK, ModelOf
<1>2. /\ Continue(w, request) /\ UNCHANGED <<bucket, urls, retained>>
      /\ link' = [link EXCEPT ![m] = a]
  BY DEF LinkCommit
<1>3. Superseded(w) \in SUBSET Keys /\ Superseded(w) = (S \cup {job[w].previous}) \ {a, NoImage}
  BY <1>1 DEF Superseded, Keys
<1>4. /\ request \in Job /\ request.pc = "cleaning" /\ request.asset = a
      /\ request.keys = Superseded(w)
  BY <1>1, <1>3 DEF Job
<1> HIDE DEF request
<1>5. /\ job' = [job EXCEPT ![w] = request] /\ lapped' = lapped
      /\ ~lapped' => Serial /\ OthersIdle(w)
  BY <1>1, <1>2, ContinuesAlone
<1>6. job'[w] = request /\ \A v \in Workers : v # w => job'[v] = job[v]
  BY <1>5 DEF IInv, Overlapping, TypeOK
<1>7. \A b \in S : asset[b] \in AssetRow
  BY <1>1, RowShape DEF IInv, Overlapping, RetiresAll, TypeOK, Exists
<1>8. /\ asset'[a].status = "AVAILABLE"
      /\ \A b \in S \ {a} : asset'[b].status = "RETIRED"
      /\ \A b \in Assets \ (S \cup {a}) : asset'[b] = asset[b]
      /\ \A b \in S \cup {a} : asset'[b] \in AssetRow /\ asset'[b].model = asset[b].model
      /\ asset' \in [Assets -> {NoRow} \cup AssetRow]
  <2>1. asset' = [b \in Assets |->
                    IF b = a THEN [asset[b] EXCEPT !.status = "AVAILABLE"]
                    ELSE IF b \in S THEN [asset[b] EXCEPT !.status = "RETIRED"]
                         ELSE asset[b]]
    BY DEF LinkCommit
  <2>2. ASSUME NEW b \in S \cup {a}, NEW status \in {"AVAILABLE", "RETIRED"}
        PROVE  /\ [asset[b] EXCEPT !.status = status] \in AssetRow
               /\ [asset[b] EXCEPT !.status = status].status = status
               /\ [asset[b] EXCEPT !.status = status].model = asset[b].model
    BY <1>1, <1>7 DEF AssetRow
  <2>3. \A b \in Assets : asset[b] \in {NoRow} \cup AssetRow
    BY DEF IInv, Overlapping, TypeOK
  <2> QED BY <1>1, <2>1, <2>2, <2>3
<1>9. TypeOK'
  <2>1. link' \in [Models -> Keys \cup {NoImage}]
    BY <1>1, <1>2 DEF IInv, Overlapping, TypeOK, Keys
  <2> QED BY <1>2, <1>4, <1>5, <1>8, <2>1 DEF IInv, Overlapping, TypeOK
<1>10. \A b \in Assets : Exists(b) => Exists(b)' /\ asset'[b].model = asset[b].model
  BY <1>1, <1>8, RowShape DEF Exists
<1>11. JobsHaveRows'
  <2>1. \A v \in Workers : job[v] # Idle => job[v].asset \in Assets
    BY JobShape DEF IInv, Overlapping, TypeOK
  <2>2. Exists(a)
    BY <1>1, RowShape DEF Exists
  <2> QED BY <1>1, <1>4, <1>6, <1>10, <2>1, <2>2 DEF IInv, Overlapping, JobsHaveRows
<1>12. UploadsAreRequested'
  BY <1>2, <1>8 DEF IInv, Overlapping, UploadsAreRequested
<1>13. \A b \in Assets :
         asset'[b].status = "AVAILABLE" /\ b # a =>
           /\ b \notin S /\ asset'[b] = asset[b] /\ asset[b].model # m
  <2>1. AvailableFor(m) \subseteq S \cup {a}
    BY <1>1 DEF IInv, Overlapping, RetiresAll
  <2> QED BY <1>1, <1>8, <2>1 DEF AvailableFor
<1>14. OneAvailable'
  <2>1. asset'[a].model = m
    BY <1>1, <1>8
  <2> QED BY <1>13, <2>1 DEF IInv, Overlapping, OneAvailable
<1>15. RetiresAll'
  <2>1. SUFFICES ASSUME NEW v \in Workers, job'[v].pc = "retiring"
                 PROVE  /\ \A u \in Workers :
                             job'[u].pc = "retiring" /\ ModelOf(u)' = ModelOf(v)' => u = v
                        /\ (AvailableFor(ModelOf(v))
                               \subseteq job[v].superseded \cup {job[v].asset})'
                        /\ \A b \in job'[v].superseded : Exists(b)'
    BY DEF RetiresAll
  <2>2. \A u \in Workers :
          job'[u].pc = "retiring" =>
            /\ u # w /\ job'[u] = job[u] /\ ModelOf(u)' = ModelOf(u)
            /\ ModelOf(u) # m /\ job[u].superseded \subseteq Assets
    <3>1. SUFFICES ASSUME NEW u \in Workers, job'[u].pc = "retiring"
                   PROVE  /\ u # w /\ job'[u] = job[u] /\ ModelOf(u)' = ModelOf(u)
                          /\ ModelOf(u) # m /\ job[u].superseded \subseteq Assets
      OBVIOUS
    <3>2. u # w /\ job'[u] = job[u]
      BY <1>4, <1>6, <3>1
    <3>3. job[u].asset \in Assets /\ Exists(job[u].asset)
      BY <3>1, <3>2, AtWork, RowShape DEF IInv, Overlapping, Exists
    <3>4. ModelOf(u)' = ModelOf(u)
      BY <1>10, <3>2, <3>3 DEF ModelOf
    <3>5. ModelOf(u) # m
      BY <1>1, <3>1, <3>2 DEF IInv, Overlapping, RetiresAll
    <3>6. job[u].superseded \subseteq Assets
      BY <3>1, <3>2, JobShape DEF IInv, Overlapping, TypeOK
    <3> QED BY <3>2, <3>4, <3>5, <3>6
  <2>3. \A b \in Assets :
          asset'[b].status = "AVAILABLE" /\ asset'[b].model # m =>
            asset[b].status = "AVAILABLE" /\ asset'[b].model = asset[b].model
    BY <1>1, <1>8, <1>13
  <2>4. AvailableFor(ModelOf(v))' \subseteq AvailableFor(ModelOf(v))
    BY <2>1, <2>2, <2>3 DEF AvailableFor
  <2> QED BY <1>10, <2>1, <2>2, <2>4 DEF IInv, Overlapping, RetiresAll
<1>16. ASSUME ~lapped' PROVE Serial'
  <2>1. /\ Serial /\ OthersIdle(w) /\ Open(a) /\ bucket[a] # "none"
        /\ job[w].previous = link[m] /\ S \subseteq AvailableFor(m)
    BY <1>1, <1>5, <1>16 DEF Serial, JobIsCurrent, Opening, Verified
  <2>2. /\ link'[m] = a /\ \A n \in Models : n # m => link'[n] = link[n]
    BY <1>1, <1>2 DEF IInv, Overlapping, TypeOK
  <2>3. asset'[a].model = m
    BY <1>1, <1>8
  <2>4. \A n \in Models : link'[n] \in Assets \cup {n, NoImage}
    BY <1>1, <2>1, <2>2 DEF Serial, LinksAgree
  <2>5. ASSUME NEW b \in Assets, NEW n \in Models
        PROVE  link'[n] = b <=> asset'[b].status = "AVAILABLE" /\ asset'[b].model = n
    <3>1. link[n] = b <=> asset[b].status = "AVAILABLE" /\ asset[b].model = n
      BY <2>1 DEF Serial, LinksAgree
    <3>2. CASE b = a
      BY <1>8, <2>1, <2>2, <2>3, <3>1, <3>2 DEF Open
    <3>3. CASE b \in S /\ b # a
      BY <1>8, <2>1, <2>2, <3>1, <3>3 DEF AvailableFor
    <3>4. CASE b \notin S /\ b # a
      BY <1>8, <1>13, <2>2, <3>1, <3>4
    <3> QED BY <3>2, <3>3, <3>4
  <2>6. LinksAgree'
    BY <2>4, <2>5 DEF LinksAgree
  <2>7. BytesAgree'
    BY <1>2, <2>1, <2>2 DEF Serial, BytesAgree
  <2>8. RetainedAreRetired'
    BY <1>1, <1>2, <1>8, <2>1 DEF Serial, RetainedAreRetired, Open, AvailableFor,
       IInv, Overlapping, TypeOK
  <2>9. \A n \in Models : link'[n] \notin Superseded(w)
    <3>1. SUFFICES ASSUME NEW n \in Models, link'[n] \in Superseded(w) PROVE FALSE
      OBVIOUS
    <3>2. n # m /\ link'[n] = link[n]
      BY <1>3, <2>2, <3>1
    <3>3. link[n] \notin S
      BY <1>1, <2>1, <3>2 DEF Serial, LinksAgree, AvailableFor
    <3>4. link[n] = link[m] /\ link[n] # NoImage
      BY <1>3, <2>1, <3>1, <3>2, <3>3
    <3>5. link[n] \notin Assets
      BY <1>1, <2>1, <3>2, <3>4 DEF Serial, LinksAgree
    <3> QED BY <1>1, <2>1, <3>2, <3>4, <3>5 DEF Serial, LinksAgree
  <2>10. Superseded(w) \cap retained = {}
    <3>1. \A b \in S : b \notin retained
      BY <1>1, <2>1 DEF Serial, RetainedAreRetired, AvailableFor
    <3>2. link[m] \notin retained
      BY <1>1, <2>1 DEF Serial, LinksAgree, RetainedAreRetired, IInv, Overlapping, TypeOK
    <3> QED BY <1>3, <2>1, <3>1, <3>2
  <2>11. JobIsCurrent(w)'
    BY <1>2, <1>4, <1>6, <2>9, <2>10 DEF JobIsCurrent, Opening, Verified
  <2> QED BY <1>5, <2>1, <2>6, <2>7, <2>8, <2>11, SerialStep DEF IInv, Overlapping
<1> QED
  BY <1>9, <1>11, <1>12, <1>14, <1>15, <1>16 DEF IInv, Overlapping

LEMMA DeleteCommitStep ==
  ASSUME IInv, NEW w \in Workers, DeleteCommit(w)
  PROVE  IInv'
<1> DEFINE a == job[w].asset
           m == ModelOf(w)
<1>1. /\ job[w].pc = "unlinking" /\ job[w] # Idle /\ a \in Assets
      /\ m \in Models /\ m = asset[a].model
  BY AtWork DEF DeleteCommit, IInv, Overlapping, ModelOf
<1>2. /\ link' = link \/ link' = [link EXCEPT ![m] = NoImage]
      /\ link' \in [Models -> Keys \cup {NoImage}]
      /\ retained' = retained \cup {a} /\ bucket' = bucket /\ urls' = urls
      /\ retained' \in SUBSET Assets
  BY <1>1 DEF DeleteCommit, IInv, Overlapping, TypeOK
<1>3. /\ Overlapping' /\ JobIsCurrent(w)' /\ job' = [job EXCEPT ![w] = Idle]
      /\ asset'[a].status = "RETIRED" /\ asset'[a].model = m
      /\ \A b \in Assets : b # a => asset'[b] = asset[b]
      /\ ~lapped' => Serial /\ OthersIdle(w)
  <2>1. Finish(w) /\ SetStatus(a, "RETIRED")
    BY DEF DeleteCommit
  <2> QED BY <1>1, <1>2, <2>1, RowStep
<1>4. ASSUME ~lapped' PROVE Serial'
  <2>1. Serial /\ OthersIdle(w) /\ job[w].linked = (link[m] = a)
    BY <1>1, <1>3, <1>4 DEF Serial, JobIsCurrent
  <2>2. /\ link'[m] = IF link[m] = a THEN NoImage ELSE link[m]
        /\ \A n \in Models : n # m => link'[n] = link[n]
    BY <1>1, <2>1 DEF DeleteCommit, IInv, Overlapping, TypeOK
  <2>3. LinksAgree'
    <3>1. \A n \in Models : link'[n] \in Assets \cup {n, NoImage}
      BY <1>1, <2>1, <2>2 DEF Serial, LinksAgree
    <3>2. ASSUME NEW b \in Assets, NEW n \in Models
          PROVE  link'[n] = b <=> asset'[b].status = "AVAILABLE" /\ asset'[b].model = n
      <4>1. link[n] = b <=> asset[b].status = "AVAILABLE" /\ asset[b].model = n
        BY <2>1 DEF Serial, LinksAgree
      <4>2. b # NoImage
        BY AssetAssumption
      <4>3. CASE b = a
        BY <1>1, <1>3, <2>2, <4>1, <4>2, <4>3
      <4>4. CASE b # a
        BY <1>1, <1>3, <2>2, <4>1, <4>2, <4>4
      <4> QED BY <4>3, <4>4
    <3> QED BY <3>1, <3>2 DEF LinksAgree
  <2>4. BytesAgree'
    BY <1>2, <2>1, <2>2 DEF Serial, BytesAgree
  <2>5. RetainedAreRetired'
    BY <1>1, <1>2, <1>3, <2>1 DEF Serial, RetainedAreRetired, IInv, Overlapping, TypeOK
  <2> QED BY <1>3, <2>1, <2>3, <2>4, <2>5, SerialStep DEF IInv, Overlapping
<1> QED
  BY <1>3, <1>4 DEF IInv
-----------------------------------------------------------------------------
LEMMA PutStep ==
  ASSUME IInv, NEW a \in Assets, NEW bytes \in Bytes, Put(a, bytes)
  PROVE  IInv' /\ \A k \in Keys : bucket[k] # "none" => bucket'[k] # "none"
<1>1. bucket' \in [Keys -> Bytes \cup {"none"}]
  BY DEF Put, IInv, Overlapping, TypeOK
<1>2. \A k \in Keys : (k = a /\ bucket'[k] = bytes) \/ bucket'[k] = bucket[k]
  BY DEF Put, IInv, Overlapping, TypeOK
<1>3. bytes # "none" /\ a \in urls
  BY DEF Bytes, Put
<1>4. \A k \in Keys : bucket[k] # "none" => bucket'[k] # "none"
  BY <1>2, <1>3
<1>5. /\ UNCHANGED <<asset, link, job, lapped, retained>> /\ urls' \in SUBSET urls
      /\ \A k \in Keys : k \in urls \/ bucket'[k] = bucket[k]
  BY <1>2, <1>3 DEF Put
<1> QED
  BY <1>1, <1>4, <1>5, ClientStep

LEMMA ExpireStep ==
  ASSUME IInv, NEW a \in Assets, Expire(a)
  PROVE  IInv'
<1>1. /\ UNCHANGED <<asset, link, bucket, job, lapped, retained>>
      /\ urls' \in SUBSET urls /\ bucket \in [Keys -> Bytes \cup {"none"}]
  BY DEF Expire, IInv, Overlapping, TypeOK
<1> QED
  BY <1>1, ClientStep

LEMMA Inductive ==
  ASSUME IInv, [Next]_vars
  PROVE  IInv'
<1>1. CASE UNCHANGED vars
  <2>1. /\ UNCHANGED <<asset, link, job, lapped, retained>>
        /\ urls' \in SUBSET urls /\ bucket' = bucket
        /\ bucket \in [Keys -> Bytes \cup {"none"}]
    BY <1>1 DEF vars, IInv, Overlapping, TypeOK
  <2> QED BY <2>1, ClientStep
<1>2. ASSUME NEW a \in Assets, Client(a) PROVE IInv'
  BY <1>2, CreateStep, PutStep, ExpireStep DEF Client
<1>3. ASSUME NEW w \in Workers, Upload(w) PROVE IInv'
  <2>1. ASSUME NEW a \in Assets, UploadLoad(w, a) PROVE IInv'
    BY <2>1, LoadStep DEF UploadLoad
  <2> QED BY <1>3, <2>1, UploadCommitStep DEF Upload
<1>4. ASSUME NEW w \in Workers, Finalize(w) PROVE IInv'
  <2>1. ASSUME NEW a \in Assets, FinalizeLoad(w, a) PROVE IInv'
    BY <2>1, LoadStep DEF FinalizeLoad
  <2> QED
    BY <1>4, <2>1, VerifyStep, QuarantineStep, LinkReadStep, LinkModelStep,
       LinkCommitStep, CleanUpStep, AnswerStep DEF Finalize
<1>5. ASSUME NEW w \in Workers, Delete(w) PROVE IInv'
  <2>1. ASSUME NEW a \in Assets, DeleteLoad(w, a) PROVE IInv'
    BY <2>1, LoadStep DEF DeleteLoad
  <2> QED BY <1>5, <2>1, DeleteReadStep, DeleteCommitStep DEF Delete
<1>6. ASSUME NEW w \in Workers, Abort(w) PROVE IInv'
  BY <1>6, AbortStep DEF Abort
<1> QED
  BY <1>1, <1>2, <1>3, <1>4, <1>5, <1>6 DEF Next

LEMMA Invariance == Spec => []IInv
<1>1. IInv /\ [Next]_vars => IInv'
  BY Inductive
<1> QED
  BY <1>1, Initial, PTL DEF Spec
-----------------------------------------------------------------------------
(* Rows, links, objects and requests keep their types: no request reaches  *)
(* a write with a row that is not there or a key that is none.             *)
THEOREM TypeCorrect == Spec => []TypeOK
<1>1. IInv => TypeOK
  BY DEF IInv, Overlapping
<1> QED
  BY <1>1, Invariance, PTL

(* However many requests overlap, a model has one available image at most. *)
THEOREM OneImage == Spec => []OneAvailable
<1>1. IInv => OneAvailable
  BY DEF IInv, Overlapping
<1> QED
  BY <1>1, Invariance, PTL

(* While requests do not overlap, a model shows an image exactly when it   *)
(* is available.                                                           *)
THEOREM LinksAreAvailable == Spec => []LinkedIsAvailable
<1>1. IInv => LinkedIsAvailable
  <2>1. ASSUME IInv, ~lapped, NEW a \in Assets
        PROVE  asset[a].status = "AVAILABLE" <=> \E m \in Models : link[m] = a
    <3>1. LinksAgree
      BY <2>1 DEF IInv, Serial
    <3>2. asset[a].status = "AVAILABLE" => asset[a].model \in Models
      BY <2>1, RowShape DEF IInv, Overlapping, TypeOK, AssetRow, NoRow
    <3> QED BY <3>1, <3>2 DEF LinksAgree
  <2> QED BY <2>1 DEF LinkedIsAvailable
<1> QED
  BY <1>1, Invariance, PTL

(* While requests do not overlap, what a model shows has bytes.            *)
THEOREM LinksHaveBytes == Spec => []LinkedHasBytes
<1>1. IInv => LinkedHasBytes
  BY DEF IInv, Serial, BytesAgree, LinkedHasBytes
<1> QED
  BY <1>1, Invariance, PTL

(* While requests do not overlap, no later finalize deletes the bytes that *)
(* a DELETE retained.                                                      *)
THEOREM RetainedKept == Spec => RetainedStay
<1> DEFINE Kept == ~lapped' =>
             \A a \in retained : bucket[a] # "none" => bucket'[a] # "none"
<1>1. ASSUME IInv, [Next]_vars PROVE [Kept]_vars
  <2>1. retained \subseteq Keys
    BY <1>1 DEF IInv, Overlapping, TypeOK, Keys
  <2>2. ASSUME NEW a \in Assets, NEW bytes \in Bytes, Put(a, bytes) PROVE Kept
    BY <1>1, <2>1, <2>2, PutStep
  <2>3. ASSUME NEW w \in Workers, CleanUp(w) PROVE Kept
    BY <1>1, <2>3, CleanUpStep
  <2>4. CASE UNCHANGED bucket
    BY <2>4
  <2>5. CASE UNCHANGED vars
    BY <2>5
  <2>6. ASSUME NEW a \in Assets, Client(a) PROVE Kept
    BY <2>2, <2>4, <2>6 DEF Client, Create, Expire
  <2>7. ASSUME NEW w \in Workers, Upload(w) \/ Delete(w) \/ Abort(w) PROVE Kept
    BY <2>4, <2>7 DEF Upload, UploadLoad, UploadCommit, Delete, DeleteLoad,
       DeleteRead, DeleteCommit, Abort
  <2>8. ASSUME NEW w \in Workers, Finalize(w) PROVE Kept
    BY <2>3, <2>4, <2>8 DEF Finalize, FinalizeLoad, Verify, Quarantine, LinkRead,
       LinkModel, LinkCommit, Answer
  <2> QED BY <1>1, <2>5, <2>6, <2>7, <2>8 DEF Next
<1> QED
  BY <1>1, Invariance, PTL DEF Spec, RetainedStay

(* While requests do not overlap, an asset never goes back.                *)
THEOREM NeverGoesBack == Spec => OnlyMovesOn
<1> DEFINE Goes(a) == asset'[a].status # asset[a].status =>
                        <<asset[a].status, asset'[a].status>> \in Moves
           Forward == ~lapped' => \A a \in Assets : Goes(a)
<1>1. ASSUME IInv, [Next]_vars PROVE [Forward]_vars
  <2> USE <1>1
  <2>1. CASE UNCHANGED asset
    BY <2>1
  <2>2. ASSUME NEW a \in Assets, NEW m \in Models, Create(a, m) PROVE Forward
    BY <2>2 DEF Create, NoRow, Moves, IInv, Overlapping, TypeOK
  <2>3. ASSUME NEW w \in Workers, job[w] # Idle, NEW status,
               SetStatus(job[w].asset, status)
        PROVE  /\ job[w].asset \in Assets
               /\ \A b \in Assets : b # job[w].asset => asset'[b] = asset[b]
               /\ asset'[job[w].asset].status = status
    <3>1. job[w].pc # "idle"
      BY <2>3, JobShape DEF IInv, Overlapping, TypeOK
    <3>2. job[w].asset \in Assets /\ asset[job[w].asset] \in AssetRow
      BY <3>1, AtWork DEF IInv, Overlapping
    <3> QED BY <2>3, <3>2 DEF SetStatus, AssetRow, IInv, Overlapping, TypeOK
  <2>4. ASSUME NEW w \in Workers, job[w].pc \in Opening
        PROVE  /\ job[w] # Idle
               /\ ~lapped => Open(job[w].asset)
               /\ ~lapped /\ job[w].pc \in Verified =>
                    asset[job[w].asset].status = "UPLOAD_REQUESTED"
    <3>1. job[w].asset \in Assets /\ job[w] # Idle
      BY <2>4, AtWork DEF Opening, IInv, Overlapping
    <3>2. ~lapped => Open(job[w].asset)
      BY <2>4 DEF IInv, Serial, JobIsCurrent
    <3>3. ~lapped /\ job[w].pc \in Verified => bucket[job[w].asset] # "none"
      BY DEF IInv, Serial, JobIsCurrent
    <3> QED BY <3>1, <3>2, <3>3 DEF IInv, Overlapping, UploadsAreRequested, Open
  <2>5. ASSUME NEW w \in Workers, UploadCommit(w) PROVE Forward
    BY <2>3, <2>4, <2>5
       DEF UploadCommit, Opening, Finish, Continue, Open, Moves
  <2>6. ASSUME NEW w \in Workers, Quarantine(w) PROVE Forward
    BY <2>3, <2>4, <2>6
       DEF Quarantine, Opening, Verified, Finish, Continue, Moves
  <2>7. ASSUME NEW w \in Workers, DeleteCommit(w) PROVE Forward
    <3>1. ~lapped => Found(job[w].asset)
      BY <2>7 DEF DeleteCommit, IInv, Serial, JobIsCurrent
    <3>2. job[w] # Idle /\ lapped' = lapped /\ SetStatus(job[w].asset, "RETIRED")
      BY <2>7 DEF DeleteCommit, Idle, Finish, Continue
    <3>3. /\ job[w].asset \in Assets
          /\ \A b \in Assets : b # job[w].asset => asset'[b] = asset[b]
          /\ asset'[job[w].asset].status = "RETIRED"
      BY <2>3, <3>2
    <3>4. asset[job[w].asset] \in {NoRow} \cup AssetRow
      BY <3>3 DEF IInv, Overlapping, TypeOK
    <3> QED BY <3>1, <3>2, <3>3, <3>4 DEF Found, Moves, NoRow, AssetRow
  <2>8. ASSUME NEW w \in Workers, LinkCommit(w) PROVE Forward
    <3>1. job[w].pc = "retiring" /\ lapped' = lapped
      BY <2>8 DEF LinkCommit, Continue
    <3>2. /\ job[w] \in Job /\ job[w].asset \in Assets
          /\ asset[job[w].asset] \in AssetRow
      BY <3>1, AtWork DEF IInv, Overlapping
    <3>3. ~lapped => /\ asset[job[w].asset].status = "UPLOAD_REQUESTED"
                     /\ \A b \in job[w].superseded : asset[b].status = "AVAILABLE"
      <4>1. ~lapped => job[w].superseded \subseteq AvailableFor(ModelOf(w))
        BY <3>1 DEF IInv, Serial, JobIsCurrent
      <4> QED BY <2>4, <3>1, <4>1 DEF Opening, Verified, AvailableFor
    <3>4. ASSUME ~lapped, NEW b \in Assets PROVE Goes(b)
      <4>1. asset[b] \in {NoRow} \cup AssetRow
        BY DEF IInv, Overlapping, TypeOK
      <4>2. CASE b = job[w].asset
        <5>1. asset'[b].status = "AVAILABLE"
          BY <2>8, <3>2, <4>2 DEF LinkCommit, AssetRow
        <5> QED BY <3>3, <3>4, <4>2, <5>1 DEF Moves
      <4>3. CASE b # job[w].asset /\ b \in job[w].superseded
        <5>1. asset[b] \in AssetRow
          BY <3>3, <3>4, <4>1, <4>3 DEF NoRow
        <5>2. asset'[b].status = "RETIRED"
          BY <2>8, <4>3, <5>1 DEF LinkCommit, AssetRow
        <5> QED BY <3>3, <3>4, <4>3, <5>2 DEF Moves
      <4>4. CASE b # job[w].asset /\ b \notin job[w].superseded
        BY <2>8, <4>4 DEF LinkCommit
      <4> QED BY <4>2, <4>3, <4>4
    <3> QED BY <3>1, <3>4
  <2>9. ASSUME NEW w \in Workers, Upload(w) \/ Finalize(w) \/ Delete(w) \/ Abort(w)
        PROVE  Forward
    BY <2>1, <2>5, <2>6, <2>7, <2>8, <2>9
       DEF Upload, UploadLoad, Finalize, FinalizeLoad, Verify, LinkRead, LinkModel,
           CleanUp, Answer, Delete, DeleteLoad, DeleteRead, Abort
  <2>10. ASSUME NEW a \in Assets, Client(a) PROVE Forward
    BY <2>1, <2>2, <2>10 DEF Client, Put, Expire
  <2> QED BY <2>9, <2>10 DEF Next
<1> QED
  BY <1>1, Invariance, PTL DEF Spec, OnlyMovesOn
=============================================================================
