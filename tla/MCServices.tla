----------------------------- MODULE MCServices ------------------------------
(***************************************************************************)
(* Small instances, for TLC, of the services that share no row with one    *)
(* another.  A behaviour is one of one service ("part"), which the         *)
(* variables of the others sit out:                                        *)
(*                                                                         *)
(*   commands    the claims of commands (CommandIdempotency)               *)
(*   acks        the same when acknowledgements of commits may be lost,    *)
(*               and nothing else fails                                    *)
(*   creates     the claims of catalog creates, with crashes               *)
(*               (CatalogIdempotency)                                      *)
(*   versions    edits under a row version (RowVersions)                   *)
(*   lists       a walk through the pages of a list (Collections)          *)
(*   intake      the files of an upload (SourceIntake)                     *)
(*   cache       answers and rows the legacy services cache (EntityCache)  *)
(*   seed        the seed script on a database in use (Seeding)            *)
(***************************************************************************)
EXTENDS CommandIdempotency, Integers, TLC

CONSTANTS
    Pair, CreateKeys,                    \* requests of acks, keys of creates
    Rows, Databases, Clients, MaxWrites, \* rows and their editors
    r1, r2,
    Ids, Limit, MaxChanges,              \* a list
    Names, MaxArtifacts,                 \* an upload
    Kinds, MaxRequests,                  \* cached rows
    Uses, Takes, Pasts, MaxUses          \* a database to be seeded

VARIABLES
    part,
    claims, request, written, told,
    table, draft, row, writes, cited, shown, edit, tags, lapped,
    list, listed, changes, page, counted, found, walked, lasting, disturbed, torn,
    upload, run, stored, statuses, at, failures,
    served, entity, entities, cache, connected, call, requests, unsteady,
    slot, made, uses, seedRun

Acks == INSTANCE CommandIdempotency
    WITH Workers <- Pair, Faults <- {"ACK_LOST"},
         rows <- claims, job <- request, committed <- written, answers <- told
Creates == INSTANCE CatalogIdempotency
    WITH Scopes <- CreateKeys, Faults <- {"CRASH", "PERSIST_FAILS"},
         rows <- claims, job <- request, committed <- written, answers <- told
Versions == INSTANCE RowVersions WITH seen <- shown, job <- edit
(* A model with a part of it, and pairs of unrelated rows.                 *)
MCDatabases ==
    {r1 :> "model" @@ r2 :> "modelPart",
     r1 :> "product" @@ r2 :> "machine",
     r1 :> "dailySheet" @@ r2 :> "stationBoard"}
Listing == INSTANCE Collections WITH rows <- listed, seen <- walked
Intake == INSTANCE SourceIntake
Cached == INSTANCE EntityCache
    WITH Jobs <- Pair, row <- entity, rows <- entities, job <- call,
         disturbed <- unsteady
Seed == INSTANCE Seeding WITH job <- seedRun

ASSUME ServicesAssumption ==
    /\ Databases \subseteq [Rows -> Versions!Tables]
    /\ Uses \cup Pasts \subseteq DOMAIN Seed!TableOf
    /\ Takes \subseteq Seed!Tables \ {"machine"}
    /\ Ids \subseteq Nat \ {0}
    /\ Limit \in Nat \ {0}
    /\ Kinds \subseteq {"employee", "product", "workspace"}

AnyId == CHOOSE id \in ClaimIds : TRUE

claimVars == <<claims, request, written, told>>
versionVars == <<table, draft, row, writes, cited, shown, edit, tags, lapped>>
listVars ==
    <<list, listed, changes, page, counted, found, walked, lasting, disturbed, torn>>
intakeVars == <<upload, run, stored, statuses, at, failures>>
cacheVars == <<entity, entities, cache, connected, call, requests, unsteady>>
seedVars == <<slot, made, uses, seedRun>>

Parts == {"commands", "acks", "creates", "versions", "lists", "intake", "cache", "seed"}

MCInit ==
    /\ part \in Parts
    /\ Init
    /\ IF part = "acks" THEN Acks!Init ELSE Creates!Init
    /\ Versions!Init
    /\ part # "versions" => table[r1] = "product" /\ draft = {}
    /\ Listing!Init
    /\ part # "lists" => list = Listing!Stages /\ listed = <<>>
    /\ Intake!Init
    /\ part # "intake" => upload = <<>>
    /\ Cached!Init
    /\ served \in Kinds
    /\ part # "cache" => connected /\ served = "product"
    /\ Seed!Init
    /\ part # "seed" => made = {}

(* Rows of different kinds share no key: the requests are about one kind.  *)
CacheNext ==
    /\ Cached!Next
    /\ \A w \in Pair : call'[w] # Cached!Idle => call'[w].kind = served

MCNext ==
    /\ UNCHANGED <<part, served>>
    /\ IF part = "commands" THEN Next ELSE UNCHANGED vars
    /\ CASE part = "acks" -> Acks!Next
         [] part = "creates" -> Creates!Next
         [] OTHER -> UNCHANGED claimVars
    /\ IF part = "versions" THEN Versions!Next ELSE UNCHANGED versionVars
    /\ IF part = "lists" THEN Listing!Next ELSE UNCHANGED listVars
    /\ IF part = "intake" THEN Intake!Next ELSE UNCHANGED intakeVars
    /\ IF part = "cache" THEN CacheNext ELSE UNCHANGED cacheVars
    /\ IF part = "seed" THEN Seed!Next ELSE UNCHANGED seedVars

(* A request that is being handled keeps being handled: its promises       *)
(* settle in the process that awaits them.  Nothing obliges a client to    *)
(* send one, an operator to act or a process to be there.  What has a time *)
(* to live expires.                                                        *)
MCFairness ==
    /\ \A w \in Pair : WF_claimVars(part = "acks" /\ Acks!Step(w))
    /\ WF_intakeVars(part = "intake" /\ Intake!Work)
    /\ WF_cacheVars(part = "cache" /\ \E w \in Pair : Cached!Work(w))
    /\ WF_cacheVars(part = "cache" /\ \E key \in Cached!Keys : Cached!Expire(key))
MCSpec ==
    /\ MCInit
    /\ [][MCNext]_<<part, served, vars, claimVars, versionVars, listVars, intakeVars,
                   cacheVars, seedVars>>
    /\ MCFairness
-----------------------------------------------------------------------------
(* A command that fails gives its key back: without crashes and lost       *)
(* deletes no claim stays pending for ever (CommandIdempotency).  Ids are  *)
(* interchangeable, so one stands for all.                                 *)
Pending ==
    part = "acks" /\ \E r \in claims : r.id = AnyId /\ r.status = "PENDING"
ClaimsAreResolved == Pending ~> ~Pending

(* While the claim of a committed create stands, stored or not, crashed or *)
(* not, its key commits no other (CatalogIdempotency).                     *)
StandingClaimIsFinal ==
    [][part = "creates" =>
         \A c \in written' \ written, d \in written :
            d.scope = c.scope => d.claim \notin {r.id : r \in claims}]_claimVars

(* A version names one content of its row, until two requests overlap on a *)
(* sheet (RowVersions).                                                    *)
VersionNamesContent == Versions!VersionNamesContent

(* Until two requests overlap, nobody writes over what has changed since   *)
(* it was given the tag it sends (RowVersions).                            *)
NoLostUpdate == Versions!NoLostUpdate

(* A walk through a list finds every row that was there from the start and *)
(* was not itself updated (Collections).                                   *)
OldRowsAreSeen == Listing!OldRowsAreSeen

(* The status of a run tells what its artifacts are (SourceIntake).        *)
StatusTellsArtifacts == Intake!StatusTellsArtifacts

(* No single failed call leaves a run RUNNING for ever (SourceIntake).     *)
RunsEnd == Intake!RunsEnd

(* Once a write has been answered, no key its sweep covers holds what was  *)
(* there before (EntityCache).                                             *)
SweptIsCurrent == Cached!SweptIsCurrent

(* Where answers are cached there are answers, and rows where rows are     *)
(* (EntityCache).                                                          *)
WrappedOnce == Cached!WrappedOnce

(* What an overtaken read left behind does not stay (EntityCache).         *)
StaleEntriesGo == Cached!StaleEntriesGo

(* No step of the seed script is refused but for one of the causes that    *)
(* are known (Seeding).                                                    *)
NeverStuck == Seed!NeverStuck

(* A fresh run leaves nothing of what was there before (Seeding).          *)
FreshIsFresh == Seed!FreshIsFresh

(* A run leaves all the rows of the seed, and resets them (Seeding).       *)
RunsRestoreSeed == Seed!RunsRestoreSeed
=============================================================================
