--------------------------- MODULE KnowledgeIndex ---------------------------
(***************************************************************************)
(* Indexing of knowledge sources: RequestIndex makes a job and its task,   *)
(* knowledgeTaskWorker.run embeds the sources into a generation of vectors *)
(* that it stages, promotes and binds to the sources, while the owner      *)
(* cancels tasks, deletes sources and moves the embedding profile, leases  *)
(* are lost and the sweep removes what ended jobs left.                    *)
(*                                                                         *)
(* Abstractions.  A generation is named by its job.  A source's revision   *)
(* changes only when it leaves "ready" for good, so its status stands for  *)
(* it.  A source's vectors are written by one upsert.  The pool renews or  *)
(* loses a lease at any time; attempt and lease epoch move together.       *)
(***************************************************************************)
EXTENDS Integers, FiniteSets

CONSTANTS KISources,
          KIJobs,       \* 1..n: the index jobs, in the order of their requests
          KIProfiles,   \* embedding profiles; 0 is the nil profile
          KIClaims,     \* bound on the claims of one task
          KISettings    \* bounds: [jobs, faults, binds, edits, deletes, calm]

ASSUME KnowledgeIndexAssumption ==
    /\ IsFiniteSet(KISources) /\ KISources \subseteq Nat /\ IsFiniteSet(KIJobs)
    /\ KIJobs \subseteq Nat \ {0} /\ KIProfiles \subseteq Nat \ {0} /\ 1 \in KIProfiles
    /\ KIClaims \in Nat
    /\ KISettings \subseteq [jobs : Nat, faults : Nat, binds : Nat, edits : Nat, deletes : Nat,
                              calm : BOOLEAN]
    /\ \A b \in KISettings : b.calm => b.faults = 0

VARIABLES
    kiconfig,  \* core_knowledge_embedding_config: the bound profile
    kiprof,    \* revision of each profile, 0 once deleted
    kisrc,     \* core_knowledge_sources: [status, gen, prof]
    kijob,     \* core_knowledge_index_jobs: [status, srcs, prof, prev]
    kitask,    \* core_tasks: [status, epoch, held]
    kislots,   \* running_count
    kigen,     \* core_knowledge_vector_generations: state
    kivec,     \* core_knowledge_vectors: state, per generation and source
    kitomb,    \* core_knowledge_generation_cleanup: kind, per generation and source
    kistage,   \* generations with a row in core_knowledge_index_stages
    kirefs,    \* core_model_profile_active_refs of kind knowledge_generation
    kihand,    \* handlers: [pc, todo], per job and epoch
    kileft     \* what is left of the bounds

kiRows == <<kiconfig, kiprof, kisrc, kijob, kitask, kislots, kirefs>>
kiVectors == <<kigen, kivec>>
kiVars == <<kiRows, kiVectors, kitomb, kistage, kihand, kileft>>

KIEpochs == 1..KIClaims
NoHandler == [pc |-> "none", todo |-> {}]

KIInit ==
    /\ kiconfig = 1 /\ kiprof = [p \in KIProfiles |-> 1]
    /\ kisrc = [s \in KISources |-> [status |-> "ready", gen |-> 0, prof |-> 0]]
    /\ kijob = [j \in KIJobs |-> [status |-> "none", srcs |-> {}, prof |-> 0, prev |-> 0]]
    /\ kitask = [j \in KIJobs |-> [status |-> "none", epoch |-> 0, held |-> FALSE]]
    /\ kislots = 0
    /\ kigen = [j \in KIJobs |-> "none"]
    /\ kivec = [j \in KIJobs |-> [s \in KISources |-> "none"]]
    /\ kitomb = [j \in KIJobs |-> [s \in KISources |-> "none"]]
    /\ kistage = {} /\ kirefs = {}
    /\ kihand = [j \in KIJobs |-> [e \in KIEpochs |-> NoHandler]]
    /\ kileft \in KISettings

JobLive(j) == kijob[j].status \in {"queued", "running"}
KIRunning(j) == kitask[j].status = "running"

KISpend(bound) == kileft[bound] > 0 /\ kileft' = [kileft EXCEPT ![bound] = @ - 1]

-----------------------------------------------------------------------------
(* RequestIndex and currentBindingTx: every source is ready and the bound  *)
(* profile exists; a live job of the same sources is returned instead.     *)
RequestIndex(srcs) ==
    LET fresh == {j \in KIJobs : kijob[j].status = "none"}
        j == CHOOSE k \in fresh : \A l \in fresh : k <= l
    IN
    /\ fresh # {} /\ KISpend("jobs")
    /\ kiconfig # 0 /\ kiprof[kiconfig] # 0
    /\ \A s \in srcs : kisrc[s].status = "ready"
    /\ kijob' = [kijob EXCEPT ![j] = [status |-> "queued", srcs |-> srcs, prof |-> kiconfig,
                                      prev |-> kiprof[kiconfig]]]
    /\ kitask' = [kitask EXCEPT ![j].status = "queued"]
    /\ kirefs' = kirefs \cup {<<"job", j, kiconfig>>}
    /\ kistage' = kistage \cup {j}
    /\ kisrc' = [s \in KISources |-> IF s \in srcs THEN [kisrc[s] EXCEPT !.status = "indexing"] ELSE kisrc[s]]
    /\ UNCHANGED <<kiconfig, kiprof, kislots, kiVectors, kitomb, kihand>>

(* ClaimNextDue: a queued task takes a slot, one whose lease ran out is    *)
(* taken over under the next epoch.                                        *)
ClaimIndexTask(j) ==
    /\ kitask[j].epoch < KIClaims
    /\ \/ kitask[j].status = "queued" /\ kislots' = kislots + 1
       \/ KIRunning(j) /\ ~kitask[j].held /\ UNCHANGED kislots
    /\ kitask' = [kitask EXCEPT ![j] = [status |-> "running", epoch |-> @.epoch + 1, held |-> TRUE]]
    /\ kihand' = [kihand EXCEPT ![j][kitask[j].epoch + 1] = [pc |-> "start", todo |-> kijob[j].srcs]]
    /\ UNCHANGED <<kiconfig, kiprof, kisrc, kijob, kirefs, kiVectors, kitomb, kistage, kileft>>

IndexLeaseLost(j) ==
    /\ KIRunning(j) /\ kitask[j].held /\ KISpend("faults")
    /\ kitask' = [kitask EXCEPT ![j].held = FALSE]
    /\ UNCHANGED <<kiconfig, kiprof, kisrc, kijob, kislots, kirefs, kiVectors, kitomb, kistage, kihand>>

-----------------------------------------------------------------------------
(* checkTaskFence.                                                         *)
checkTaskFence(j, e) == KIRunning(j) /\ kitask[j].epoch = e /\ kitask[j].held

HandlerGoes(j, e, pc) == kihand' = [kihand EXCEPT ![j][e].pc = pc]
HandlerStops(j, e) == kihand' = [kihand EXCEPT ![j][e] = NoHandler]

(* A cleanup that does not spare what was promoted.                        *)
DeleteWholeGeneration(j) ==
    /\ kivec' = [kivec EXCEPT ![j] = [s \in KISources |-> "none"]]
    /\ kigen' = [kigen EXCEPT ![j] = "none"]

(* DeleteStagingGeneration: staged vectors, and the generation's row while *)
(* it is staged.                                                           *)
DeleteStagingGeneration(j) ==
    /\ kivec' = [kivec EXCEPT ![j] = [s \in KISources |-> IF @[s] = "staged" THEN "none" ELSE @[s]]]
    /\ kigen' = [kigen EXCEPT ![j] = IF @ = "staged" THEN "none" ELSE @]

(* DeletePromotedGeneration: the promoted vectors of these sources, and a  *)
(* promoted generation that is left empty.                                 *)
DeletePromotedGeneration(j, srcs) ==
    /\ kivec' = [kivec EXCEPT ![j] =
                   [s \in KISources |-> IF s \in srcs /\ @[s] = "promoted" THEN "none" ELSE @[s]]]
    /\ kigen' = [kigen EXCEPT ![j] =
                   IF @ = "promoted" /\ \A s \in KISources : kivec'[j][s] = "none" THEN "none" ELSE @]

(* The task leaves running and gives its slot back.                        *)
TaskEnds(j, status) ==
    /\ kitask' = [kitask EXCEPT ![j].status = status, ![j].held = FALSE]
    /\ kislots' = IF KIRunning(j) THEN kislots - 1 ELSE kislots

SourcesReady(srcs) ==
    [s \in KISources |-> IF s \in srcs /\ kisrc[s].status = "indexing"
                         THEN [kisrc[s] EXCEPT !.status = "ready"] ELSE kisrc[s]]

Tombstones(j, kind) ==
    [s \in KISources |-> IF s \in kijob[j].srcs /\ kitomb[j][s] = "none" THEN kind ELSE kitomb[j][s]]

CanceledTombstones(j) ==
    [s \in KISources |-> IF s \in kijob[j].srcs THEN "canceled_staging" ELSE kitomb[j][s]]

(* fail: job, sources, task, slot and pin together, under the fence.       *)
Fails(j, e) ==
    IF checkTaskFence(j, e)
    THEN /\ kijob' = [kijob EXCEPT ![j].status = IF JobLive(j) THEN "failed" ELSE @]
         /\ kitomb' = [kitomb EXCEPT ![j] = Tombstones(j, "staging")]
         /\ kisrc' = SourcesReady(kijob[j].srcs)
         /\ TaskEnds(j, "failed")
         /\ kirefs' = {r \in kirefs : r[1] # "job" \/ r[2] # j}
    ELSE UNCHANGED <<kijob, kitomb, kisrc, kitask, kislots, kirefs>>

(* The handler returns an error it does not own: the pool fails the task,  *)
(* under the fence, and knows nothing of the job.                          *)
PoolFails(j, e) ==
    IF checkTaskFence(j, e) THEN TaskEnds(j, "failed") ELSE UNCHANGED <<kitask, kislots>>

FailStep(j, e) ==
    /\ Fails(j, e) /\ HandlerStops(j, e)
    /\ UNCHANGED <<kiconfig, kiprof, kistage, kileft>>

(* run, up to markRunning: the job is live and its profile unchanged.      *)
ReadJob(j, e) ==
    /\ kihand[j][e].pc = "start"
    /\ \/ /\ ~JobLive(j) /\ HandlerStops(j, e)
          /\ UNCHANGED <<kiRows, kiVectors, kitomb, kistage, kileft>>
       \/ /\ JobLive(j) /\ kiprof[kijob[j].prof] # kijob[j].prev
          /\ FailStep(j, e) /\ UNCHANGED kiVectors
       \/ /\ JobLive(j) /\ kiprof[kijob[j].prof] = kijob[j].prev
          /\ HandlerGoes(j, e, "mark")
          /\ UNCHANGED <<kiRows, kiVectors, kitomb, kistage, kileft>>

(* markRunning and ensureStageTombstone, and the fence before the first    *)
(* call of the vector store.                                               *)
MarkRunning(j, e) ==
    /\ kihand[j][e].pc = "mark"
    /\ IF JobLive(j)
       THEN /\ kijob' = [kijob EXCEPT ![j].status = "running"]
            /\ kitomb' = [kitomb EXCEPT ![j] = Tombstones(j, "staging")]
            /\ IF checkTaskFence(j, e) THEN HandlerGoes(j, e, "ensure") ELSE HandlerStops(j, e)
            /\ UNCHANGED <<kitask, kislots>>
       ELSE /\ PoolFails(j, e) /\ HandlerStops(j, e)
            /\ UNCHANGED <<kijob, kitomb>>
    /\ UNCHANGED <<kiconfig, kiprof, kisrc, kirefs, kiVectors, kistage, kileft>>

(* EnsureGeneration.                                                       *)
Ensured(j) == [kigen EXCEPT ![j] = IF @ = "none" THEN "staged" ELSE @]

EnsureGeneration(j, e) ==
    /\ kihand[j][e].pc = "ensure"
    /\ kigen' = Ensured(j)
    /\ HandlerGoes(j, e, "ensured")
    /\ UNCHANGED <<kiRows, kivec, kitomb, kistage, kileft>>

(* The fence after EnsureGeneration.                                       *)
CheckEnsured(j, e) ==
    /\ kihand[j][e].pc = "ensured"
    /\ IF checkTaskFence(j, e)
       THEN HandlerGoes(j, e, "source") /\ UNCHANGED kiVectors
       ELSE HandlerStops(j, e) /\ DeleteStagingGeneration(j)
    /\ UNCHANGED <<kiRows, kitomb, kistage, kileft>>

NextSource(j, e) == CHOOSE s \in kihand[j][e].todo : \A t \in kihand[j][e].todo : s <= t

(* The next source is read, opened and fenced; one that left indexing      *)
(* fails the job at once, a lost lease after its staged vectors are gone.  *)
ReadSource(j, e) ==
    /\ kihand[j][e].pc = "source" /\ kihand[j][e].todo # {}
    /\ \/ /\ kisrc[NextSource(j, e)].status = "indexing" /\ checkTaskFence(j, e)
          /\ HandlerGoes(j, e, "index")
          /\ UNCHANGED <<kiRows, kiVectors, kitomb, kistage, kileft>>
       \/ /\ kisrc[NextSource(j, e)].status # "indexing"
          /\ FailStep(j, e) /\ UNCHANGED kiVectors
       \/ /\ kisrc[NextSource(j, e)].status = "indexing" /\ ~checkTaskFence(j, e)
          /\ DeleteStagingGeneration(j) /\ FailStep(j, e)

(* The content of a source, or its mount, cannot be opened: the job fails  *)
(* and what it has staged is left to the sweep.                            *)
SourceUnavailable(j, e) ==
    /\ kihand[j][e].pc = "source" /\ kihand[j][e].todo # {} /\ KISpend("faults")
    /\ kisrc[NextSource(j, e)].status = "indexing"
    /\ Fails(j, e) /\ HandlerStops(j, e)
    /\ UNCHANGED <<kiconfig, kiprof, kiVectors, kistage>>

(* index: the generation is ensured before the embedding call, which may   *)
(* take long.                                                              *)
StartEmbedding(j, e) ==
    /\ kihand[j][e].pc = "index"
    /\ kigen' = Ensured(j)
    /\ HandlerGoes(j, e, "embed")
    /\ UNCHANGED <<kiRows, kivec, kitomb, kistage, kileft>>

(* UpsertGeneration: a row takes the state of its generation, an existing  *)
(* row keeps its own; the generation may be gone by now.                   *)
UpsertGeneration(j, e) ==
    LET s == NextSource(j, e) IN
    /\ kihand[j][e].pc = "embed"
    /\ \/ /\ kigen[j] # "none"
          /\ kivec' = [kivec EXCEPT ![j][s] = IF @ = "none" THEN kigen[j] ELSE @]
          /\ HandlerGoes(j, e, "indexed")
          /\ UNCHANGED <<kiRows, kigen, kitomb, kistage, kileft>>
       \/ /\ kigen[j] = "none"
          /\ DeleteStagingGeneration(j) /\ FailStep(j, e)

(* The fence after the upsert and the progress report.                     *)
CheckIndexed(j, e) ==
    /\ kihand[j][e].pc = "indexed"
    /\ \/ /\ checkTaskFence(j, e)
          /\ kihand' = [kihand EXCEPT ![j][e] = [pc |-> "source", todo |-> @.todo \ {NextSource(j, e)}]]
          /\ UNCHANGED <<kiRows, kiVectors, kitomb, kistage, kileft>>
       \/ ~checkTaskFence(j, e) /\ DeleteStagingGeneration(j) /\ FailStep(j, e)

(* The embedder or the checksum fails.                                     *)
IndexingFails(j, e) ==
    /\ kihand[j][e].pc \in {"embed", "indexed"} /\ KISpend("faults")
    /\ DeleteStagingGeneration(j) /\ Fails(j, e) /\ HandlerStops(j, e)
    /\ UNCHANGED <<kiconfig, kiprof, kistage>>

(* PromoteGeneration: every bound source has vectors, and no other has.    *)
PromoteGeneration(j, e) ==
    LET state == IF kigen[j] = "promoted" THEN "promoted" ELSE "staged"
        complete == kigen[j] # "none" /\ kijob[j].srcs = {s \in KISources : kivec[j][s] = state}
    IN
    /\ kihand[j][e].pc = "source" /\ kihand[j][e].todo = {}
    /\ IF complete
       THEN /\ kigen' = [kigen EXCEPT ![j] = "promoted"]
            /\ kivec' = [kivec EXCEPT ![j] = [s \in KISources |-> IF @[s] = "staged" THEN "promoted" ELSE @[s]]]
            /\ HandlerGoes(j, e, "promoted")
            /\ UNCHANGED <<kiRows, kitomb, kistage, kileft>>
       ELSE FailStep(j, e) /\ UNCHANGED kiVectors

(* The fence after PromoteGeneration.                                      *)
CheckPromoted(j, e) ==
    /\ kihand[j][e].pc = "promoted"
    /\ IF checkTaskFence(j, e)
       THEN HandlerGoes(j, e, "commit") /\ UNCHANGED kiVectors
       ELSE HandlerStops(j, e) /\ DeleteStagingGeneration(j)
    /\ UNCHANGED <<kiRows, kitomb, kistage, kileft>>

(* promote: what the transaction checks.  It fences on the task's revision *)
(* too; while the lease holds, only this handler's progress moves it.      *)
MayPromote(j, e) ==
    /\ checkTaskFence(j, e) /\ JobLive(j)
    /\ kiprof[kijob[j].prof] = kijob[j].prev
    /\ kiconfig = kijob[j].prof
    /\ \A s \in kijob[j].srcs : kisrc[s].status = "indexing"

(* promote: sources, pins, job and task move together.                     *)
Promotes(j) ==
    LET srcs == kijob[j].srcs IN
    /\ kisrc' = [s \in KISources |-> IF s \in srcs
                                     THEN [status |-> "ready", gen |-> j, prof |-> kijob[j].prof] ELSE kisrc[s]]
    /\ kirefs' = {r \in kirefs : ~(r[1] = "job" /\ r[2] = j) /\ ~(r[1] = "source" /\ r[2] \in srcs)}
                 \cup {<<"source", s, kijob[j].prof>> : s \in srcs}
    /\ kitomb' = [k \in KIJobs |-> [s \in KISources |->
                     IF s \in srcs /\ kisrc[s].gen = k /\ kitomb[k][s] = "none" THEN "staging" ELSE kitomb[k][s]]]
    /\ kijob' = [kijob EXCEPT ![j].status = "succeeded"]
    /\ TaskEnds(j, "succeeded")

CommitPromotion(j, e) ==
    /\ kihand[j][e].pc = "commit" /\ MayPromote(j, e)
    /\ Promotes(j) /\ HandlerGoes(j, e, "after")
    /\ UNCHANGED <<kiconfig, kiprof, kiVectors, kistage, kileft>>

(* promote refused: the handler takes its vectors back, promoted or not,   *)
(* and the pool learns of the error.                                       *)
CompensatePromotion(j, e) ==
    /\ kihand[j][e].pc = "commit" /\ ~MayPromote(j, e)
    /\ kivec' = [kivec EXCEPT ![j] = [s \in KISources |->
                   IF @[s] = "staged" \/ s \in kijob[j].srcs THEN "none" ELSE @[s]]]
    /\ kigen' = [kigen EXCEPT ![j] = "none"]
    /\ PoolFails(j, e) /\ HandlerStops(j, e)
    /\ UNCHANGED <<kiconfig, kiprof, kisrc, kijob, kirefs, kitomb, kistage, kileft>>

(* After the commit: what is staged goes, and so does the tombstone.       *)
FinishIndexing(j, e) ==
    /\ kihand[j][e].pc = "after"
    /\ DeleteStagingGeneration(j)
    /\ kitomb' = [kitomb EXCEPT ![j] = [s \in KISources |->
                    IF s \in kijob[j].srcs /\ @[s] = "staging" THEN "none" ELSE @[s]]]
    /\ HandlerStops(j, e)
    /\ UNCHANGED <<kiRows, kistage, kileft>>

(* A statement of the handler fails where it returns the bare error:       *)
(* markRunning, ensureStageTombstone, progress, fail.                      *)
HandlerErrs(j, e) ==
    /\ kihand[j][e].pc \in {"start", "mark", "indexed"} /\ KISpend("faults")
    /\ PoolFails(j, e) /\ HandlerStops(j, e)
    /\ UNCHANGED <<kiconfig, kiprof, kisrc, kijob, kirefs, kiVectors, kitomb, kistage>>

(* The process stops with every handler in it.                             *)
KICrash ==
    /\ \E j \in KIJobs : \E e \in KIEpochs : kihand[j][e] # NoHandler
    /\ KISpend("faults")
    /\ kihand' = [j \in KIJobs |-> [e \in KIEpochs |-> NoHandler]]
    /\ kitask' = [j \in KIJobs |-> [kitask[j] EXCEPT !.held = FALSE]]
    /\ UNCHANGED <<kiconfig, kiprof, kisrc, kijob, kislots, kirefs, kiVectors, kitomb, kistage>>

-----------------------------------------------------------------------------
(* CancelTask and cancelKnowledgeIndexTaskTx.                              *)
CancelIndexTask(j) ==
    /\ kitask[j].status \in {"queued", "running"}
    /\ kijob' = [kijob EXCEPT ![j].status = IF JobLive(j) THEN "canceled" ELSE @]
    /\ kitomb' = [kitomb EXCEPT ![j] = CanceledTombstones(j)]
    /\ kisrc' = SourcesReady(kijob[j].srcs)
    /\ TaskEnds(j, "canceled")
    /\ kirefs' = {r \in kirefs : r[1] # "job" \/ r[2] # j}
    /\ UNCHANGED <<kiconfig, kiprof, kiVectors, kistage, kihand, kileft>>

(* retireEmbeddingProfileTx: jobs, tasks, vectors, bindings and pins of    *)
(* the profile go together.                                                *)
RetireEmbeddingProfile(p) ==
    LET jobs == {j \in KIJobs : kijob[j].prof = p}
        live == {j \in jobs : JobLive(j)}
        gone == jobs \cup {kisrc[s].gen : s \in {t \in KISources : kisrc[t].prof = p}}
        of == UNION {kijob[j].srcs : j \in jobs}
        tasks == {j \in live : kitask[j].status \in {"queued", "running"}}
    IN
    /\ kitomb' = [j \in KIJobs |-> IF j \in live THEN CanceledTombstones(j) ELSE kitomb[j]]
    /\ kislots' = kislots - Cardinality({j \in live : KIRunning(j)})
    /\ kitask' = [j \in KIJobs |-> IF j \in tasks THEN [kitask[j] EXCEPT !.status = "canceled", !.held = FALSE]
                                                  ELSE kitask[j]]
    /\ kijob' = [j \in KIJobs |-> IF j \in live THEN [kijob[j] EXCEPT !.status = "canceled"] ELSE kijob[j]]
    /\ kivec' = [j \in KIJobs |-> IF j \in gone THEN [s \in KISources |-> "none"] ELSE kivec[j]]
    /\ kigen' = [j \in KIJobs |-> IF j \in gone THEN "none" ELSE kigen[j]]
    /\ kisrc' = [s \in KISources |->
                   LET r == IF kisrc[s].prof = p THEN [kisrc[s] EXCEPT !.gen = 0, !.prof = 0] ELSE kisrc[s]
                   IN IF (s \in of \/ kisrc[s].prof = p) /\ r.status = "indexing"
                      THEN [r EXCEPT !.status = "ready"] ELSE r]
    /\ kirefs' = {r \in kirefs : r[3] # p}

(* UpdateEmbeddingConfig and DisableEmbeddingProfile: the binding moves to *)
(* another profile, or to none.  The next profile need not exist.          *)
BindEmbeddingProfile(p) ==
    /\ p # kiconfig /\ KISpend("binds")
    /\ kiconfig' = p
    /\ IF kiconfig # 0 THEN RetireEmbeddingProfile(kiconfig)
       ELSE UNCHANGED <<kitomb, kislots, kitask, kijob, kiVectors, kisrc, kirefs>>
    /\ UNCHANGED <<kiprof, kistage, kihand>>

(* UpdateProfile.                                                          *)
EditEmbeddingProfile(p) ==
    /\ kiprof[p] # 0 /\ KISpend("edits")
    /\ kiprof' = [kiprof EXCEPT ![p] = @ + 1]
    /\ UNCHANGED <<kiconfig, kisrc, kijob, kitask, kislots, kirefs, kiVectors, kitomb, kistage, kihand>>

(* DeleteProfile: no generation names it.                                  *)
DeleteEmbeddingProfile(p) ==
    /\ kiprof[p] # 0 /\ \A r \in kirefs : r[3] # p
    /\ KISpend("edits")
    /\ kiprof' = [kiprof EXCEPT ![p] = 0]
    /\ UNCHANGED <<kiconfig, kisrc, kijob, kitask, kislots, kirefs, kiVectors, kitomb, kistage, kihand>>

(* Delete, first transaction: also of a source that is being indexed.      *)
DeleteSource(s) ==
    /\ kisrc[s].status \in {"ready", "indexing"} /\ KISpend("deletes")
    /\ kisrc' = [kisrc EXCEPT ![s].status = "deleting"]
    /\ kitomb' = [j \in KIJobs |-> IF j = kisrc[s].gen /\ kitomb[j][s] = "none"
                                   THEN [kitomb[j] EXCEPT ![s] = "promoted"] ELSE kitomb[j]]
    /\ UNCHANGED <<kiconfig, kiprof, kijob, kitask, kislots, kirefs, kiVectors, kistage, kihand>>

(* Delete, last transaction: the pin of the source goes.                   *)
SourceDeleted(s) ==
    /\ kisrc[s].status = "deleting"
    /\ kisrc' = [kisrc EXCEPT ![s].status = "deleted"]
    /\ kirefs' = {r \in kirefs : r[1] # "source" \/ r[2] # s}
    /\ UNCHANGED <<kiconfig, kiprof, kijob, kitask, kislots, kiVectors, kitomb, kistage, kihand, kileft>>

-----------------------------------------------------------------------------
(* SweepStaleKnowledgeStagesWithBackend: the stage of an ended job.        *)
SweepStage(j) ==
    /\ j \in kistage /\ ~JobLive(j)
    /\ DeleteStagingGeneration(j)
    /\ kistage' = kistage \ {j}
    /\ UNCHANGED <<kiRows, kitomb, kihand, kileft>>

(* A tombstone is kept when the job was canceled.                          *)
TombstoneKept(j, s) ==
    kitomb[j][s] = "canceled_staging" \/ (kitomb[j][s] = "staging" /\ kijob[j].status = "canceled")

(* A sweep that replays the tombstone of a canceled job only once.         *)
SweepTombstoneOnce(j, s) ==
    /\ kitomb[j][s] # "none" /\ ~(kitomb[j][s] = "staging" /\ JobLive(j))
    /\ IF kitomb[j][s] = "promoted" THEN DeletePromotedGeneration(j, {s}) ELSE DeleteStagingGeneration(j)
    /\ kitomb' = [kitomb EXCEPT ![j][s] = "none"]
    /\ UNCHANGED <<kiRows, kistage, kihand, kileft>>

(* SweepStaleKnowledgeStagesWithBackend: one row of the cleanup table.     *)
SweepTombstone(j, s) ==
    /\ kitomb[j][s] # "none" /\ ~(kitomb[j][s] = "staging" /\ JobLive(j))
    /\ IF kitomb[j][s] = "promoted" THEN DeletePromotedGeneration(j, {s}) ELSE DeleteStagingGeneration(j)
    /\ kitomb' = IF TombstoneKept(j, s) THEN kitomb ELSE [kitomb EXCEPT ![j][s] = "none"]
    /\ UNCHANGED <<kiRows, kistage, kihand, kileft>>

HandlerStep(j, e) ==
    \/ ReadJob(j, e) \/ MarkRunning(j, e) \/ EnsureGeneration(j, e) \/ CheckEnsured(j, e)
    \/ ReadSource(j, e) \/ SourceUnavailable(j, e) \/ StartEmbedding(j, e)
    \/ UpsertGeneration(j, e) \/ CheckIndexed(j, e) \/ IndexingFails(j, e)
    \/ PromoteGeneration(j, e) \/ CheckPromoted(j, e)
    \/ CommitPromotion(j, e) \/ CompensatePromotion(j, e) \/ FinishIndexing(j, e) \/ HandlerErrs(j, e)

KINext ==
    \/ \E srcs \in SUBSET KISources \ {{}} : RequestIndex(srcs)
    \/ \E j \in KIJobs : ClaimIndexTask(j) \/ IndexLeaseLost(j) \/ CancelIndexTask(j) \/ SweepStage(j)
    \/ \E j \in KIJobs, e \in KIEpochs : HandlerStep(j, e)
    \/ KICrash
    \/ \E p \in KIProfiles \cup {0} : BindEmbeddingProfile(p)
    \/ \E p \in KIProfiles : EditEmbeddingProfile(p) \/ DeleteEmbeddingProfile(p)
    \/ \E s \in KISources : DeleteSource(s) \/ SourceDeleted(s)
    \/ \E j \in KIJobs, s \in KISources : SweepTombstone(j, s)

KISpec == KIInit /\ [][KINext]_kiVars

-----------------------------------------------------------------------------
KITypeOK ==
    /\ kiconfig \in KIProfiles \cup {0} /\ kislots \in Nat
    /\ \A s \in KISources : kisrc[s].status \in {"ready", "indexing", "deleting", "deleted"}
    /\ \A j \in KIJobs : /\ kijob[j].status \in {"none", "queued", "running", "succeeded", "failed", "canceled"}
                         /\ kitask[j].status \in {"none", "queued", "running", "succeeded", "failed", "canceled"}
                         /\ kigen[j] \in {"none", "staged", "promoted"}

JobsOf(s) == {j \in KIJobs : JobLive(j) /\ s \in kijob[j].srcs}

(* A source is claimed by at most one job, and it is free when none has it *)
OneJobPerSource ==
    \A s \in KISources :
        /\ Cardinality(JobsOf(s)) <= 1
        /\ kisrc[s].status = "indexing" => JobsOf(s) # {}
        /\ kisrc[s].status = "ready" => JobsOf(s) = {}

(* running_count is the number of running tasks.                           *)
IndexSlotsExact == kislots = Cardinality({j \in KIJobs : KIRunning(j)})

(* Exactly live jobs and bound sources pin a profile, a pinned profile is  *)
(* not deleted, and live jobs and bindings are of the configured profile.  *)
PinsExact ==
    /\ kirefs = {<<"job", j, kijob[j].prof>> : j \in {k \in KIJobs : JobLive(k)}}
                \cup {<<"source", s, kisrc[s].prof>> :
                        s \in {t \in KISources : kisrc[t].prof # 0 /\ kisrc[t].status # "deleted"}}
    /\ \A r \in kirefs : kiprof[r[3]] # 0 /\ r[3] = kiconfig

(* A bound generation is the one of a job that succeeded for the source.   *)
BoundByFinishedJob ==
    \A s \in KISources : kisrc[s].gen # 0 =>
        LET j == kisrc[s].gen IN
        kijob[j].status = "succeeded" /\ s \in kijob[j].srcs /\ kijob[j].prof = kisrc[s].prof

(* What a canceled job staged keeps a tombstone that every sweep replays,  *)
(* whatever its handlers still write.                                      *)
CanceledStageCompensated ==
    \A j \in KIJobs, s \in KISources :
        kijob[j].status = "canceled" /\ kivec[j][s] = "staged" => kitomb[j][s] # "none" /\ TombstoneKept(j, s)

(* RequestIndex, claims, attempts that overlap, cancels, deletions and     *)
(* moves of the profile keep jobs, sources, slots, pins and tombstones     *)
(* together.                                                               *)
IndexInv ==
    /\ KITypeOK /\ OneJobPerSource /\ IndexSlotsExact /\ PinsExact
    /\ BoundByFinishedJob /\ CanceledStageCompensated

(* While no lease is lost and no call fails, a bound generation keeps its  *)
(* promoted vectors: cancels, deletions, sweeps and moves of the profile   *)
(* never take them from a source that search still reads.                  *)
ReadyIsSearchable ==
    kileft.calm => \A s \in KISources :
        kisrc[s].gen # 0 /\ kisrc[s].status \in {"ready", "indexing"} =>
            kigen[kisrc[s].gen] = "promoted" /\ kivec[kisrc[s].gen][s] = "promoted"
=============================================================================
