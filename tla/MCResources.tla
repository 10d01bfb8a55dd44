---------------------------- MODULE MCResources ----------------------------
(***************************************************************************)
(* What the Agent keeps outside its task queue, checked in one run: a      *)
(* behaviour is one of the retained SSH Workers ("pool"), of the database  *)
(* rows of their executions ("store"), of the index of the knowledge       *)
(* sources ("index") or of their content ("content"), of the memory, or of *)
(* the AWS credential, with the other parts at rest.                       *)
(***************************************************************************)
EXTENDS SSHWorker, CloudWorker, KnowledgeIndex, KnowledgeContent, Memory, CredentialTest, TLC

VARIABLE side

\* One set of processes for all parts, so that one permutation moves them all.
Sym == Permutations(CWHandlers \cup MWorkers \cup CTCallers)

\* Executions 1 and 2 create a Worker, execution 3 reuses the one of 1.
MCTarget == 1 :> 1 @@ 2 :> 2 @@ 3 :> 1
Setting(first, second, third, crashes, destroys) ==
    [runs |-> 1 :> first @@ 2 :> second @@ 3 :> third, crashes |-> crashes, destroys |-> destroys]
MCSettings == {Setting(2, 0, 1, 1, 1), Setting(2, 1, 0, 0, 1), Setting(2, 0, 0, 1, 2)}

Indexing(jobs, faults, binds, edits, deletes) ==
    [jobs |-> jobs, faults |-> faults, binds |-> binds, edits |-> edits, deletes |-> deletes,
     calm |-> faults = 0]
MCIndexing == {Indexing(2, 0, 1, 0, 0), Indexing(1, 0, 1, 1, 1), Indexing(1, 0, 2, 0, 0),
               Indexing(1, 2, 0, 0, 1), Indexing(1, 1, 1, 0, 0)}

MCDeclared == [u \in KCUploads |-> <<1, 1>>]
MCContent == {[faults |-> 3, deletes |-> 2, early |-> FALSE], [faults |-> 1, deletes |-> 1, early |-> TRUE]}

MCMemory == {[edits |-> 1, switches |-> 1], [edits |-> 0, switches |-> 2]}

\* Both keys ask for the first credential, each for one of its revisions.
MCBinding == [k \in CTKeys |-> [cred |-> 1, rev |-> k]]
MCCredentials == {[faults |-> 1, crashes |-> 1, plain |-> 0], [faults |-> 0, crashes |-> 0, plain |-> 1]}

\* The initial states of a part that is at rest are cut to one.
ResourcesInit ==
    /\ side \in {"pool", "store", "index", "content", "memory", "credential"}
    /\ SSHInit /\ (side # "pool" => swleft = Setting(2, 0, 0, 1, 2))
    /\ CWInit
    /\ KIInit /\ (side # "index" => kileft = Indexing(1, 1, 1, 0, 0))
    /\ KCInit /\ (side # "content" => ~kcleft.early)
    /\ MemoryInit /\ (side # "memory" => mleft.edits = 0)
    /\ CredentialInit /\ (side # "credential" => ctleft.plain = 1)

Aside(part) == side = part /\ UNCHANGED side

ResourcesNext ==
    \/ /\ Aside("pool") /\ SSHNext
       /\ UNCHANGED <<cwVars, kiVars, kcVars, memoryVars, ctVars>>
    \/ /\ Aside("store") /\ CWNext
       /\ UNCHANGED <<swVars, kiVars, kcVars, memoryVars, ctVars>>
    \/ /\ Aside("index") /\ KINext
       /\ UNCHANGED <<swVars, cwVars, kcVars, memoryVars, ctVars>>
    \/ /\ Aside("content") /\ KCNext
       /\ UNCHANGED <<swVars, cwVars, kiVars, memoryVars, ctVars>>
    \/ /\ Aside("memory") /\ MemoryNext
       /\ UNCHANGED <<swVars, cwVars, kiVars, kcVars, ctVars>>
    \/ /\ Aside("credential") /\ CredentialNext
       /\ UNCHANGED <<swVars, cwVars, kiVars, kcVars, memoryVars>>

resourceVars == <<swVars, cwVars, kiVars, kcVars, memoryVars, ctVars, side>>
ResourcesSpec == ResourcesInit /\ [][ResourcesNext]_resourceVars
=============================================================================
