-------------------------- MODULE KnowledgeContent --------------------------
(***************************************************************************)
(* The content of uploaded knowledge sources: CoreKnowledgeStore writes    *)
(* chunks to a staging file through a sink, renames it when the upload is  *)
(* committed, and removes it when the upload is aborted or its source      *)
(* deleted.  Files and rows cannot change together: a statement may fail,  *)
(* a commit may be answered with an error whether or not it happened, and  *)
(* the process may stop anywhere.                                          *)
(*                                                                         *)
(* Abstractions.  A chunk has size one and a digest is the data itself.    *)
(* An open sink has hashed what its file holds: a truncation is assumed    *)
(* not to fail.  The row lock of the upload makes each call of an upload   *)
(* one step.  The byte quota is left out.                                  *)
(***************************************************************************)
EXTENDS Integers, Sequences, FiniteSets

CONSTANTS KCUploads,
          KCData,       \* what a chunk may hold
          KCDeclared,   \* the content its metadata declares, for each upload
          KCMaxActive,  \* knowledgeMaxActiveUploads
          KCSettings    \* bounds: [faults, deletes, early]

ASSUME KnowledgeContentAssumption ==
    /\ IsFiniteSet(KCUploads) /\ IsFiniteSet(KCData) /\ KCMaxActive \in Nat
    /\ KCDeclared \in [KCUploads -> Seq(KCData) \ {<<>>}]
    /\ KCSettings \subseteq [faults : Nat, deletes : Nat, early : BOOLEAN]

VARIABLES
    kcup,      \* core_knowledge_uploads: [status, rows]
    kcsrc,     \* core_knowledge_sources: [status, ref]
    kcres,     \* uploads with an active reservation
    kcclean,   \* core_knowledge_cleanup: [op, ref]
    kctemp,    \* the staging file, as a set of at most one content
    kcfinal,   \* the content files
    kcsink,    \* r.sinks: [state, content]
    kcdel,     \* calls of Delete between their transactions: [pc, ref]
    kcresume,  \* resumeKnowledgeCleanup between its file and its rows
    kcleft     \* what is left of the bounds

kcRows == <<kcup, kcsrc, kcres, kcclean>>
kcFiles == <<kctemp, kcfinal, kcsink>>
kcCalls == <<kcdel, kcresume>>
kcVars == <<kcRows, kcFiles, kcCalls, kcleft>>

NoSink == [state |-> "none", content |-> <<>>]
NoCleanup == [op |-> "none", ref |-> FALSE]
OpenSink == [state |-> "open", content |-> <<>>]
FinalSink(c) == [state |-> "final", content |-> c]

KCInit ==
    /\ kcup = [u \in KCUploads |-> [status |-> "none", rows |-> <<>>]]
    /\ kcsrc = [u \in KCUploads |-> [status |-> "none", ref |-> FALSE]]
    /\ kcres = {} /\ kcclean = [u \in KCUploads |-> NoCleanup]
    /\ kctemp = [u \in KCUploads |-> {}] /\ kcfinal = [u \in KCUploads |-> {}]
    /\ kcsink = [u \in KCUploads |-> NoSink]
    /\ kcdel = [u \in KCUploads |-> {}] /\ kcresume = [u \in KCUploads |-> "none"]
    /\ kcleft \in KCSettings

KCSpend(bound) == kcleft[bound] > 0 /\ kcleft' = [kcleft EXCEPT ![bound] = @ - 1]

Received(u) == Len(kcup[u].rows)
DeclaredSize(u) == Len(KCDeclared[u])

-----------------------------------------------------------------------------
(* StartUpload: Begin creates the staging file, or takes over the one that *)
(* an earlier call left, emptied.                                          *)
Started(u) ==
    /\ kcup' = [kcup EXCEPT ![u].status = "uploading"]
    /\ kcsrc' = [kcsrc EXCEPT ![u].status = "uploading"]
    /\ kcres' = kcres \cup {u}

StartUpload(u) ==
    /\ kcup[u].status = "none" /\ Cardinality(kcres) < KCMaxActive
    /\ \/ /\ Started(u)
          /\ kctemp' = [kctemp EXCEPT ![u] = {<<>>}] /\ kcsink' = [kcsink EXCEPT ![u] = OpenSink]
          /\ UNCHANGED kcleft
       \/ \* committed, and neither the commit nor the read-back says so
          /\ Started(u) /\ KCSpend("faults")
          /\ kctemp' = [kctemp EXCEPT ![u] = {<<>>}] /\ UNCHANGED kcsink
       \/ \* not committed: the staging file is kept
          /\ KCSpend("faults")
          /\ kctemp' = [kctemp EXCEPT ![u] = {<<>>}]
          /\ UNCHANGED <<kcup, kcsrc, kcres, kcsink>>
       \/ \* a statement failed: the sink is aborted
          /\ KCSpend("faults")
          /\ kctemp' = [kctemp EXCEPT ![u] = {}]
          /\ UNCHANGED <<kcup, kcsrc, kcres, kcsink>>
    /\ UNCHANGED <<kcclean, kcfinal, kcCalls>>

(* Resume: the staging file holds at least what the rows say, and a        *)
(* complete one the declared content.                                      *)
Prefix(u, f) == SubSeq(f, 1, Received(u))

StagingResumes(u) ==
    \E f \in kctemp[u] : /\ Received(u) <= Len(f) /\ Len(f) <= DeclaredSize(u)
                         /\ Received(u) = DeclaredSize(u) => Prefix(u, f) = KCDeclared[u]

(* The sinks sinkFor may return: the one in memory, or one resumed from    *)
(* the staging file or, without it, from the content file.                 *)
sinkFor(u) ==
    IF kcsink[u].state # "none" THEN {kcsink[u]}
    ELSE IF kctemp[u] # {} THEN {OpenSink : x \in {y \in {u} : StagingResumes(y)}}
    ELSE {FinalSink(c) : c \in kcfinal[u] \cap {KCDeclared[u]}}

(* AppendUploadChunk: a tail that no row knows is cut off, the chunk is    *)
(* written, then the rows.                                                 *)
AppendUploadChunk(u, d) ==
    /\ kcup[u].status = "uploading" /\ Received(u) < DeclaredSize(u)
    /\ \E sink \in sinkFor(u), f \in kctemp[u] :
          /\ sink.state = "open" /\ Received(u) <= Len(f)
          /\ kcsink' = [kcsink EXCEPT ![u] = sink]
          /\ \/ /\ kctemp' = [kctemp EXCEPT ![u] = {Append(Prefix(u, f), d)}]
                /\ kcup' = [kcup EXCEPT ![u].rows = Append(@, d)]
                /\ UNCHANGED kcleft
             \/ \* a statement or the write failed: the sink is rewound
                /\ KCSpend("faults")
                /\ kctemp' = [kctemp EXCEPT ![u] = {Prefix(u, f)}]
                /\ UNCHANGED kcup
             \/ \* the commit failed
                /\ KCSpend("faults")
                /\ kctemp' = [kctemp EXCEPT ![u] = {Append(Prefix(u, f), d)}]
                /\ UNCHANGED kcup
    /\ UNCHANGED <<kcsrc, kcres, kcclean, kcfinal, kcCalls>>

(* Abort of a sink: only an open one removes its file.                     *)
AbortSink(u, sink) == kctemp' = [kctemp EXCEPT ![u] = IF sink.state = "open" THEN {} ELSE @]

(* Finalize refuses: the sink is spent, its file gone.                     *)
FinalizeFails(u, sink) ==
    /\ AbortSink(u, sink)
    /\ kcsink' = [kcsink EXCEPT ![u] = IF sink.state = "open" THEN [sink EXCEPT !.state = "aborted"]
                                                              ELSE sink]
    /\ UNCHANGED <<kcRows, kcfinal>>

Finalizes(u, sink, c) ==
    sink = FinalSink(c) \/ (sink.state = "open" /\ c \in kctemp[u])

(* Finalize renames the staging file.                                      *)
Renamed(u, c) ==
    /\ kctemp' = [kctemp EXCEPT ![u] = {}]
    /\ kcfinal' = [kcfinal EXCEPT ![u] = @ \cup {c}]

UploadReady(u) ==
    /\ kcup' = [kcup EXCEPT ![u].status = "ready"]
    /\ kcsrc' = [kcsrc EXCEPT ![u] = [status |-> "ready", ref |-> TRUE]]
    /\ kcres' = kcres \ {u}
    /\ UNCHANGED kcclean

(* CommitUpload for the content c of the command.                          *)
CommitUpload(u, c) ==
    /\ kcup[u].status = "uploading" /\ Received(u) = DeclaredSize(u)
    /\ \E sink \in sinkFor(u) :
          \/ ~Finalizes(u, sink, c) /\ FinalizeFails(u, sink) /\ UNCHANGED kcleft
          \/ \* the file cannot be flushed or renamed
             Finalizes(u, sink, c) /\ sink.state = "open" /\ KCSpend("faults") /\ FinalizeFails(u, sink)
          \/ /\ Finalizes(u, sink, c)
             /\ \/ \* not what the metadata declares
                   /\ c # KCDeclared[u] /\ Renamed(u, c)
                   /\ kcsink' = [kcsink EXCEPT ![u] = FinalSink(c)]
                   /\ UNCHANGED <<kcRows, kcleft>>
                \/ /\ c = KCDeclared[u] /\ Renamed(u, c) /\ UploadReady(u)
                   /\ kcsink' = [kcsink EXCEPT ![u] = NoSink]
                   /\ UNCHANGED kcleft
                \/ \* committed, but answered with an error
                   /\ c = KCDeclared[u] /\ KCSpend("faults") /\ Renamed(u, c) /\ UploadReady(u)
                   /\ kcsink' = [kcsink EXCEPT ![u] = FinalSink(c)]
                \/ \* the commit failed
                   /\ c = KCDeclared[u] /\ KCSpend("faults") /\ Renamed(u, c)
                   /\ kcsink' = [kcsink EXCEPT ![u] = FinalSink(c)]
                   /\ UNCHANGED kcRows
                \/ \* a statement failed: the content is deleted, if it can be
                   /\ c = KCDeclared[u] /\ KCSpend("faults")
                   /\ kctemp' = [kctemp EXCEPT ![u] = {}]
                   /\ \E left \in {{}, {c}} : kcfinal' = [kcfinal EXCEPT ![u] = (@ \ {c}) \cup left]
                   /\ kcsink' = [kcsink EXCEPT ![u] = NoSink]
                   /\ UNCHANGED kcRows
    /\ UNCHANGED kcCalls

(* AbortUpload: the rows, and the intent to clean up.                      *)
AbortUpload(u) ==
    /\ kcup[u].status = "uploading"
    /\ kcup' = [kcup EXCEPT ![u].status = "deleted"]
    /\ kcsrc' = [kcsrc EXCEPT ![u].status = "deleted"]
    /\ kcres' = kcres \ {u}
    /\ kcclean' = [kcclean EXCEPT ![u].op = "upload_abort"]
    /\ UNCHANGED <<kcFiles, kcCalls, kcleft>>

AbortCleaned(u) ==
    kcclean' = [kcclean EXCEPT ![u] = IF @.op = "upload_abort" THEN NoCleanup ELSE @]

(* cleanupAbortedUpload, by AbortUpload, its replay or the sweep.          *)
cleanupAbortedUpload(u) ==
    /\ kcup[u].status = "deleted"
    /\ \/ \E sink \in sinkFor(u) :
             /\ AbortSink(u, sink) /\ kcsink' = [kcsink EXCEPT ![u] = NoSink]
             /\ \/ AbortCleaned(u) /\ UNCHANGED kcleft
                \/ KCSpend("faults") /\ UNCHANGED kcclean
       \/ /\ sinkFor(u) = {} /\ kctemp[u] = {}
          /\ AbortCleaned(u) /\ UNCHANGED <<kctemp, kcsink, kcleft>>
    /\ UNCHANGED <<kcup, kcsrc, kcres, kcfinal, kcCalls>>

-----------------------------------------------------------------------------
Deletable == {"uploading", "ready"}
BeingDeleted == {"deleting", "cleanup_pending"}

(* An intent that is already recorded is kept.                             *)
DeleteIntent(row, ref) == IF row.op = "none" THEN [op |-> "delete", ref |-> ref] ELSE row

(* Delete, first transaction: also of a source that is still uploaded.     *)
DeleteBegins(u) ==
    /\ kcsrc[u].status \in Deletable /\ kcclean[u].op # "upload_abort"
    /\ kcsrc[u].status = "uploading" => kcleft.early
    /\ KCSpend("deletes")
    /\ kcsrc' = [kcsrc EXCEPT ![u].status = "deleting"]
    /\ kcclean' = [kcclean EXCEPT ![u] = DeleteIntent(@, kcsrc[u].ref)]
    /\ kcdel' = [kcdel EXCEPT ![u] = @ \cup {[pc |-> "begun", ref |-> kcsrc[u].ref]}]
    /\ UNCHANGED <<kcup, kcres, kcFiles, kcresume>>

(* The content file of a reference is removed, or already gone.            *)
FileDeleted(u, ref) == kcfinal' = IF ref THEN [kcfinal EXCEPT ![u] = @ \ {KCDeclared[u]}] ELSE kcfinal

(* Delete, between its transactions.                                       *)
DeleteContent(u) ==
    /\ \E call \in {k \in kcdel[u] : k.pc = "begun"} :
          \/ /\ FileDeleted(u, call.ref)
             /\ kcdel' = [kcdel EXCEPT ![u] = (@ \ {call}) \cup {[call EXCEPT !.pc = "done"]}]
             /\ UNCHANGED kcleft
          \/ /\ call.ref /\ KCSpend("faults")
             /\ kcdel' = [kcdel EXCEPT ![u] = (@ \ {call}) \cup {[call EXCEPT !.pc = "failed"]}]
             /\ UNCHANGED kcfinal
    /\ UNCHANGED <<kcRows, kctemp, kcsink, kcresume>>

(* A last transaction that does not record its intent to clean up again.   *)
DeleteEndsUnrecorded(u) ==
    /\ \E call \in kcdel[u] :
          /\ kcdel' = [kcdel EXCEPT ![u] = @ \ {call}]
          /\ \/ /\ call.pc = "done"
                /\ kcsrc' = [kcsrc EXCEPT ![u].status = "deleted"]
                /\ kcclean' = [kcclean EXCEPT ![u] = NoCleanup]
             \/ /\ call.pc = "failed"
                /\ kcsrc' = [kcsrc EXCEPT ![u].status = "cleanup_pending"]
                /\ UNCHANGED kcclean
    /\ UNCHANGED <<kcup, kcres, kcFiles, kcresume, kcleft>>

(* Delete, last transaction: whatever the rows say by now.                 *)
DeleteEnds(u) ==
    /\ \E call \in kcdel[u] :
          /\ kcdel' = [kcdel EXCEPT ![u] = @ \ {call}]
          /\ \/ /\ call.pc = "done"
                /\ kcsrc' = [kcsrc EXCEPT ![u].status = "deleted"]
                /\ kcclean' = [kcclean EXCEPT ![u] = NoCleanup]
             \/ /\ call.pc = "failed"
                /\ kcsrc' = [kcsrc EXCEPT ![u].status = "cleanup_pending"]
                /\ kcclean' = [kcclean EXCEPT ![u] = DeleteIntent(@, call.ref)]
    /\ UNCHANGED <<kcup, kcres, kcFiles, kcresume, kcleft>>

(* resumeKnowledgeCleanup, by a repeated Delete or the sweep: the file.    *)
ResumeContent(u) ==
    /\ kcresume[u] = "none"
    /\ kcsrc[u].status \in BeingDeleted /\ kcclean[u].op # "none"
    /\ \/ /\ FileDeleted(u, kcclean[u].ref)
          /\ kcresume' = [kcresume EXCEPT ![u] = "done"] /\ UNCHANGED kcleft
       \/ /\ kcclean[u].ref /\ KCSpend("faults")
          /\ kcresume' = [kcresume EXCEPT ![u] = "failed"] /\ UNCHANGED kcfinal
    /\ UNCHANGED <<kcRows, kctemp, kcsink, kcdel>>

(* resumeKnowledgeCleanup: the rows, if the source is still being deleted. *)
ResumeEnds(u) ==
    /\ kcresume[u] # "none" /\ kcresume' = [kcresume EXCEPT ![u] = "none"]
    /\ \/ /\ kcsrc[u].status \in BeingDeleted /\ kcresume[u] = "done"
          /\ kcsrc' = [kcsrc EXCEPT ![u].status = "deleted"]
          /\ kcclean' = [kcclean EXCEPT ![u] = NoCleanup]
       \/ /\ kcsrc[u].status \in BeingDeleted /\ kcresume[u] = "failed"
          /\ kcsrc' = [kcsrc EXCEPT ![u].status = "cleanup_pending"]
          /\ UNCHANGED kcclean
       \/ kcsrc[u].status \notin BeingDeleted /\ UNCHANGED <<kcsrc, kcclean>>
    /\ UNCHANGED <<kcup, kcres, kcFiles, kcdel, kcleft>>

(* The process restarts: sinks and calls are gone, files and rows stay.    *)
KCRestart ==
    /\ KCSpend("faults")
    /\ kcsink' = [u \in KCUploads |-> NoSink]
    /\ kcdel' = [u \in KCUploads |-> {}] /\ kcresume' = [u \in KCUploads |-> "none"]
    /\ UNCHANGED <<kcRows, kctemp, kcfinal>>

KCNext ==
    \/ \E u \in KCUploads :
          \/ StartUpload(u) \/ AbortUpload(u) \/ cleanupAbortedUpload(u)
          \/ \E d \in KCData : AppendUploadChunk(u, d)
          \/ \E c \in [1..DeclaredSize(u) -> KCData] : CommitUpload(u, c)
          \/ DeleteBegins(u) \/ DeleteContent(u) \/ DeleteEnds(u)
          \/ ResumeContent(u) \/ ResumeEnds(u)
    \/ KCRestart

KCSpec == KCInit /\ [][KCNext]_kcVars

-----------------------------------------------------------------------------
KCTypeOK ==
    \A u \in KCUploads :
        /\ kcup[u].status \in {"none", "uploading", "ready", "deleted"}
        /\ kcsrc[u].status \in {"none"} \cup Deletable \cup BeingDeleted \cup {"deleted"}
        /\ kcclean[u].op \in {"none", "delete", "upload_abort"}
        /\ Cardinality(kctemp[u]) <= 1 /\ Received(u) <= DeclaredSize(u)

(* A source that is ready has the declared content in its file and in its  *)
(* rows, whatever writes, commits and restarts failed on the way.          *)
ReadyHasContent ==
    \A u \in KCUploads : kcsrc[u].status = "ready" =>
        KCDeclared[u] \in kcfinal[u] /\ kcup[u].rows = KCDeclared[u] /\ kcup[u].status = "ready"

(* Every open upload has a reservation, no other has, and they are few.    *)
ReservationsExact ==
    /\ kcres = {u \in KCUploads : kcup[u].status = "uploading"}
    /\ Cardinality(kcres) <= KCMaxActive

(* A deletion that is not over is one the sweep finds again.               *)
DeletionRecorded ==
    \A u \in KCUploads : kcsrc[u].status \in BeingDeleted => kcclean[u].op = "delete"

(* Nothing is left of what is over: a deleted upload without its content,  *)
(* an aborted one without a staging file unless its cleanup is recorded.   *)
(* Holds when no source is deleted while it is uploaded.                   *)
NothingLeft ==
    \A u \in KCUploads : ~kcleft.early =>
        /\ kcup[u].status = "ready" /\ kcsrc[u].status = "deleted" => kcfinal[u] = {}
        /\ kcup[u].status \in {"ready", "deleted"} /\ kcclean[u].op # "upload_abort" => kctemp[u] = {}

(* Chunks, commits, aborts and deletions keep files and rows together,     *)
(* through lost answers, failed statements and restarts.                   *)
ContentInv == KCTypeOK /\ ReadyHasContent /\ ReservationsExact /\ DeletionRecorded /\ NothingLeft
=============================================================================
