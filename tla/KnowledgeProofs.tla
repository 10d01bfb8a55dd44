-------------------------- MODULE KnowledgeProofs --------------------------
(***************************************************************************)
(* What the runs check of the content of knowledge sources and of their    *)
(* index, for every set of uploads and declared contents, of sources, jobs *)
(* and profiles, and every number of faults, restarts, cancels, deletions  *)
(* and moves of the profile.                                               *)
(***************************************************************************)
EXTENDS KnowledgeContent, KnowledgeIndex, FiniteSetTheorems, SequenceTheorems,
        NaturalsInduction, WellFoundedInduction, TLAPS

(***************************************************************************)
(* Rows and files of one upload: up and src its rows, clean the recorded   *)
(* intent, temp and final its files, sink the open file, del and resume    *)
(* the deletions at work, D the declared content.                          *)
(***************************************************************************)
Content == Seq(KCData)
UpRow == [status : {"none", "uploading", "ready", "deleted"}, rows : Content]
SrcRow == [status : {"none", "deleted"} \cup Deletable \cup BeingDeleted, ref : BOOLEAN]
CleanRow == [op : {"none", "delete", "upload_abort"}, ref : BOOLEAN]
SinkRow == [state : {"none", "open", "final", "aborted"}, content : Content]
DelCall == [pc : {"begun", "done", "failed"}, ref : BOOLEAN]
Resume == {"none", "done", "failed"}
Left == [faults : Nat, deletes : Nat, early : BOOLEAN]

KCTyped ==
    /\ kcup \in [KCUploads -> UpRow] /\ kcsrc \in [KCUploads -> SrcRow]
    /\ kcclean \in [KCUploads -> CleanRow]
    /\ kctemp \in [KCUploads -> SUBSET Content] /\ kcfinal \in [KCUploads -> SUBSET Content]
    /\ kcsink \in [KCUploads -> SinkRow]
    /\ kcdel \in [KCUploads -> SUBSET DelCall] /\ kcresume \in [KCUploads -> Resume]
    /\ kcleft \in Left

(* The staging file begins with the chunks of the rows, a file that was    *)
(* renamed is the chunks of the rows, all of them, and a sink that is not  *)
(* open has no staging file.                                               *)
FilesFit(D, up, temp, final, sink) ==
    /\ Len(up.rows) <= Len(D)
    /\ \A f, g \in temp : f = g
    /\ \A f \in temp : Len(up.rows) <= Len(f) => \A i \in 1..Len(up.rows) : f[i] = up.rows[i]
    /\ \A c \in final : c = up.rows /\ Len(c) = Len(D)
    /\ sink.state = "final" => sink.content = up.rows /\ Len(up.rows) = Len(D)
    /\ sink.state \in {"final", "aborted"} => temp = {}
    /\ up.status = "none" => up.rows = <<>> /\ sink.state = "none"
    /\ up.status = "ready" => up.rows = D

(* A reference is deleted only after the upload is ready, and a source     *)
(* that is ready has no deletion at work that would remove its content.    *)
DeletesFit(up, src, clean, del) ==
    /\ up.status # "ready" => ~src.ref /\ \A k \in del : ~k.ref
    /\ src.status = "ready" => up.status = "ready" /\ src.ref /\ \A k \in del : ~k.ref
    /\ \A k \in del : k.pc = "failed" => k.ref
    /\ clean.op = "upload_abort" => up.status = "deleted"
    /\ src.status \in BeingDeleted => clean.op = "delete"

ReadyFits(D, src, final) == src.status = "ready" => D \in final

(* When no source is deleted while it is uploaded, deletions are of ready  *)
(* uploads and of their content, and leave nothing.                        *)
LateFits(up, src, clean, temp, final, del, resume) ==
    /\ src.status \in BeingDeleted \/ del # {} \/ resume # "none" => up.status = "ready"
    /\ clean.op = "delete" => clean.ref /\ up.status = "ready"
    /\ \A k \in del : k.ref
    /\ (\E k \in del : k.pc = "done") \/ resume = "done" => final = {}
    /\ up.status = "ready" /\ src.status = "deleted" => final = {}
    /\ up.status \in {"ready", "deleted"} /\ clean.op # "upload_abort" => temp = {}

UploadFits(u) ==
    /\ FilesFit(KCDeclared[u], kcup[u], kctemp[u], kcfinal[u], kcsink[u])
    /\ DeletesFit(kcup[u], kcsrc[u], kcclean[u], kcdel[u])
    /\ ReadyFits(KCDeclared[u], kcsrc[u], kcfinal[u])
    /\ ~kcleft.early =>
          LateFits(kcup[u], kcsrc[u], kcclean[u], kctemp[u], kcfinal[u], kcdel[u], kcresume[u])

UploadsFit == \A u \in KCUploads : UploadFits(u)

KCInd == KCTyped /\ UploadsFit /\ ReservationsExact

(***************************************************************************)
(* A step writes the rows and files of one upload.                         *)
(***************************************************************************)
KCWrites(u, up, src, clean, temp, final, sink, del, resume) ==
    /\ kcup' = [kcup EXCEPT ![u] = up] /\ kcsrc' = [kcsrc EXCEPT ![u] = src]
    /\ kcclean' = [kcclean EXCEPT ![u] = clean]
    /\ kctemp' = [kctemp EXCEPT ![u] = temp] /\ kcfinal' = [kcfinal EXCEPT ![u] = final]
    /\ kcsink' = [kcsink EXCEPT ![u] = sink]
    /\ kcdel' = [kcdel EXCEPT ![u] = del] /\ kcresume' = [kcresume EXCEPT ![u] = resume]

KCRowsTyped(up, src, clean, temp, final, sink, del, resume) ==
    /\ up \in UpRow /\ src \in SrcRow /\ clean \in CleanRow
    /\ temp \in SUBSET Content /\ final \in SUBSET Content /\ sink \in SinkRow
    /\ del \in SUBSET DelCall /\ resume \in Resume

(* What it writes must fit, and the others keep what they have.            *)
LEMMA UploadMoves ==
    ASSUME KCInd, NEW u \in KCUploads,
           NEW up, NEW src, NEW clean, NEW temp, NEW final, NEW sink, NEW del, NEW resume,
           KCWrites(u, up, src, clean, temp, final, sink, del, resume),
           KCRowsTyped(up, src, clean, temp, final, sink, del, resume),
           FilesFit(KCDeclared[u], up, temp, final, sink),
           DeletesFit(up, src, clean, del),
           ReadyFits(KCDeclared[u], src, final),
           ~kcleft.early => LateFits(up, src, clean, temp, final, del, resume),
           kcleft' \in Left, kcleft'.early = kcleft.early,
           ReservationsExact'
    PROVE  KCInd'
<1>1. KCTyped'
  BY DEF KCInd, KCTyped, KCWrites, KCRowsTyped
<1>2. /\ kcup'[u] = up /\ kcsrc'[u] = src /\ kcclean'[u] = clean /\ kctemp'[u] = temp
      /\ kcfinal'[u] = final /\ kcsink'[u] = sink /\ kcdel'[u] = del /\ kcresume'[u] = resume
  BY DEF KCInd, KCTyped, KCWrites
<1>3. \A v \in KCUploads \ {u} :
          /\ kcup'[v] = kcup[v] /\ kcsrc'[v] = kcsrc[v] /\ kcclean'[v] = kcclean[v]
          /\ kctemp'[v] = kctemp[v] /\ kcfinal'[v] = kcfinal[v] /\ kcsink'[v] = kcsink[v]
          /\ kcdel'[v] = kcdel[v] /\ kcresume'[v] = kcresume[v]
  BY DEF KCInd, KCTyped, KCWrites
<1>4. ASSUME NEW v \in KCUploads  PROVE UploadFits(v)'
  <2>1. CASE v = u
    BY <1>2, <2>1 DEF UploadFits
  <2>2. CASE v # u
    <3>1. UploadFits(v)
      BY DEF KCInd, UploadsFit
    <3> QED  BY <1>3, <2>2, <3>1 DEF UploadFits
  <2> QED  BY <2>1, <2>2
<1> QED  BY <1>1, <1>4 DEF KCInd, UploadsFit

(* What is known of an upload.                                             *)
LEMMA UploadView ==
    ASSUME KCInd, NEW u \in KCUploads
    PROVE  /\ KCRowsTyped(kcup[u], kcsrc[u], kcclean[u], kctemp[u], kcfinal[u], kcsink[u],
                          kcdel[u], kcresume[u])
           /\ UploadFits(u)
           /\ kcup = [kcup EXCEPT ![u] = kcup[u]] /\ kcsrc = [kcsrc EXCEPT ![u] = kcsrc[u]]
           /\ kcclean = [kcclean EXCEPT ![u] = kcclean[u]]
           /\ kctemp = [kctemp EXCEPT ![u] = kctemp[u]]
           /\ kcfinal = [kcfinal EXCEPT ![u] = kcfinal[u]]
           /\ kcsink = [kcsink EXCEPT ![u] = kcsink[u]]
           /\ kcdel = [kcdel EXCEPT ![u] = kcdel[u]]
           /\ kcresume = [kcresume EXCEPT ![u] = kcresume[u]]
           /\ KCDeclared[u] \in Content /\ Len(KCDeclared[u]) \in Nat /\ KCDeclared[u] # <<>>
  BY KnowledgeContentAssumption DEF KCInd, KCTyped, KCRowsTyped, UploadsFit, Content

LEMMA Spent ==
    ASSUME KCInd, NEW b \in {"faults", "deletes"}, KCSpend(b)
    PROVE  kcleft' \in Left /\ kcleft'.early = kcleft.early
<1>1. kcleft \in Left
  BY DEF KCInd, KCTyped
<1>2. CASE b = "faults"
  BY <1>1, <1>2 DEF KCSpend, Left
<1>3. CASE b = "deletes"
  BY <1>1, <1>3 DEF KCSpend, Left
<1> QED  BY <1>2, <1>3

(* A reservation for each open upload.                                     *)
LEMMA ReservationTaken ==
    ASSUME KCInd, NEW u \in KCUploads, kcup[u].status # "uploading",
           Cardinality(kcres) < KCMaxActive,
           kcup' = [kcup EXCEPT ![u].status = "uploading"], kcres' = kcres \cup {u}
    PROVE  ReservationsExact'
<1>1. kcup \in [KCUploads -> UpRow] /\ kcres = {v \in KCUploads : kcup[v].status = "uploading"}
  BY DEF KCInd, KCTyped, ReservationsExact
<1>2. /\ kcup'[u].status = "uploading"
      /\ \A v \in KCUploads \ {u} : kcup'[v] = kcup[v]
  BY <1>1 DEF UpRow
<1>3. kcres' = {v \in KCUploads : kcup'[v].status = "uploading"}
  BY <1>1, <1>2
<1>4. IsFiniteSet(kcres) /\ u \notin kcres
  BY <1>1, FS_Subset, KnowledgeContentAssumption
<1>5. Cardinality(kcres') = Cardinality(kcres) + 1 /\ Cardinality(kcres) \in Nat
  BY <1>4, FS_AddElement, FS_CardinalityType
<1> QED  BY <1>3, <1>5, KnowledgeContentAssumption DEF ReservationsExact

LEMMA ReservationDropped ==
    ASSUME KCInd, NEW u \in KCUploads, NEW s, s # "uploading",
           kcup' = [kcup EXCEPT ![u].status = s], kcres' = kcres \ {u}
    PROVE  ReservationsExact'
<1>1. /\ kcup \in [KCUploads -> UpRow] /\ kcres = {v \in KCUploads : kcup[v].status = "uploading"}
      /\ Cardinality(kcres) <= KCMaxActive
  BY DEF KCInd, KCTyped, ReservationsExact
<1>2. /\ kcup'[u].status = s
      /\ \A v \in KCUploads \ {u} : kcup'[v] = kcup[v]
  BY <1>1 DEF UpRow
<1>3. kcres' = {v \in KCUploads : kcup'[v].status = "uploading"}
  BY <1>1, <1>2
<1>4. IsFiniteSet(kcres)
  BY <1>1, FS_Subset, KnowledgeContentAssumption
<1>5. Cardinality(kcres') <= Cardinality(kcres) /\ Cardinality(kcres) \in Nat
      /\ Cardinality(kcres') \in Nat
  BY <1>4, FS_Subset, FS_CardinalityType
<1> QED  BY <1>1, <1>3, <1>5, KnowledgeContentAssumption DEF ReservationsExact

LEMMA ReservationKept ==
    ASSUME KCInd, kcres' = kcres, \A v \in KCUploads : kcup'[v].status = kcup[v].status
    PROVE  ReservationsExact'
  BY DEF KCInd, ReservationsExact

(* The same, with names for the rows and files.                            *)
Known(u, D, up, src, clean, temp, final, sink, del, resume) ==
    /\ D = KCDeclared[u] /\ D \in Content /\ Len(D) \in Nat /\ D # <<>>
    /\ up = kcup[u] /\ src = kcsrc[u] /\ clean = kcclean[u] /\ temp = kctemp[u]
    /\ final = kcfinal[u] /\ sink = kcsink[u] /\ del = kcdel[u] /\ resume = kcresume[u]
    /\ KCRowsTyped(up, src, clean, temp, final, sink, del, resume)
    /\ FilesFit(D, up, temp, final, sink) /\ DeletesFit(up, src, clean, del)
    /\ ReadyFits(D, src, final)
    /\ ~kcleft.early => LateFits(up, src, clean, temp, final, del, resume)
    /\ kcleft \in Left

LEMMA UploadKnown ==
    ASSUME KCInd, NEW u \in KCUploads
    PROVE  \E D, up, src, clean, temp, final, sink, del, resume :
               Known(u, D, up, src, clean, temp, final, sink, del, resume)
<1>1. kcleft \in Left
  BY DEF KCInd, KCTyped
<1> QED  BY <1>1, UploadView DEF UploadFits, Known

(* What is left alone is written as it was.                                *)
LEMMA LeftAlone ==
    ASSUME KCInd, NEW u \in KCUploads
    PROVE  /\ kcup' = kcup => kcup' = [kcup EXCEPT ![u] = kcup[u]]
           /\ kcsrc' = kcsrc => kcsrc' = [kcsrc EXCEPT ![u] = kcsrc[u]]
           /\ kcclean' = kcclean => kcclean' = [kcclean EXCEPT ![u] = kcclean[u]]
           /\ kctemp' = kctemp => kctemp' = [kctemp EXCEPT ![u] = kctemp[u]]
           /\ kcfinal' = kcfinal => kcfinal' = [kcfinal EXCEPT ![u] = kcfinal[u]]
           /\ kcsink' = kcsink => kcsink' = [kcsink EXCEPT ![u] = kcsink[u]]
           /\ kcdel' = kcdel => kcdel' = [kcdel EXCEPT ![u] = kcdel[u]]
           /\ kcresume' = kcresume => kcresume' = [kcresume EXCEPT ![u] = kcresume[u]]
           /\ kcup' = kcup /\ kcres' = kcres => ReservationsExact'
           /\ kcleft' = kcleft => kcleft' \in Left /\ kcleft'.early = kcleft.early
<1>1. kcup' = kcup /\ kcres' = kcres => ReservationsExact'
  BY ReservationKept
<1>2. kcleft \in Left
  BY DEF KCInd, KCTyped
<1> QED  BY <1>1, <1>2, UploadView

(***************************************************************************)
(* Files.                                                                  *)
(***************************************************************************)
LEMMA PrefixIsRows ==
    ASSUME NEW rows \in Content, NEW f \in Content, Len(rows) <= Len(f),
           \A i \in 1..Len(rows) : f[i] = rows[i]
    PROVE  SubSeq(f, 1, Len(rows)) = rows
<1>1. rows \in Seq(KCData) /\ f \in Seq(KCData) /\ Len(rows) \in Nat /\ Len(f) \in Nat
  BY DEF Content
<1>2. /\ SubSeq(f, 1, Len(rows)) \in Seq(KCData)
      /\ Len(SubSeq(f, 1, Len(rows))) = Len(rows)
      /\ \A i \in 1..Len(rows) : SubSeq(f, 1, Len(rows))[i] = f[i]
  BY <1>1, SubSeqProperties
<1> QED  BY <1>1, <1>2, SeqEqual

(* A chunk: the staging file is cut to the rows, and grows by the chunk.   *)
LEMMA ChunkFits ==
    ASSUME NEW D \in Content, NEW up \in UpRow, NEW temp \in SUBSET Content,
           NEW final, NEW sink, NEW s \in SinkRow, NEW f \in temp, NEW d \in KCData,
           FilesFit(D, up, temp, final, sink), up.status = "uploading",
           Len(up.rows) < Len(D), Len(up.rows) <= Len(f), s.state = "open"
    PROVE  /\ SubSeq(f, 1, Len(up.rows)) = up.rows
           /\ Append(up.rows, d) \in Content
           /\ FilesFit(D, [up EXCEPT !.rows = Append(up.rows, d)], {Append(up.rows, d)}, final, s)
           /\ FilesFit(D, up, {up.rows}, final, s)
           /\ FilesFit(D, up, {Append(up.rows, d)}, final, s)
<1>1. /\ up.rows \in Content /\ f \in Content /\ Len(up.rows) \in Nat /\ Len(D) \in Nat
      /\ up.rows \in Seq(KCData)
  BY DEF Content, UpRow
<1>2. SubSeq(f, 1, Len(up.rows)) = up.rows
  BY <1>1, PrefixIsRows DEF FilesFit
<1>3. PICK r : r = Append(up.rows, d)
  OBVIOUS
<1>4. /\ r \in Seq(KCData) /\ Len(r) = Len(up.rows) + 1
      /\ \A i \in 1..Len(up.rows) : r[i] = up.rows[i]
  BY <1>1, <1>3, AppendProperties
<1>5. \A c \in final : FALSE
  BY <1>1 DEF FilesFit
<1>6. FilesFit(D, [up EXCEPT !.rows = r], {r}, final, s)
  <2>1. PICK q : q = [up EXCEPT !.rows = r]
    OBVIOUS
  <2>2. q.rows = r /\ q.status = "uploading"
    BY <2>1 DEF UpRow
  <2>3. FilesFit(D, q, {r}, final, s)
    BY <1>1, <1>4, <1>5, <2>2 DEF FilesFit
  <2> QED  BY <2>1, <2>3
<1>7. FilesFit(D, up, {up.rows}, final, s)
  BY <1>1, <1>5 DEF FilesFit
<1>8. FilesFit(D, up, {r}, final, s)
  BY <1>1, <1>4, <1>5 DEF FilesFit
<1> QED  BY <1>2, <1>3, <1>4, <1>6, <1>7, <1>8 DEF Content

(* What sinkFor may return.                                                *)
LEMMA SinkView ==
    ASSUME KCInd, NEW u \in KCUploads, NEW s \in sinkFor(u)
    PROVE  /\ s \in SinkRow /\ s.state # "none"
           /\ s.state = "final" =>
                 s.content = kcup[u].rows /\ Len(kcup[u].rows) = Len(KCDeclared[u])
           /\ s.state \in {"final", "aborted"} => kctemp[u] = {}
<1>1. KCRowsTyped(kcup[u], kcsrc[u], kcclean[u], kctemp[u], kcfinal[u], kcsink[u],
                  kcdel[u], kcresume[u])
  BY UploadView
<1>2. FilesFit(KCDeclared[u], kcup[u], kctemp[u], kcfinal[u], kcsink[u])
  BY UploadView DEF UploadFits
<1>3. CASE kcsink[u].state # "none"
  <2>1. s = kcsink[u]
    BY <1>3 DEF sinkFor
  <2> QED  BY <1>1, <1>2, <1>3, <2>1 DEF FilesFit, KCRowsTyped
<1>4. CASE kcsink[u].state = "none" /\ kctemp[u] # {}
  <2>1. s = OpenSink
    BY <1>4 DEF sinkFor
  <2>2. OpenSink \in SinkRow
    BY DEF OpenSink, SinkRow, Content
  <2> QED  BY <2>1, <2>2 DEF OpenSink
<1>5. CASE kcsink[u].state = "none" /\ kctemp[u] = {}
  <2>1. PICK c \in kcfinal[u] : s = FinalSink(c)
    BY <1>5 DEF sinkFor
  <2>2. c \in Content /\ c = kcup[u].rows /\ Len(c) = Len(KCDeclared[u])
    BY <1>1, <1>2 DEF FilesFit, KCRowsTyped
  <2> QED  BY <1>5, <2>1, <2>2 DEF FinalSink, SinkRow
<1> QED  BY <1>3, <1>4, <1>5

(* A sink that was found takes the place of the one in memory.             *)
LEMMA SinkSwaps ==
    ASSUME KCInd, NEW u \in KCUploads, NEW s \in sinkFor(u), kcup[u].status # "none"
    PROVE  FilesFit(KCDeclared[u], kcup[u], kctemp[u], kcfinal[u], s)
<1>1. FilesFit(KCDeclared[u], kcup[u], kctemp[u], kcfinal[u], kcsink[u])
  BY UploadView DEF UploadFits
<1> QED  BY <1>1, SinkView DEF FilesFit

(***************************************************************************)
(* Uploads.                                                                *)
(***************************************************************************)
LEMMA StartKeeps ==
    ASSUME KCInd, NEW u \in KCUploads, StartUpload(u)
    PROVE  KCInd'
<1>1. PICK D, up, src, clean, temp, final, sink, del, resume :
          Known(u, D, up, src, clean, temp, final, sink, del, resume)
  BY UploadKnown
<1>2. /\ up.status = "none" /\ Cardinality(kcres) < KCMaxActive
      /\ UNCHANGED <<kcclean, kcfinal, kcCalls>>
  BY <1>1 DEF StartUpload, Known
<1>3. PICK up1, src1 : /\ up1 = [up EXCEPT !.status = "uploading"]
                       /\ src1 = [src EXCEPT !.status = "uploading"]
  OBVIOUS
<1>4. /\ up1 \in UpRow /\ src1 \in SrcRow /\ up1.status = "uploading" /\ up1.rows = up.rows
      /\ src1.status = "uploading" /\ src1.ref = src.ref
  BY <1>1, <1>3 DEF Known, KCRowsTyped, UpRow, SrcRow, Deletable
<1>5. /\ Started(u) => /\ kcup' = [kcup EXCEPT ![u] = up1] /\ kcsrc' = [kcsrc EXCEPT ![u] = src1]
                       /\ ReservationsExact'
  BY <1>1, <1>2, <1>3, ReservationTaken DEF Started, Known
<1>6. /\ {<<>>} \in SUBSET Content /\ {} \in SUBSET Content /\ OpenSink \in SinkRow
      /\ OpenSink.state = "open" /\ Len(<<>>) = 0 /\ up.rows = <<>> /\ sink.state = "none"
  BY <1>1, <1>2 DEF Content, OpenSink, SinkRow, Known, FilesFit
<1>7. /\ FilesFit(D, up1, {<<>>}, final, OpenSink) /\ FilesFit(D, up1, {<<>>}, final, sink)
      /\ FilesFit(D, up, {<<>>}, final, sink) /\ FilesFit(D, up, {}, final, sink)
  BY <1>1, <1>2, <1>4, <1>6 DEF Known, FilesFit
<1>8. DeletesFit(up1, src1, clean, del) /\ ReadyFits(D, src1, final)
  BY <1>1, <1>2, <1>4 DEF Known, DeletesFit, ReadyFits, BeingDeleted
<1>9. ~kcleft.early => /\ LateFits(up1, src1, clean, {<<>>}, final, del, resume)
                       /\ LateFits(up, src, clean, {<<>>}, final, del, resume)
                       /\ LateFits(up, src, clean, {}, final, del, resume)
  BY <1>1, <1>2, <1>4 DEF Known, LateFits, BeingDeleted
<1>10. /\ KCRowsTyped(up1, src1, clean, {<<>>}, final, OpenSink, del, resume)
       /\ KCRowsTyped(up1, src1, clean, {<<>>}, final, sink, del, resume)
       /\ KCRowsTyped(up, src, clean, {<<>>}, final, sink, del, resume)
       /\ KCRowsTyped(up, src, clean, {}, final, sink, del, resume)
  BY <1>1, <1>4, <1>6 DEF Known, KCRowsTyped
<1>11. \/ /\ KCWrites(u, up1, src1, clean, {<<>>}, final, OpenSink, del, resume)
          /\ ReservationsExact' /\ UNCHANGED kcleft
       \/ /\ KCWrites(u, up1, src1, clean, {<<>>}, final, sink, del, resume)
          /\ ReservationsExact' /\ KCSpend("faults")
       \/ /\ KCWrites(u, up, src, clean, {<<>>}, final, sink, del, resume)
          /\ ReservationsExact' /\ KCSpend("faults")
       \/ /\ KCWrites(u, up, src, clean, {}, final, sink, del, resume)
          /\ ReservationsExact' /\ KCSpend("faults")
  BY <1>1, <1>2, <1>5, LeftAlone DEF StartUpload, Known, KCWrites, kcCalls
<1>12. /\ UNCHANGED kcleft => kcleft' \in Left /\ kcleft'.early = kcleft.early
       /\ KCSpend("faults") => kcleft' \in Left /\ kcleft'.early = kcleft.early
  BY Spent, LeftAlone
<1>13. D = KCDeclared[u] /\ DeletesFit(up, src, clean, del) /\ ReadyFits(D, src, final)
  BY <1>1 DEF Known
<1> QED  BY <1>7, <1>8, <1>9, <1>10, <1>11, <1>12, <1>13, UploadMoves

LEMMA AppendKeeps ==
    ASSUME KCInd, NEW u \in KCUploads, NEW d \in KCData, AppendUploadChunk(u, d)
    PROVE  KCInd'
<1>1. PICK D, up, src, clean, temp, final, sink, del, resume :
          Known(u, D, up, src, clean, temp, final, sink, del, resume)
  BY UploadKnown
<1>2. /\ up.status = "uploading" /\ Len(up.rows) < Len(D)
      /\ UNCHANGED <<kcsrc, kcres, kcclean, kcfinal, kcCalls>>
  BY <1>1 DEF AppendUploadChunk, Known, Received, DeclaredSize
<1>3. PICK s \in sinkFor(u), f \in temp :
          /\ s.state = "open" /\ Len(up.rows) <= Len(f)
          /\ kcsink' = [kcsink EXCEPT ![u] = s]
          /\ \/ /\ kctemp' = [kctemp EXCEPT ![u] = {Append(SubSeq(f, 1, Len(up.rows)), d)}]
                /\ kcup' = [kcup EXCEPT ![u].rows = Append(@, d)]
                /\ UNCHANGED kcleft
             \/ /\ KCSpend("faults")
                /\ kctemp' = [kctemp EXCEPT ![u] = {SubSeq(f, 1, Len(up.rows))}]
                /\ UNCHANGED kcup
             \/ /\ KCSpend("faults")
                /\ kctemp' = [kctemp EXCEPT ![u] = {Append(SubSeq(f, 1, Len(up.rows)), d)}]
                /\ UNCHANGED kcup
  BY <1>1 DEF AppendUploadChunk, Known, Received, Prefix
<1>4. PICK r, up1 : r = Append(up.rows, d) /\ up1 = [up EXCEPT !.rows = r]
  OBVIOUS
<1>5. up \in UpRow /\ temp \in SUBSET Content /\ s \in SinkRow
  BY <1>1, <1>3, SinkView DEF Known, KCRowsTyped
<1>6. /\ SubSeq(f, 1, Len(up.rows)) = up.rows /\ r \in Content
      /\ FilesFit(D, up1, {r}, final, s) /\ FilesFit(D, up, {up.rows}, final, s)
      /\ FilesFit(D, up, {r}, final, s)
  <2>1. FilesFit(D, up, temp, final, sink) /\ D \in Content
    BY <1>1 DEF Known
  <2>2. /\ SubSeq(f, 1, Len(up.rows)) = up.rows
        /\ Append(up.rows, d) \in Content
        /\ FilesFit(D, [up EXCEPT !.rows = Append(up.rows, d)], {Append(up.rows, d)}, final, s)
        /\ FilesFit(D, up, {up.rows}, final, s)
        /\ FilesFit(D, up, {Append(up.rows, d)}, final, s)
    BY <1>2, <1>3, <1>5, <2>1, ChunkFits
  <2> QED  BY <1>4, <2>2
<1>7. up1 \in UpRow /\ up1.status = "uploading" /\ up.rows \in Content
  BY <1>2, <1>4, <1>5, <1>6 DEF UpRow
<1>8. /\ DeletesFit(up1, src, clean, del) /\ DeletesFit(up, src, clean, del)
      /\ ReadyFits(D, src, final)
  BY <1>1, <1>2, <1>7 DEF Known, DeletesFit
<1>9. ~kcleft.early => \A g : /\ LateFits(up1, src, clean, g, final, del, resume)
                              /\ LateFits(up, src, clean, g, final, del, resume)
  BY <1>1, <1>2, <1>7 DEF Known, LateFits
<1>10. /\ KCRowsTyped(up1, src, clean, {r}, final, s, del, resume)
       /\ KCRowsTyped(up, src, clean, {up.rows}, final, s, del, resume)
       /\ KCRowsTyped(up, src, clean, {r}, final, s, del, resume)
  BY <1>1, <1>5, <1>6, <1>7 DEF Known, KCRowsTyped
<1>11. kcup' = [kcup EXCEPT ![u].rows = Append(@, d)]
          => kcup' = [kcup EXCEPT ![u] = up1] /\ ReservationsExact'
  <2>1. SUFFICES ASSUME kcup' = [kcup EXCEPT ![u].rows = Append(@, d)]
                 PROVE  kcup' = [kcup EXCEPT ![u] = up1] /\ ReservationsExact'
    OBVIOUS
  <2>2. kcup' = [kcup EXCEPT ![u] = up1]
    BY <1>1, <1>4, <2>1 DEF Known
  <2>3. \A v \in KCUploads : kcup'[v].status = kcup[v].status
    BY <1>1, <1>2, <1>7, <2>2 DEF KCInd, KCTyped, Known
  <2> QED  BY <1>2, <2>2, <2>3, ReservationKept
<1>12. \/ /\ KCWrites(u, up1, src, clean, {r}, final, s, del, resume)
          /\ ReservationsExact' /\ UNCHANGED kcleft
       \/ /\ KCWrites(u, up, src, clean, {up.rows}, final, s, del, resume)
          /\ ReservationsExact' /\ KCSpend("faults")
       \/ /\ KCWrites(u, up, src, clean, {r}, final, s, del, resume)
          /\ ReservationsExact' /\ KCSpend("faults")
  BY <1>1, <1>2, <1>3, <1>4, <1>6, <1>11, LeftAlone DEF Known, KCWrites, kcCalls
<1>13. /\ UNCHANGED kcleft => kcleft' \in Left /\ kcleft'.early = kcleft.early
       /\ KCSpend("faults") => kcleft' \in Left /\ kcleft'.early = kcleft.early
       /\ D = KCDeclared[u]
  BY <1>1, Spent, LeftAlone DEF Known
<1> QED  BY <1>6, <1>8, <1>9, <1>10, <1>12, <1>13, UploadMoves

(* A sink that was spent has no file.                                      *)
LEMMA SpentFits ==
    ASSUME NEW D, NEW up, NEW temp, NEW final, NEW s \in SinkRow, NEW a,
           FilesFit(D, up, temp, final, s), up.status = "uploading",
           a = [s EXCEPT !.state = "aborted"]
    PROVE  FilesFit(D, up, {}, final, a)
<1>1. a.state = "aborted"
  BY DEF SinkRow
<1> QED  BY <1>1 DEF FilesFit

LEMMA CommitKeeps ==
    ASSUME KCInd, NEW u \in KCUploads, NEW c \in [1..DeclaredSize(u) -> KCData],
           CommitUpload(u, c)
    PROVE  KCInd'
<1>1. PICK D, up, src, clean, temp, final, sink, del, resume :
          Known(u, D, up, src, clean, temp, final, sink, del, resume)
  BY UploadKnown
<1>2. up.status = "uploading" /\ Len(up.rows) = Len(D) /\ UNCHANGED kcCalls
  BY <1>1 DEF CommitUpload, Known, Received, DeclaredSize
<1>3. PICK s \in sinkFor(u) :
          \/ ~Finalizes(u, s, c) /\ FinalizeFails(u, s) /\ UNCHANGED kcleft
          \/ s.state = "open" /\ KCSpend("faults") /\ FinalizeFails(u, s)
          \/ /\ Finalizes(u, s, c)
             /\ \/ /\ Renamed(u, c)
                   /\ kcsink' = [kcsink EXCEPT ![u] = FinalSink(c)]
                   /\ UNCHANGED <<kcRows, kcleft>>
                \/ /\ c = D /\ Renamed(u, c) /\ UploadReady(u)
                   /\ kcsink' = [kcsink EXCEPT ![u] = NoSink]
                   /\ UNCHANGED kcleft
                \/ /\ c = D /\ KCSpend("faults") /\ Renamed(u, c) /\ UploadReady(u)
                   /\ kcsink' = [kcsink EXCEPT ![u] = FinalSink(c)]
                \/ /\ KCSpend("faults") /\ Renamed(u, c)
                   /\ kcsink' = [kcsink EXCEPT ![u] = FinalSink(c)]
                   /\ UNCHANGED kcRows
                \/ /\ KCSpend("faults")
                   /\ kctemp' = [kctemp EXCEPT ![u] = {}]
                   /\ \E left \in {{}, {c}} : kcfinal' = [kcfinal EXCEPT ![u] = (@ \ {c}) \cup left]
                   /\ kcsink' = [kcsink EXCEPT ![u] = NoSink]
                   /\ UNCHANGED kcRows
  BY <1>1 DEF CommitUpload, Known
<1>4. /\ up \in UpRow /\ src \in SrcRow /\ temp \in SUBSET Content /\ final \in SUBSET Content
      /\ s \in SinkRow /\ FilesFit(D, up, temp, final, s) /\ c \in [1..Len(D) -> KCData]
      /\ D \in Content /\ D = KCDeclared[u]
  BY <1>1, <1>2, <1>3, SinkView, SinkSwaps DEF Known, KCRowsTyped, DeclaredSize
<1>5. PICK w, a : w = FinalSink(c) /\ a = [s EXCEPT !.state = "aborted"]
  OBVIOUS
<1>6. PICK up1, src1 : /\ up1 = [up EXCEPT !.status = "ready"]
                       /\ src1 = [status |-> "ready", ref |-> TRUE]
  OBVIOUS
<1>7. /\ s.state = "open" => FilesFit(D, up, {}, final, a)
      /\ Finalizes(u, s, c) =>
            /\ c = up.rows /\ c \in Content
            /\ FilesFit(D, up, {}, final \cup {c}, w)
            /\ \A left \in {{}, {c}} : FilesFit(D, up, {}, (final \ {c}) \cup left, NoSink)
            /\ c = D => FilesFit(D, up1, {}, final \cup {c}, NoSink) /\ FilesFit(D, up1, {}, final \cup {c}, w)
  <2>1. s.state = "open" => FilesFit(D, up, {}, final, a)
    BY <1>2, <1>4, <1>5, SpentFits
  <2>2. Finalizes(u, s, c) <=> s = w \/ (s.state = "open" /\ c \in temp)
    BY <1>1, <1>5 DEF Finalizes, Known
  <2>3. ASSUME s = w \/ (s.state = "open" /\ c \in temp)
        PROVE  /\ c = up.rows /\ c \in Content
               /\ FilesFit(D, up, {}, final \cup {c}, w)
               /\ \A left \in {{}, {c}} : FilesFit(D, up, {}, (final \ {c}) \cup left, NoSink)
               /\ c = D => /\ FilesFit(D, up1, {}, final \cup {c}, NoSink)
                           /\ FilesFit(D, up1, {}, final \cup {c}, w)
    <3>1. Len(D) \in Nat /\ up.rows \in Content /\ Len(up.rows) \in Nat
      BY <1>4 DEF Content, UpRow
    <3>2. w.state = "final" /\ w.content = c /\ NoSink.state = "none"
      BY <1>5 DEF FinalSink, NoSink
    <3>3. c = up.rows
      <4>1. CASE s = w
        BY <1>4, <3>2, <4>1 DEF FilesFit
      <4>2. CASE s.state = "open" /\ c \in temp
        <5>1. c \in Seq(KCData) /\ Len(c) = Len(D)
          BY <1>4, <3>1, <4>2 DEF Content
        <5>2. \A i \in 1..Len(c) : c[i] = up.rows[i]
          BY <1>2, <1>4, <3>1, <4>2, <5>1 DEF FilesFit
        <5>3. up.rows \in Seq(KCData)
          BY <3>1 DEF Content
        <5> QED  BY <1>2, <5>1, <5>2, <5>3, SeqEqual
      <4> QED  BY <2>3, <4>1, <4>2
    <3>4. up1.status = "ready" /\ up1.rows = up.rows
      BY <1>4, <1>6 DEF UpRow
    <3>5. FilesFit(D, up, {}, final \cup {c}, w)
      BY <1>2, <1>4, <3>1, <3>2, <3>3 DEF FilesFit
    <3>6. \A left \in {{}, {c}} : FilesFit(D, up, {}, (final \ {c}) \cup left, NoSink)
      BY <1>2, <1>4, <3>1, <3>2, <3>3 DEF FilesFit
    <3>7. c = D => /\ FilesFit(D, up1, {}, final \cup {c}, NoSink)
                   /\ FilesFit(D, up1, {}, final \cup {c}, w)
      BY <1>2, <1>4, <3>1, <3>2, <3>3, <3>4 DEF FilesFit
    <3> QED  BY <3>1, <3>3, <3>5, <3>6, <3>7
  <2> QED  BY <2>1, <2>2, <2>3
<1>8. /\ up1 \in UpRow /\ up1.status = "ready" /\ src1 \in SrcRow /\ src1.status = "ready" /\ src1.ref
      /\ a \in SinkRow /\ NoSink \in SinkRow /\ (c \in Content => w \in SinkRow)
  <2>1. up1 \in UpRow /\ up1.status = "ready"
    BY <1>4, <1>6 DEF UpRow
  <2>2. src1 \in SrcRow /\ src1.status = "ready" /\ src1.ref
    BY <1>6 DEF SrcRow, Deletable
  <2>3. a \in SinkRow
    BY <1>4, <1>5 DEF SinkRow
  <2>4. NoSink \in SinkRow
    BY DEF SinkRow, NoSink, Content
  <2>5. c \in Content => w \in SinkRow
    BY <1>5 DEF SinkRow, FinalSink
  <2> QED  BY <2>1, <2>2, <2>3, <2>4, <2>5
<1>9. DeletesFit(up1, src1, clean, del) /\ DeletesFit(up, src, clean, del)
  BY <1>1, <1>2, <1>8 DEF Known, DeletesFit, BeingDeleted
<1>10. \A g : ReadyFits(D, src1, g \cup {D}) /\ ReadyFits(D, src, g)
  BY <1>1, <1>2 DEF Known, DeletesFit, ReadyFits
<1>11. ~kcleft.early => \A f, g : /\ LateFits(up, src, clean, f, g, del, resume)
                                  /\ LateFits(up1, src1, clean, {}, g, del, resume)
  BY <1>1, <1>2, <1>8 DEF Known, LateFits, BeingDeleted
<1>12. /\ KCRowsTyped(up, src, clean, temp, final, s, del, resume)
       /\ KCRowsTyped(up, src, clean, {}, final, a, del, resume)
       /\ c \in Content =>
             /\ KCRowsTyped(up, src, clean, {}, final \cup {c}, w, del, resume)
             /\ \A left \in {{}, {c}} :
                   KCRowsTyped(up, src, clean, {}, (final \ {c}) \cup left, NoSink, del, resume)
             /\ KCRowsTyped(up1, src1, clean, {}, final \cup {c}, w, del, resume)
             /\ KCRowsTyped(up1, src1, clean, {}, final \cup {c}, NoSink, del, resume)
  BY <1>1, <1>4, <1>8 DEF Known, KCRowsTyped
<1>13. UploadReady(u) => /\ kcup' = [kcup EXCEPT ![u] = up1] /\ kcsrc' = [kcsrc EXCEPT ![u] = src1]
                         /\ kcclean' = kcclean /\ ReservationsExact'
  BY <1>1, <1>6, ReservationDropped DEF UploadReady, Known
<1>14. UNCHANGED kcRows => kcup' = kcup /\ kcsrc' = kcsrc /\ kcclean' = kcclean /\ ReservationsExact'
  BY LeftAlone DEF kcRows
<1>15. FinalizeFails(u, s) =>
          \/ /\ s.state = "open" /\ ReservationsExact'
             /\ KCWrites(u, up, src, clean, {}, final, a, del, resume)
          \/ /\ ReservationsExact'
             /\ KCWrites(u, up, src, clean, temp, final, s, del, resume)
  BY <1>1, <1>2, <1>5, <1>14, LeftAlone DEF FinalizeFails, AbortSink, Known, KCWrites, kcCalls
<1>16. /\ UNCHANGED kcleft => kcleft' \in Left /\ kcleft'.early = kcleft.early
       /\ KCSpend("faults") => kcleft' \in Left /\ kcleft'.early = kcleft.early
       /\ D = KCDeclared[u]
  BY <1>1, Spent, LeftAlone DEF Known
<1>17. CASE FinalizeFails(u, s) /\ (UNCHANGED kcleft \/ KCSpend("faults"))
  <2>1. CASE /\ s.state = "open" /\ ReservationsExact'
             /\ KCWrites(u, up, src, clean, {}, final, a, del, resume)
    BY <1>7, <1>9, <1>10, <1>11, <1>12, <1>16, <1>17, <2>1, UploadMoves
  <2>2. CASE /\ ReservationsExact'
             /\ KCWrites(u, up, src, clean, temp, final, s, del, resume)
    BY <1>4, <1>9, <1>10, <1>11, <1>12, <1>16, <1>17, <2>2, UploadMoves
  <2> QED  BY <1>15, <1>17, <2>1, <2>2
<1>18. CASE /\ Finalizes(u, s, c) /\ Renamed(u, c) /\ kcsink' = [kcsink EXCEPT ![u] = FinalSink(c)]
            /\ UNCHANGED kcRows /\ (UNCHANGED kcleft \/ KCSpend("faults"))
  <2>1. KCWrites(u, up, src, clean, {}, final \cup {c}, w, del, resume) /\ ReservationsExact'
    BY <1>1, <1>2, <1>5, <1>14, <1>18, LeftAlone DEF Renamed, Known, KCWrites, kcCalls
  <2> QED  BY <1>7, <1>9, <1>10, <1>11, <1>12, <1>16, <1>18, <2>1, UploadMoves
<1>19. CASE /\ Finalizes(u, s, c) /\ c = D /\ Renamed(u, c) /\ UploadReady(u)
            /\ kcsink' = [kcsink EXCEPT ![u] = FinalSink(c)] /\ KCSpend("faults")
  <2>1. KCWrites(u, up1, src1, clean, {}, final \cup {c}, w, del, resume) /\ ReservationsExact'
    BY <1>1, <1>2, <1>5, <1>13, <1>19, LeftAlone DEF Renamed, Known, KCWrites, kcCalls
  <2> QED  BY <1>7, <1>9, <1>10, <1>11, <1>12, <1>16, <1>19, <2>1, UploadMoves
<1>20. CASE /\ Finalizes(u, s, c) /\ c = D /\ Renamed(u, c) /\ UploadReady(u)
            /\ kcsink' = [kcsink EXCEPT ![u] = NoSink] /\ UNCHANGED kcleft
  <2>1. KCWrites(u, up1, src1, clean, {}, final \cup {c}, NoSink, del, resume) /\ ReservationsExact'
    BY <1>1, <1>2, <1>13, <1>20, LeftAlone DEF Renamed, Known, KCWrites, kcCalls
  <2> QED  BY <1>7, <1>9, <1>10, <1>11, <1>12, <1>16, <1>20, <2>1, UploadMoves
<1>21. CASE /\ Finalizes(u, s, c) /\ kctemp' = [kctemp EXCEPT ![u] = {}]
            /\ \E left \in {{}, {c}} : kcfinal' = [kcfinal EXCEPT ![u] = (@ \ {c}) \cup left]
            /\ kcsink' = [kcsink EXCEPT ![u] = NoSink]
            /\ UNCHANGED kcRows /\ KCSpend("faults")
  <2>1. PICK left \in {{}, {c}} : kcfinal' = [kcfinal EXCEPT ![u] = (@ \ {c}) \cup left]
    BY <1>21
  <2>2. KCWrites(u, up, src, clean, {}, (final \ {c}) \cup left, NoSink, del, resume) /\ ReservationsExact'
    BY <1>1, <1>2, <1>14, <1>21, <2>1, LeftAlone DEF Known, KCWrites, kcCalls
  <2> QED  BY <1>7, <1>9, <1>10, <1>11, <1>12, <1>16, <1>21, <2>2, UploadMoves
<1> QED  BY <1>3, <1>17, <1>18, <1>19, <1>20, <1>21

LEMMA AbortKeeps ==
    ASSUME KCInd, NEW u \in KCUploads, AbortUpload(u)
    PROVE  KCInd'
<1>1. PICK D, up, src, clean, temp, final, sink, del, resume :
          Known(u, D, up, src, clean, temp, final, sink, del, resume)
  BY UploadKnown
<1>2. up.status = "uploading" /\ UNCHANGED <<kcFiles, kcCalls, kcleft>>
  BY <1>1 DEF AbortUpload, Known
<1>3. PICK up1, src1, clean1 : /\ up1 = [up EXCEPT !.status = "deleted"]
                               /\ src1 = [src EXCEPT !.status = "deleted"]
                               /\ clean1 = [clean EXCEPT !.op = "upload_abort"]
  OBVIOUS
<1>4. /\ up1 \in UpRow /\ up1.status = "deleted" /\ up1.rows = up.rows
      /\ src1 \in SrcRow /\ src1.status = "deleted" /\ src1.ref = src.ref
      /\ clean1 \in CleanRow /\ clean1.op = "upload_abort"
  BY <1>1, <1>3 DEF Known, KCRowsTyped, UpRow, SrcRow, CleanRow
<1>5. KCRowsTyped(up1, src1, clean1, temp, final, sink, del, resume)
  BY <1>1, <1>4 DEF Known, KCRowsTyped
<1>6. FilesFit(D, up1, temp, final, sink)
  <2>1. FilesFit(D, up, temp, final, sink)
    BY <1>1 DEF Known
  <2>2. up1.rows = up.rows /\ up1.status = "deleted"
    BY <1>4
  <2> QED  BY <2>1, <2>2 DEF FilesFit
<1>7. DeletesFit(up1, src1, clean1, del) /\ ReadyFits(D, src1, final)
  BY <1>1, <1>2, <1>4 DEF Known, DeletesFit, ReadyFits, BeingDeleted
<1>8. ~kcleft.early => LateFits(up1, src1, clean1, temp, final, del, resume)
  BY <1>1, <1>2, <1>4 DEF Known, LateFits, BeingDeleted
<1>9. ReservationsExact'
  BY ReservationDropped DEF AbortUpload
<1>10. KCWrites(u, up1, src1, clean1, temp, final, sink, del, resume)
  BY <1>1, <1>2, <1>3, LeftAlone DEF AbortUpload, Known, KCWrites, kcCalls, kcFiles
<1>11. /\ UNCHANGED kcleft => kcleft' \in Left /\ kcleft'.early = kcleft.early
       /\ KCSpend("faults") => kcleft' \in Left /\ kcleft'.early = kcleft.early
       /\ D = KCDeclared[u] /\ FilesFit(D, up, temp, final, sink)
  BY <1>1, Spent, LeftAlone DEF Known
<1> QED  BY <1>2, <1>5, <1>6, <1>7, <1>8, <1>9, <1>10, <1>11, UploadMoves

LEMMA CleanupKeeps ==
    ASSUME KCInd, NEW u \in KCUploads, cleanupAbortedUpload(u)
    PROVE  KCInd'
<1>1. PICK D, up, src, clean, temp, final, sink, del, resume :
          Known(u, D, up, src, clean, temp, final, sink, del, resume)
  BY UploadKnown
<1>2. up.status = "deleted" /\ UNCHANGED <<kcup, kcsrc, kcres, kcfinal, kcCalls>>
  BY <1>1 DEF cleanupAbortedUpload, Known
<1>3. PICK clean1 : clean1 = IF clean.op = "upload_abort" THEN NoCleanup ELSE clean
  OBVIOUS
<1>4. clean1 \in CleanRow /\ (clean1 = clean \/ clean1.op = "none")
  BY <1>1, <1>3 DEF Known, KCRowsTyped, CleanRow, NoCleanup
<1>5. NoSink \in SinkRow /\ NoSink.state = "none" /\ {} \in SUBSET Content
  BY DEF NoSink, SinkRow, Content
<1>6. AbortCleaned(u) => kcclean' = [kcclean EXCEPT ![u] = clean1]
  BY <1>1, <1>3 DEF AbortCleaned, Known
<1>7. ASSUME NEW s \in sinkFor(u), AbortSink(u, s)  PROVE kctemp' = [kctemp EXCEPT ![u] = {}]
  <2>1. s.state # "open" => kctemp[u] = {}
    BY SinkView DEF SinkRow
  <2> QED  BY <1>7, <2>1 DEF AbortSink
<1>8. \/ /\ KCWrites(u, up, src, clean1, {}, final, NoSink, del, resume) /\ UNCHANGED kcleft
      \/ /\ KCWrites(u, up, src, clean, {}, final, NoSink, del, resume) /\ KCSpend("faults")
      \/ /\ KCWrites(u, up, src, clean1, {}, final, sink, del, resume) /\ UNCHANGED kcleft
  <2>1. CASE \E s \in sinkFor(u) :
             /\ AbortSink(u, s) /\ kcsink' = [kcsink EXCEPT ![u] = NoSink]
             /\ \/ AbortCleaned(u) /\ UNCHANGED kcleft
                \/ KCSpend("faults") /\ UNCHANGED kcclean
    BY <1>1, <1>2, <1>6, <1>7, <2>1, LeftAlone DEF Known, KCWrites, kcCalls
  <2>2. CASE /\ sinkFor(u) = {} /\ kctemp[u] = {}
             /\ AbortCleaned(u) /\ UNCHANGED <<kctemp, kcsink, kcleft>>
    BY <1>1, <1>2, <1>6, <2>2, LeftAlone DEF Known, KCWrites, kcCalls
  <2> QED  BY <2>1, <2>2 DEF cleanupAbortedUpload
<1>9. /\ KCRowsTyped(up, src, clean1, {}, final, NoSink, del, resume)
      /\ KCRowsTyped(up, src, clean, {}, final, NoSink, del, resume)
      /\ KCRowsTyped(up, src, clean1, {}, final, sink, del, resume)
  BY <1>1, <1>4, <1>5 DEF Known, KCRowsTyped
<1>10. FilesFit(D, up, {}, final, NoSink) /\ FilesFit(D, up, {}, final, sink)
  BY <1>1, <1>2, <1>5 DEF Known, FilesFit
<1>11. /\ DeletesFit(up, src, clean1, del) /\ DeletesFit(up, src, clean, del)
       /\ ReadyFits(D, src, final)
  BY <1>1, <1>2, <1>3, <1>4 DEF Known, DeletesFit
<1>12. ~kcleft.early => /\ LateFits(up, src, clean1, {}, final, del, resume)
                        /\ LateFits(up, src, clean, {}, final, del, resume)
  BY <1>1, <1>2, <1>4 DEF Known, LateFits
<1>13. /\ UNCHANGED kcleft => kcleft' \in Left /\ kcleft'.early = kcleft.early
       /\ KCSpend("faults") => kcleft' \in Left /\ kcleft'.early = kcleft.early
       /\ D = KCDeclared[u] /\ FilesFit(D, up, temp, final, sink)
  BY <1>1, Spent, LeftAlone DEF Known
<1>14. ReservationsExact'
  BY <1>2, LeftAlone
<1> QED  BY <1>8, <1>9, <1>10, <1>11, <1>12, <1>13, <1>14, UploadMoves

(***************************************************************************)
(* Deletions.                                                              *)
(***************************************************************************)
LEMMA DeleteBeginsKeeps ==
    ASSUME KCInd, NEW u \in KCUploads, DeleteBegins(u)
    PROVE  KCInd'
<1>1. PICK D, up, src, clean, temp, final, sink, del, resume :
          Known(u, D, up, src, clean, temp, final, sink, del, resume)
  BY UploadKnown
<1>2. /\ src.status \in Deletable /\ clean.op # "upload_abort"
      /\ src.status = "uploading" => kcleft.early
      /\ KCSpend("deletes") /\ UNCHANGED <<kcup, kcres, kcFiles, kcresume>>
  BY <1>1 DEF DeleteBegins, Known
<1>3. PICK src1, clean1, k : /\ src1 = [src EXCEPT !.status = "deleting"]
                             /\ clean1 = DeleteIntent(clean, src.ref)
                             /\ k = [pc |-> "begun", ref |-> src.ref]
  OBVIOUS
<1>4. /\ src1 \in SrcRow /\ src1.status = "deleting" /\ src1.ref = src.ref
      /\ k \in DelCall /\ k.pc = "begun" /\ k.ref = src.ref
  BY <1>1, <1>3 DEF Known, KCRowsTyped, SrcRow, DelCall, BeingDeleted
<1>5. /\ clean1 \in CleanRow /\ clean1.op = "delete"
      /\ clean1 = clean \/ clean1.ref = src.ref
  BY <1>1, <1>2, <1>3 DEF Known, KCRowsTyped, CleanRow, SrcRow, DeleteIntent
<1>6. KCRowsTyped(up, src1, clean1, temp, final, sink, del \cup {k}, resume)
  BY <1>1, <1>4, <1>5 DEF Known, KCRowsTyped
<1>7. DeletesFit(up, src1, clean1, del \cup {k}) /\ ReadyFits(D, src1, final)
  BY <1>1, <1>2, <1>4, <1>5 DEF Known, DeletesFit, ReadyFits, BeingDeleted
<1>8. ASSUME ~kcleft.early PROVE LateFits(up, src1, clean1, temp, final, del \cup {k}, resume)
  <2>1. /\ src.status = "ready" /\ up.status = "ready" /\ src.ref
        /\ LateFits(up, src, clean, temp, final, del, resume)
    BY <1>1, <1>2, <1>8 DEF Known, DeletesFit, Deletable
  <2> QED  BY <1>2, <1>4, <1>5, <2>1 DEF LateFits
<1>9. KCWrites(u, up, src1, clean1, temp, final, sink, del \cup {k}, resume)
  BY <1>1, <1>2, <1>3, LeftAlone DEF DeleteBegins, Known, KCWrites, kcFiles
<1>10. /\ UNCHANGED kcleft => kcleft' \in Left /\ kcleft'.early = kcleft.early
       /\ KCSpend("deletes") => kcleft' \in Left /\ kcleft'.early = kcleft.early
       /\ D = KCDeclared[u] /\ FilesFit(D, up, temp, final, sink)
  BY <1>1, Spent, LeftAlone DEF Known
<1>11. ReservationsExact'
  BY <1>2, LeftAlone
<1> QED  BY <1>2, <1>6, <1>7, <1>8, <1>9, <1>10, <1>11, UploadMoves

(* The content file that is removed is not that of a ready source, and is  *)
(* the only one of a ready upload.                                         *)
LEMMA FileGone ==
    ASSUME KCInd, NEW u \in KCUploads, NEW D, NEW up, NEW src, NEW clean, NEW temp, NEW final,
           NEW sink, NEW del, NEW resume, NEW ref \in BOOLEAN, NEW left,
           Known(u, D, up, src, clean, temp, final, sink, del, resume),
           ref => src.status # "ready",
           FileDeleted(u, ref), left = IF ref THEN final \ {D} ELSE final
    PROVE  /\ kcfinal' = [kcfinal EXCEPT ![u] = left]
           /\ left \in SUBSET Content /\ left \subseteq final
           /\ FilesFit(D, up, temp, left, sink) /\ ReadyFits(D, src, left)
           /\ ref /\ up.status = "ready" => left = {}
<1>1. /\ D = KCDeclared[u] /\ final = kcfinal[u] /\ final \in SUBSET Content
      /\ FilesFit(D, up, temp, final, sink) /\ ReadyFits(D, src, final)
  BY DEF Known, KCRowsTyped
<1>2. kcfinal' = [kcfinal EXCEPT ![u] = left]
  BY <1>1, UploadView DEF FileDeleted
<1>3. left \in SUBSET Content /\ left \subseteq final
  BY <1>1
<1>4. FilesFit(D, up, temp, left, sink)
  BY <1>1, <1>3 DEF FilesFit
<1>5. ReadyFits(D, src, left)
  BY <1>1 DEF ReadyFits
<1>6. ref /\ up.status = "ready" => left = {}
  BY <1>1 DEF FilesFit
<1> QED  BY <1>2, <1>3, <1>4, <1>5, <1>6

LEMMA DeleteContentKeeps ==
    ASSUME KCInd, NEW u \in KCUploads, DeleteContent(u)
    PROVE  KCInd'
<1>1. PICK D, up, src, clean, temp, final, sink, del, resume :
          Known(u, D, up, src, clean, temp, final, sink, del, resume)
  BY UploadKnown
<1>2. UNCHANGED <<kcRows, kctemp, kcsink, kcresume>>
  BY DEF DeleteContent
<1>3. PICK k \in del : /\ k.pc = "begun"
                       /\ \/ /\ FileDeleted(u, k.ref)
                             /\ kcdel' = [kcdel EXCEPT ![u] = (@ \ {k}) \cup {[k EXCEPT !.pc = "done"]}]
                             /\ UNCHANGED kcleft
                          \/ /\ k.ref /\ KCSpend("faults")
                             /\ kcdel' = [kcdel EXCEPT ![u] = (@ \ {k}) \cup {[k EXCEPT !.pc = "failed"]}]
                             /\ UNCHANGED kcfinal
  BY <1>1 DEF DeleteContent, Known
<1>4. PICK done, failed : done = [k EXCEPT !.pc = "done"] /\ failed = [k EXCEPT !.pc = "failed"]
  OBVIOUS
<1>5. /\ k \in DelCall /\ k.ref \in BOOLEAN
      /\ done \in DelCall /\ done.pc = "done" /\ done.ref = k.ref
      /\ failed \in DelCall /\ failed.pc = "failed" /\ failed.ref = k.ref
  BY <1>1, <1>3, <1>4 DEF Known, KCRowsTyped, DelCall
<1>6. PICK left : left = IF k.ref THEN final \ {D} ELSE final
  OBVIOUS
<1>7. k.ref => src.status # "ready" /\ up.status = "ready"
  BY <1>1, <1>3 DEF Known, DeletesFit
<1>8. /\ UNCHANGED kcleft => kcleft' \in Left /\ kcleft'.early = kcleft.early
      /\ KCSpend("faults") => kcleft' \in Left /\ kcleft'.early = kcleft.early
      /\ D = KCDeclared[u] /\ FilesFit(D, up, temp, final, sink)
  BY <1>1, Spent, LeftAlone DEF Known
<1>9. ReservationsExact' /\ kcup' = kcup /\ kcsrc' = kcsrc /\ kcclean' = kcclean
  BY <1>2, LeftAlone DEF kcRows
<1>10. CASE /\ FileDeleted(u, k.ref) /\ UNCHANGED kcleft
            /\ kcdel' = [kcdel EXCEPT ![u] = (@ \ {k}) \cup {[k EXCEPT !.pc = "done"]}]
  <2>1. PICK d1 : d1 = (del \ {k}) \cup {done}
    OBVIOUS
  <2>2. /\ kcfinal' = [kcfinal EXCEPT ![u] = left]
        /\ left \in SUBSET Content /\ left \subseteq final
        /\ FilesFit(D, up, temp, left, sink) /\ ReadyFits(D, src, left)
        /\ k.ref /\ up.status = "ready" => left = {}
    BY <1>1, <1>5, <1>6, <1>7, <1>10, FileGone
  <2>3. KCRowsTyped(up, src, clean, temp, left, sink, d1, resume)
    BY <1>1, <1>5, <2>1, <2>2 DEF Known, KCRowsTyped
  <2>4. DeletesFit(up, src, clean, d1)
    BY <1>1, <1>3, <1>5, <2>1 DEF Known, DeletesFit
  <2>5. ~kcleft.early => LateFits(up, src, clean, temp, left, d1, resume)
    BY <1>1, <1>3, <1>5, <2>1, <2>2 DEF Known, LateFits
  <2>6. KCWrites(u, up, src, clean, temp, left, sink, d1, resume)
    BY <1>1, <1>2, <1>4, <1>9, <1>10, <2>1, <2>2, LeftAlone DEF Known, KCWrites
  <2> QED  BY <1>8, <1>9, <1>10, <2>2, <2>3, <2>4, <2>5, <2>6, UploadMoves
<1>11. CASE /\ k.ref /\ KCSpend("faults") /\ UNCHANGED kcfinal
            /\ kcdel' = [kcdel EXCEPT ![u] = (@ \ {k}) \cup {[k EXCEPT !.pc = "failed"]}]
  <2>1. PICK d1 : d1 = (del \ {k}) \cup {failed}
    OBVIOUS
  <2>2. KCRowsTyped(up, src, clean, temp, final, sink, d1, resume)
    BY <1>1, <1>5, <2>1 DEF Known, KCRowsTyped
  <2>3. DeletesFit(up, src, clean, d1) /\ ReadyFits(D, src, final)
    BY <1>1, <1>3, <1>5, <1>11, <2>1 DEF Known, DeletesFit
  <2>4. ~kcleft.early => LateFits(up, src, clean, temp, final, d1, resume)
    BY <1>1, <1>3, <1>5, <2>1 DEF Known, LateFits
  <2>5. KCWrites(u, up, src, clean, temp, final, sink, d1, resume)
    BY <1>1, <1>2, <1>4, <1>9, <1>11, <2>1, LeftAlone DEF Known, KCWrites
  <2> QED  BY <1>8, <1>9, <1>11, <2>2, <2>3, <2>4, <2>5, UploadMoves
<1> QED  BY <1>3, <1>10, <1>11

LEMMA DeleteEndsKeeps ==
    ASSUME KCInd, NEW u \in KCUploads, DeleteEnds(u)
    PROVE  KCInd'
<1>1. PICK D, up, src, clean, temp, final, sink, del, resume :
          Known(u, D, up, src, clean, temp, final, sink, del, resume)
  BY UploadKnown
<1>2. UNCHANGED <<kcup, kcres, kcFiles, kcresume, kcleft>>
  BY DEF DeleteEnds
<1>3. PICK k \in del :
          /\ kcdel' = [kcdel EXCEPT ![u] = @ \ {k}]
          /\ \/ /\ k.pc = "done"
                /\ kcsrc' = [kcsrc EXCEPT ![u].status = "deleted"]
                /\ kcclean' = [kcclean EXCEPT ![u] = NoCleanup]
             \/ /\ k.pc = "failed"
                /\ kcsrc' = [kcsrc EXCEPT ![u].status = "cleanup_pending"]
                /\ kcclean' = [kcclean EXCEPT ![u] = DeleteIntent(@, k.ref)]
  BY <1>1 DEF DeleteEnds, Known
<1>4. PICK gone, left, intent : /\ gone = [src EXCEPT !.status = "deleted"]
                                /\ left = [src EXCEPT !.status = "cleanup_pending"]
                                /\ intent = DeleteIntent(clean, k.ref)
  OBVIOUS
<1>5. /\ gone \in SrcRow /\ gone.status = "deleted" /\ gone.ref = src.ref
      /\ left \in SrcRow /\ left.status = "cleanup_pending" /\ left.ref = src.ref
      /\ k \in DelCall /\ k.ref \in BOOLEAN
  BY <1>1, <1>3, <1>4 DEF Known, KCRowsTyped, SrcRow, DelCall, BeingDeleted
<1>6. /\ intent \in CleanRow /\ NoCleanup \in CleanRow /\ NoCleanup.op = "none"
      /\ (intent = clean /\ clean.op # "none") \/ (intent.op = "delete" /\ intent.ref = k.ref)
  BY <1>1, <1>4, <1>5 DEF Known, KCRowsTyped, CleanRow, DeleteIntent, NoCleanup
<1>7. k.ref => up.status = "ready" /\ clean.op # "upload_abort"
  BY <1>1, <1>3 DEF Known, DeletesFit
<1>8. /\ UNCHANGED kcleft => kcleft' \in Left /\ kcleft'.early = kcleft.early
      /\ KCSpend("faults") => kcleft' \in Left /\ kcleft'.early = kcleft.early
      /\ D = KCDeclared[u] /\ FilesFit(D, up, temp, final, sink)
  BY <1>1, Spent, LeftAlone DEF Known
<1>9. ReservationsExact'
  BY <1>2, LeftAlone
<1>10. CASE /\ k.pc = "done"
            /\ kcsrc' = [kcsrc EXCEPT ![u].status = "deleted"]
            /\ kcclean' = [kcclean EXCEPT ![u] = NoCleanup]
  <2>1. KCRowsTyped(up, gone, NoCleanup, temp, final, sink, del \ {k}, resume)
    BY <1>1, <1>5, <1>6 DEF Known, KCRowsTyped
  <2>2. DeletesFit(up, gone, NoCleanup, del \ {k}) /\ ReadyFits(D, gone, final)
    BY <1>1, <1>5, <1>6 DEF Known, DeletesFit, ReadyFits, BeingDeleted
  <2>3. ~kcleft.early => LateFits(up, gone, NoCleanup, temp, final, del \ {k}, resume)
    BY <1>1, <1>3, <1>5, <1>6, <1>7, <1>10 DEF Known, LateFits, BeingDeleted
  <2>4. KCWrites(u, up, gone, NoCleanup, temp, final, sink, del \ {k}, resume)
    BY <1>1, <1>2, <1>3, <1>4, <1>10, LeftAlone DEF Known, KCWrites, kcFiles
  <2> QED  BY <1>2, <1>8, <1>9, <2>1, <2>2, <2>3, <2>4, UploadMoves
<1>11. CASE /\ k.pc = "failed"
            /\ kcsrc' = [kcsrc EXCEPT ![u].status = "cleanup_pending"]
            /\ kcclean' = [kcclean EXCEPT ![u] = DeleteIntent(@, k.ref)]
  <2>1. KCRowsTyped(up, left, intent, temp, final, sink, del \ {k}, resume)
    BY <1>1, <1>5, <1>6 DEF Known, KCRowsTyped
  <2>2. k.ref /\ up.status = "ready" /\ intent.op = "delete"
    BY <1>1, <1>3, <1>6, <1>7, <1>11 DEF Known, DeletesFit, KCRowsTyped, CleanRow
  <2>3. DeletesFit(up, left, intent, del \ {k}) /\ ReadyFits(D, left, final)
    BY <1>1, <1>5, <2>2 DEF Known, DeletesFit, ReadyFits
  <2>4. ~kcleft.early => LateFits(up, left, intent, temp, final, del \ {k}, resume)
    BY <1>1, <1>3, <1>5, <1>6, <1>7, <2>2 DEF Known, LateFits
  <2>5. KCWrites(u, up, left, intent, temp, final, sink, del \ {k}, resume)
    BY <1>1, <1>2, <1>3, <1>4, <1>11, LeftAlone DEF Known, KCWrites, kcFiles
  <2> QED  BY <1>2, <1>8, <1>9, <2>1, <2>3, <2>4, <2>5, UploadMoves
<1> QED  BY <1>3, <1>10, <1>11

LEMMA ResumeContentKeeps ==
    ASSUME KCInd, NEW u \in KCUploads, ResumeContent(u)
    PROVE  KCInd'
<1>1. PICK D, up, src, clean, temp, final, sink, del, resume :
          Known(u, D, up, src, clean, temp, final, sink, del, resume)
  BY UploadKnown
<1>2. /\ resume = "none" /\ src.status \in BeingDeleted /\ clean.op # "none"
      /\ UNCHANGED <<kcRows, kctemp, kcsink, kcdel>>
  BY <1>1 DEF ResumeContent, Known
<1>3. /\ clean.op = "delete" /\ src.status # "ready" /\ clean.ref \in BOOLEAN
      /\ "done" \in Resume /\ "failed" \in Resume
  BY <1>1, <1>2 DEF Known, DeletesFit, BeingDeleted, KCRowsTyped, CleanRow, Resume
<1>4. /\ UNCHANGED kcleft => kcleft' \in Left /\ kcleft'.early = kcleft.early
      /\ KCSpend("faults") => kcleft' \in Left /\ kcleft'.early = kcleft.early
      /\ D = KCDeclared[u] /\ FilesFit(D, up, temp, final, sink)
  BY <1>1, Spent, LeftAlone DEF Known
<1>5. ReservationsExact' /\ kcup' = kcup /\ kcsrc' = kcsrc /\ kcclean' = kcclean
  BY <1>2, LeftAlone DEF kcRows
<1>6. DeletesFit(up, src, clean, del) /\ ReadyFits(D, src, final)
  BY <1>1 DEF Known
<1>7. CASE /\ FileDeleted(u, kcclean[u].ref) /\ UNCHANGED kcleft
           /\ kcresume' = [kcresume EXCEPT ![u] = "done"]
  <2>1. PICK ref, left : ref = clean.ref /\ left = IF ref THEN final \ {D} ELSE final
    OBVIOUS
  <2>2. /\ kcfinal' = [kcfinal EXCEPT ![u] = left]
        /\ left \in SUBSET Content /\ left \subseteq final
        /\ FilesFit(D, up, temp, left, sink) /\ ReadyFits(D, src, left)
        /\ ref /\ up.status = "ready" => left = {}
    <3>1. ref \in BOOLEAN /\ FileDeleted(u, ref) /\ src.status # "ready"
      BY <1>1, <1>3, <1>7, <2>1 DEF Known
    <3> QED  BY <1>1, <2>1, <3>1, FileGone
  <2>3. KCRowsTyped(up, src, clean, temp, left, sink, del, "done")
    BY <1>1, <1>3, <2>2 DEF Known, KCRowsTyped
  <2>4. ~kcleft.early => LateFits(up, src, clean, temp, left, del, "done")
    BY <1>1, <1>2, <1>3, <2>1, <2>2 DEF Known, LateFits
  <2>5. KCWrites(u, up, src, clean, temp, left, sink, del, "done")
    BY <1>1, <1>2, <1>5, <1>7, <2>2, LeftAlone DEF Known, KCWrites
  <2> QED  BY <1>4, <1>5, <1>6, <1>7, <2>2, <2>3, <2>4, <2>5, UploadMoves
<1>8. CASE /\ KCSpend("faults") /\ UNCHANGED kcfinal
           /\ kcresume' = [kcresume EXCEPT ![u] = "failed"]
  <2>1. KCRowsTyped(up, src, clean, temp, final, sink, del, "failed")
    BY <1>1, <1>3 DEF Known, KCRowsTyped
  <2>2. ~kcleft.early => LateFits(up, src, clean, temp, final, del, "failed")
    BY <1>1, <1>2, <1>3 DEF Known, LateFits
  <2>3. KCWrites(u, up, src, clean, temp, final, sink, del, "failed")
    BY <1>1, <1>2, <1>5, <1>8, LeftAlone DEF Known, KCWrites
  <2> QED  BY <1>4, <1>5, <1>6, <1>8, <2>1, <2>2, <2>3, UploadMoves
<1> QED  BY <1>7, <1>8 DEF ResumeContent

LEMMA ResumeEndsKeeps ==
    ASSUME KCInd, NEW u \in KCUploads, ResumeEnds(u)
    PROVE  KCInd'
<1>1. PICK D, up, src, clean, temp, final, sink, del, resume :
          Known(u, D, up, src, clean, temp, final, sink, del, resume)
  BY UploadKnown
<1>2. /\ resume # "none" /\ kcresume' = [kcresume EXCEPT ![u] = "none"]
      /\ UNCHANGED <<kcup, kcres, kcFiles, kcdel, kcleft>>
  BY <1>1 DEF ResumeEnds, Known
<1>3. PICK gone, left : /\ gone = [src EXCEPT !.status = "deleted"]
                        /\ left = [src EXCEPT !.status = "cleanup_pending"]
  OBVIOUS
<1>4. /\ UNCHANGED kcleft => kcleft' \in Left /\ kcleft'.early = kcleft.early
      /\ KCSpend("faults") => kcleft' \in Left /\ kcleft'.early = kcleft.early
      /\ D = KCDeclared[u] /\ FilesFit(D, up, temp, final, sink)
  BY <1>1, Spent, LeftAlone DEF Known
<1>5. /\ gone \in SrcRow /\ gone.status = "deleted" /\ gone.ref = src.ref
      /\ left \in SrcRow /\ left.status = "cleanup_pending" /\ left.ref = src.ref
      /\ NoCleanup \in CleanRow /\ NoCleanup.op = "none" /\ "none" \in Resume
  BY <1>1, <1>3 DEF Known, KCRowsTyped, SrcRow, BeingDeleted, CleanRow, NoCleanup, Resume
<1>6. ReservationsExact'
  BY <1>2, LeftAlone
<1>7. CASE /\ src.status \in BeingDeleted /\ resume = "done"
           /\ kcsrc' = [kcsrc EXCEPT ![u].status = "deleted"]
           /\ kcclean' = [kcclean EXCEPT ![u] = NoCleanup]
  <2>1. KCRowsTyped(up, gone, NoCleanup, temp, final, sink, del, "none")
    BY <1>1, <1>5 DEF Known, KCRowsTyped
  <2>2. DeletesFit(up, gone, NoCleanup, del) /\ ReadyFits(D, gone, final)
    BY <1>1, <1>5 DEF Known, DeletesFit, ReadyFits, BeingDeleted
  <2>3. ~kcleft.early => LateFits(up, gone, NoCleanup, temp, final, del, "none")
    BY <1>1, <1>5, <1>7 DEF Known, LateFits, BeingDeleted, DeletesFit
  <2>4. KCWrites(u, up, gone, NoCleanup, temp, final, sink, del, "none")
    BY <1>1, <1>2, <1>3, <1>7, LeftAlone DEF Known, KCWrites, kcFiles
  <2> QED  BY <1>2, <1>4, <1>6, <2>1, <2>2, <2>3, <2>4, UploadMoves
<1>8. CASE /\ src.status \in BeingDeleted
           /\ kcsrc' = [kcsrc EXCEPT ![u].status = "cleanup_pending"] /\ UNCHANGED kcclean
  <2>1. KCRowsTyped(up, left, clean, temp, final, sink, del, "none")
    BY <1>1, <1>5 DEF Known, KCRowsTyped
  <2>2. DeletesFit(up, left, clean, del) /\ ReadyFits(D, left, final)
    BY <1>1, <1>5, <1>8 DEF Known, DeletesFit, ReadyFits
  <2>3. ~kcleft.early => LateFits(up, left, clean, temp, final, del, "none")
    BY <1>1, <1>5, <1>8 DEF Known, LateFits
  <2>4. KCWrites(u, up, left, clean, temp, final, sink, del, "none")
    BY <1>1, <1>2, <1>3, <1>8, LeftAlone DEF Known, KCWrites, kcFiles
  <2> QED  BY <1>2, <1>4, <1>6, <2>1, <2>2, <2>3, <2>4, UploadMoves
<1>9. CASE UNCHANGED <<kcsrc, kcclean>>
  <2>1. KCRowsTyped(up, src, clean, temp, final, sink, del, "none")
    BY <1>1, <1>5 DEF Known, KCRowsTyped
  <2>2. DeletesFit(up, src, clean, del) /\ ReadyFits(D, src, final)
    BY <1>1 DEF Known
  <2>3. ~kcleft.early => LateFits(up, src, clean, temp, final, del, "none")
    BY <1>1 DEF Known, LateFits
  <2>4. KCWrites(u, up, src, clean, temp, final, sink, del, "none")
    BY <1>1, <1>2, <1>9, LeftAlone DEF Known, KCWrites, kcFiles
  <2> QED  BY <1>2, <1>4, <1>6, <2>1, <2>2, <2>3, <2>4, UploadMoves
<1> QED  BY <1>1, <1>7, <1>8, <1>9 DEF ResumeEnds, Known

LEMMA RestartKeeps ==
    ASSUME KCInd, KCRestart
    PROVE  KCInd'
<1>1. kcleft' \in Left /\ kcleft'.early = kcleft.early
  BY Spent DEF KCRestart
<1>2. /\ UNCHANGED <<kcup, kcsrc, kcres, kcclean, kctemp, kcfinal>>
      /\ kcsink' = [v \in KCUploads |-> NoSink]
      /\ kcdel' = [v \in KCUploads |-> {}] /\ kcresume' = [v \in KCUploads |-> "none"]
  BY DEF KCRestart, kcRows
<1>3. NoSink \in SinkRow /\ NoSink.state = "none" /\ "none" \in Resume
  BY DEF NoSink, SinkRow, Content, Resume
<1>4. KCTyped'
  BY <1>1, <1>2, <1>3 DEF KCInd, KCTyped
<1>5. ReservationsExact'
  BY <1>2 DEF KCInd, ReservationsExact
<1>6. ASSUME NEW u \in KCUploads  PROVE UploadFits(u)'
  <2>1. PICK D, up, src, clean, temp, final, sink, del, resume :
            Known(u, D, up, src, clean, temp, final, sink, del, resume)
    BY UploadKnown
  <2>2. FilesFit(D, up, temp, final, NoSink)
    BY <1>3, <2>1 DEF Known, FilesFit
  <2>3. DeletesFit(up, src, clean, {}) /\ ReadyFits(D, src, final)
    BY <2>1 DEF Known, DeletesFit
  <2>4. ~kcleft.early => LateFits(up, src, clean, temp, final, {}, "none")
    BY <2>1 DEF Known, LateFits
  <2> QED  BY <1>1, <1>2, <2>1, <2>2, <2>3, <2>4 DEF Known, UploadFits
<1> QED  BY <1>4, <1>5, <1>6 DEF KCInd, UploadsFit

LEMMA ContentStarts == KCInit => KCInd
<1> SUFFICES ASSUME KCInit PROVE KCInd
  OBVIOUS
<1>1. /\ NoSink \in SinkRow /\ NoSink.state = "none" /\ "none" \in Resume
      /\ NoCleanup \in CleanRow /\ NoCleanup.op = "none"
  BY DEF NoSink, SinkRow, Content, Resume, CleanRow, NoCleanup
<1>2. PICK up, src : up = [status |-> "none", rows |-> <<>>] /\ src = [status |-> "none", ref |-> FALSE]
  OBVIOUS
<1>3. /\ up \in UpRow /\ up.status = "none" /\ up.rows = <<>> /\ Len(up.rows) = 0
      /\ src \in SrcRow /\ src.status = "none" /\ ~src.ref
  BY <1>2 DEF UpRow, SrcRow, Content
<1>4. kcleft \in Left
  BY KnowledgeContentAssumption DEF KCInit, Left
<1>5. \A u \in KCUploads : /\ kcup[u] = up /\ kcsrc[u] = src /\ kcclean[u] = NoCleanup
                            /\ kctemp[u] = {} /\ kcfinal[u] = {} /\ kcsink[u] = NoSink
                            /\ kcdel[u] = {} /\ kcresume[u] = "none"
  BY <1>2 DEF KCInit
<1>6. KCTyped
  BY <1>1, <1>2, <1>3, <1>4 DEF KCInit, KCTyped
<1>7. ASSUME NEW u \in KCUploads  PROVE UploadFits(u)
  <2>1. Len(KCDeclared[u]) \in Nat
    BY KnowledgeContentAssumption
  <2>2. FilesFit(KCDeclared[u], up, {}, {}, NoSink)
    BY <1>1, <1>3, <2>1 DEF FilesFit
  <2>3. DeletesFit(up, src, NoCleanup, {}) /\ ReadyFits(KCDeclared[u], src, {})
    BY <1>1, <1>3 DEF DeletesFit, ReadyFits, BeingDeleted
  <2>4. LateFits(up, src, NoCleanup, {}, {}, {}, "none")
    BY <1>1, <1>3 DEF LateFits, BeingDeleted
  <2> QED  BY <1>5, <2>2, <2>3, <2>4 DEF UploadFits
<1>8. ReservationsExact
  <2>1. kcres = {u \in KCUploads : kcup[u].status = "uploading"}
    BY <1>3, <1>5 DEF KCInit
  <2>2. Cardinality(kcres) = 0
    BY FS_EmptySet DEF KCInit
  <2> QED  BY <2>1, <2>2, KnowledgeContentAssumption DEF ReservationsExact
<1> QED  BY <1>6, <1>7, <1>8 DEF KCInd, UploadsFit

LEMMA ContentStep == KCInd /\ [KCNext]_kcVars => KCInd'
<1> SUFFICES ASSUME KCInd, [KCNext]_kcVars PROVE KCInd'
  OBVIOUS
<1>1. CASE KCRestart
  BY <1>1, RestartKeeps
<1>2. CASE UNCHANGED kcVars
  BY <1>2 DEF kcVars, kcRows, kcFiles, kcCalls, KCInd, KCTyped, UploadsFit, UploadFits,
              ReservationsExact
<1>3. ASSUME NEW u \in KCUploads,
             \/ StartUpload(u) \/ AbortUpload(u) \/ cleanupAbortedUpload(u)
             \/ \E d \in KCData : AppendUploadChunk(u, d)
             \/ \E c \in [1..DeclaredSize(u) -> KCData] : CommitUpload(u, c)
             \/ DeleteBegins(u) \/ DeleteContent(u) \/ DeleteEnds(u)
             \/ ResumeContent(u) \/ ResumeEnds(u)
      PROVE  KCInd'
  BY <1>3, StartKeeps, AbortKeeps, CleanupKeeps, AppendKeeps, CommitKeeps, DeleteBeginsKeeps,
     DeleteContentKeeps, DeleteEndsKeeps, ResumeContentKeeps, ResumeEndsKeeps
<1> QED  BY <1>1, <1>2, <1>3 DEF KCNext

(***************************************************************************)
(* Rows and files agree, through failed statements, commits answered with  *)
(* an error and restarts anywhere (CoreKnowledgeStore's uploads, Delete    *)
(* and resumeKnowledgeCleanup).                                            *)
(***************************************************************************)
THEOREM ContentFollowsRows == KCSpec => []ContentInv
<1>1. KCInd => ContentInv
  <2> SUFFICES ASSUME KCInd PROVE ContentInv
    OBVIOUS
  <2>1. ASSUME NEW u \in KCUploads
        PROVE  /\ kcup[u].status \in {"none", "uploading", "ready", "deleted"}
               /\ kcsrc[u].status \in {"none"} \cup Deletable \cup BeingDeleted \cup {"deleted"}
               /\ kcclean[u].op \in {"none", "delete", "upload_abort"}
               /\ Cardinality(kctemp[u]) <= 1 /\ Received(u) <= DeclaredSize(u)
    <3>1. PICK D, up, src, clean, temp, final, sink, del, resume :
              Known(u, D, up, src, clean, temp, final, sink, del, resume)
      BY UploadKnown
    <3>2. Cardinality(kctemp[u]) <= 1
      <4>1. temp = kctemp[u] /\ \A f, g \in temp : f = g
        BY <3>1 DEF Known, FilesFit
      <4>2. CASE temp = {}
        BY <4>1, <4>2, FS_EmptySet
      <4>3. CASE temp # {}
        <5>1. PICK f : f \in temp
          BY <4>3
        <5>2. temp = {f}
          BY <4>1, <5>1
        <5>3. Cardinality({f}) = 1
          BY FS_Singleton
        <5> QED  BY <4>1, <5>2, <5>3
      <4> QED  BY <4>2, <4>3
    <3>3. Received(u) <= DeclaredSize(u)
      BY <3>1 DEF Known, FilesFit, Received, DeclaredSize
    <3>4. /\ up.status \in {"none", "uploading", "ready", "deleted"}
          /\ src.status \in {"none"} \cup Deletable \cup BeingDeleted \cup {"deleted"}
          /\ clean.op \in {"none", "delete", "upload_abort"}
      BY <3>1 DEF Known, KCRowsTyped, UpRow, SrcRow, CleanRow
    <3> QED  BY <3>1, <3>2, <3>3, <3>4 DEF Known
  <2>2. ASSUME NEW u \in KCUploads
        PROVE  /\ kcsrc[u].status = "ready" =>
                     /\ KCDeclared[u] \in kcfinal[u] /\ kcup[u].rows = KCDeclared[u]
                     /\ kcup[u].status = "ready"
               /\ kcsrc[u].status \in BeingDeleted => kcclean[u].op = "delete"
               /\ ~kcleft.early =>
                     /\ kcup[u].status = "ready" /\ kcsrc[u].status = "deleted" => kcfinal[u] = {}
                     /\ kcup[u].status \in {"ready", "deleted"} /\ kcclean[u].op # "upload_abort"
                           => kctemp[u] = {}
    <3>1. UploadFits(u)
      BY DEF KCInd, UploadsFit
    <3> QED  BY <3>1 DEF UploadFits, FilesFit, DeletesFit, ReadyFits, LateFits
  <2>3. KCTypeOK
    BY <2>1 DEF KCTypeOK
  <2>4. ReadyHasContent /\ DeletionRecorded /\ NothingLeft
    BY <2>2 DEF ReadyHasContent, DeletionRecorded, NothingLeft
  <2> QED  BY <2>3, <2>4 DEF ContentInv, KCInd
<1> QED  BY <1>1, ContentStarts, ContentStep, PTL DEF KCSpec

-----------------------------------------------------------------------------
(***************************************************************************)
(* Indexing.  The rows of one job: b the job, t its task, g and v its      *)
(* generation and vectors, m its tombstones, h its handlers.               *)
(***************************************************************************)
LiveJob == {"queued", "running"}
OverJob == {"succeeded", "failed", "canceled"}
JRow == [status : {"none"} \cup LiveJob \cup OverJob, srcs : SUBSET KISources,
         prof : KIProfiles \cup {0}, prev : Nat]
JTask == [status : {"none"} \cup LiveJob \cup OverJob, epoch : 0..KIClaims, held : BOOLEAN]
JSrc == [status : {"ready", "indexing", "deleting", "deleted"},
         gen : KIJobs \cup {0}, prof : KIProfiles \cup {0}]
Vec == {"none", "staged", "promoted"}
Vecs == [KISources -> Vec]
Tombs == [KISources -> {"none", "staging", "canceled_staging", "promoted"}]
PickedPc == {"index", "embed", "indexed"}
FullPc == {"promoted", "commit"}
Hand == [pc : {"none", "start", "mark", "ensure", "ensured", "source", "after"} \cup PickedPc \cup FullPc,
         todo : SUBSET KISources]
Hands == [KIEpochs -> Hand]
KILeft == [jobs : Nat, faults : Nat, binds : Nat, edits : Nat, deletes : Nat, calm : BOOLEAN]

KITyped ==
    /\ kiconfig \in KIProfiles \cup {0} /\ kiprof \in [KIProfiles -> Nat]
    /\ kisrc \in [KISources -> JSrc] /\ kijob \in [KIJobs -> JRow] /\ kitask \in [KIJobs -> JTask]
    /\ kigen \in [KIJobs -> Vec] /\ kivec \in [KIJobs -> Vecs] /\ kitomb \in [KIJobs -> Tombs]
    /\ kihand \in [KIJobs -> Hands] /\ kileft \in KILeft
    /\ kileft.calm => kileft.faults = 0

(* A task that may still run has a live job; a canceled job has its        *)
(* tombstones, whatever its handlers do.                                   *)
JobFits(b, t, v, m, h) ==
    /\ t.status = "none" <=> b.status = "none"
    /\ t.status \in LiveJob => b.status \in LiveJob
    /\ t.held => t.status = "running"
    /\ t.status \in {"none", "queued"} => t.epoch = 0
    /\ b.status = "none" => b.srcs = {}
    /\ b.status # "none" => b.prof # 0
    /\ \A s \in KISources : v[s] # "none" => s \in b.srcs
    /\ b.status = "canceled" => \A s \in b.srcs : m[s] = "canceled_staging"
    /\ \A s \in KISources : m[s] = "promoted" => b.status = "succeeded"
    /\ \A e \in KIEpochs : /\ h[e].todo \subseteq b.srcs
                           /\ h[e].pc \in PickedPc => h[e].todo # {}
                           /\ h[e].pc = "after" => b.status = "succeeded"

(* Without faults a job has one handler, which is done when the job        *)
(* succeeded, and whose promoted vectors stay while the job is live.       *)
CalmFits(b, t, g, v, h) ==
    /\ t.status = "running" => t.held
    /\ \A e \in KIEpochs : /\ t.epoch = 0 => h[e].pc = "none"
                           /\ h[e].pc # "none" => e = 1
                           /\ b.status = "succeeded" => h[e].pc \in {"none", "after"}
                           /\ h[e].pc \in FullPc /\ b.status \in LiveJob =>
                                 g = "promoted" /\ \A s \in b.srcs : v[s] = "promoted"

JobsFit ==
    \A j \in KIJobs :
       /\ JobFits(kijob[j], kitask[j], kivec[j], kitomb[j], kihand[j])
       /\ kileft.calm => CalmFits(kijob[j], kitask[j], kigen[j], kivec[j], kihand[j])

(* A binding is of a job that succeeded, a source that is ready or indexed *)
(* has no tombstone for its vectors.                                       *)
SourceBound(s) ==
    /\ kisrc[s].gen # 0 =>
          LET b == kijob[kisrc[s].gen] IN
          b.status = "succeeded" /\ s \in b.srcs /\ b.prof = kisrc[s].prof
    /\ kisrc[s].prof # 0 /\ kisrc[s].status # "deleted" =>
          kisrc[s].prof = kiconfig /\ kiprof[kiconfig] # 0
    /\ kisrc[s].status \in {"ready", "indexing"} => \A j \in KIJobs : kitomb[j][s] # "promoted"
    /\ kileft.calm /\ kisrc[s].gen # 0 /\ kisrc[s].status \in {"ready", "indexing"} =>
          kigen[kisrc[s].gen] = "promoted" /\ kivec[kisrc[s].gen][s] = "promoted"

(* A source is indexed by one live job, which is of the bound profile.     *)
SourceFree(s) ==
    /\ \A j, k \in KIJobs : JobLive(j) /\ JobLive(k) /\ s \in kijob[j].srcs \cap kijob[k].srcs => j = k
    /\ kisrc[s].status = "indexing" => \E j \in KIJobs : JobLive(j) /\ s \in kijob[j].srcs
    /\ kisrc[s].status = "ready" => \A j \in KIJobs : JobLive(j) => s \notin kijob[j].srcs

SourcesFit == \A s \in KISources : SourceBound(s) /\ SourceFree(s)
LiveBound == \A j \in KIJobs : JobLive(j) => kijob[j].prof = kiconfig /\ kiprof[kiconfig] # 0

JobRefs == {<<"job", j, kijob[j].prof>> : j \in {k \in KIJobs : JobLive(k)}}
SourceRefs == {<<"source", s, kisrc[s].prof>> :
                  s \in {t \in KISources : kisrc[t].prof # 0 /\ kisrc[t].status # "deleted"}}
RefsExact == kirefs = JobRefs \cup SourceRefs

KIInd == KITyped /\ JobsFit /\ SourcesFit /\ LiveBound /\ RefsExact /\ IndexSlotsExact

(* The pins of sources whose profile and presence stay.                    *)
LEMMA SourceRefsStay ==
    ASSUME \A s \in KISources : /\ kisrc'[s].prof = kisrc[s].prof
                                /\ kisrc'[s].status = "deleted" <=> kisrc[s].status = "deleted"
    PROVE  SourceRefs' = SourceRefs
<1>1. ASSUME NEW r \in SourceRefs' PROVE r \in SourceRefs
  <2>1. PICK s \in KISources : /\ kisrc'[s].prof # 0 /\ kisrc'[s].status # "deleted"
                               /\ r = <<"source", s, kisrc'[s].prof>>
    BY <1>1 DEF SourceRefs
  <2>2. kisrc[s].prof # 0 /\ kisrc[s].status # "deleted" /\ r = <<"source", s, kisrc[s].prof>>
    BY <2>1
  <2>3. QED BY <2>2 DEF SourceRefs
<1>2. ASSUME NEW r \in SourceRefs PROVE r \in SourceRefs'
  <2>1. PICK s \in KISources : /\ kisrc[s].prof # 0 /\ kisrc[s].status # "deleted"
                               /\ r = <<"source", s, kisrc[s].prof>>
    BY <1>2 DEF SourceRefs
  <2>2. kisrc'[s].prof # 0 /\ kisrc'[s].status # "deleted" /\ r = <<"source", s, kisrc'[s].prof>>
    BY <2>1
  <2>3. QED BY <2>2 DEF SourceRefs
<1>3. QED BY <1>1, <1>2

(* A set of numbers has a least one.                                       *)
LEMMA LeastOf ==
    ASSUME NEW T, T \subseteq Nat, T # {}
    PROVE  \E x \in T : \A y \in T : x <= y
<1>1. \E x \in T : \A y \in T : ~(<<y, x>> \in OpToRel(<, Nat))
  BY NatLessThanWellFounded, WFMin
<1>2. \A x, y \in T : ~(<<y, x>> \in OpToRel(<, Nat)) => x <= y
  BY DEF OpToRel
<1>3. QED BY <1>1, <1>2

LEMMA KISpent ==
    ASSUME KIInd, NEW n \in {"jobs", "faults", "binds", "edits", "deletes"}, KISpend(n)
    PROVE  /\ kileft' \in KILeft /\ kileft'.calm = kileft.calm
           /\ kileft'.calm => kileft'.faults = 0
           /\ n = "faults" => ~kileft.calm
<1>1. kileft \in KILeft /\ (kileft.calm => kileft.faults = 0)
  BY DEF KIInd, KITyped
<1>2. CASE n = "jobs"
  BY <1>1, <1>2 DEF KISpend, KILeft
<1>3. CASE n = "faults"
  BY <1>1, <1>3 DEF KISpend, KILeft
<1>4. CASE n = "binds"
  BY <1>1, <1>4 DEF KISpend, KILeft
<1>5. CASE n = "edits"
  BY <1>1, <1>5 DEF KISpend, KILeft
<1>6. CASE n = "deletes"
  BY <1>1, <1>6 DEF KISpend, KILeft
<1>7. QED BY <1>2, <1>3, <1>4, <1>5, <1>6

(***************************************************************************)
(* A step writes the rows of one job.                                      *)
(***************************************************************************)
Slot(t) == IF t.status = "running" THEN 1 ELSE 0

LeftKept ==
    kileft' \in KILeft /\ kileft'.calm = kileft.calm /\ (kileft'.calm => kileft'.faults = 0)

JobWrites(j, b, t, g, v, m, h) ==
    /\ kijob' = [kijob EXCEPT ![j] = b] /\ kitask' = [kitask EXCEPT ![j] = t]
    /\ kigen' = [kigen EXCEPT ![j] = g] /\ kivec' = [kivec EXCEPT ![j] = v]
    /\ kitomb' = [kitomb EXCEPT ![j] = m] /\ kihand' = [kihand EXCEPT ![j] = h]
    /\ kislots' = kislots + Slot(t) - Slot(kitask[j])
    /\ kiconfig' = kiconfig /\ kiprof' = kiprof /\ LeftKept

JobWritesFit(b, t, g, v, m, h) ==
    /\ b \in JRow /\ t \in JTask /\ g \in Vec /\ v \in Vecs /\ m \in Tombs /\ h \in Hands
    /\ JobFits(b, t, v, m, h) /\ (kileft.calm => CalmFits(b, t, g, v, h))

LEMMA SlotsMove ==
    ASSUME KnowledgeIndexAssumption, KIInd, NEW j \in KIJobs, NEW t \in JTask,
           kitask' = [kitask EXCEPT ![j] = t], kislots' = kislots + Slot(t) - Slot(kitask[j])
    PROVE  IndexSlotsExact'
<1> DEFINE S == {k \in KIJobs : KIRunning(k)}
           T == {k \in KIJobs : kitask'[k].status = "running"}
<1>1. kitask \in [KIJobs -> JTask] /\ kislots = Cardinality(S)
  BY DEF KIInd, KITyped, IndexSlotsExact
<1>2. kitask'[j] = t /\ \A k \in KIJobs \ {j} : kitask'[k] = kitask[k]
  BY <1>1
<1>3. IsFiniteSet(S) /\ Cardinality(S) \in Nat
  BY FS_Subset, FS_CardinalityType DEF KnowledgeIndexAssumption
<1>4. CASE Slot(t) = Slot(kitask[j])
  <2>1. T = S
    BY <1>2, <1>4 DEF Slot, KIRunning
  <2>2. kislots' = kislots
    BY <1>1, <1>3, <1>4 DEF Slot
  <2>3. QED BY <1>1, <2>1, <2>2 DEF IndexSlotsExact, KIRunning
<1>5. CASE Slot(t) = 1 /\ Slot(kitask[j]) = 0
  <2>1. T = S \cup {j} /\ j \notin S
    BY <1>2, <1>5 DEF Slot, KIRunning
  <2>2. Cardinality(T) = Cardinality(S) + 1
    BY <1>3, <2>1, FS_AddElement
  <2>3. QED BY <1>1, <1>3, <1>5, <2>2 DEF IndexSlotsExact, KIRunning
<1>6. CASE Slot(t) = 0 /\ Slot(kitask[j]) = 1
  <2>1. T = S \ {j} /\ j \in S
    BY <1>2, <1>6 DEF Slot, KIRunning
  <2>2. Cardinality(T) = Cardinality(S) - 1
    BY <1>3, <2>1, FS_RemoveElement
  <2>3. QED BY <1>1, <1>3, <1>6, <2>2 DEF IndexSlotsExact, KIRunning
<1>7. QED BY <1>4, <1>5, <1>6 DEF Slot

LEMMA JobsMove ==
    ASSUME KnowledgeIndexAssumption, KIInd, NEW j \in KIJobs,
           NEW b, NEW t, NEW g, NEW v, NEW m, NEW h,
           JobWrites(j, b, t, g, v, m, h), JobWritesFit(b, t, g, v, m, h),
           kisrc' \in [KISources -> JSrc]
    PROVE  /\ KITyped' /\ JobsFit' /\ IndexSlotsExact'
           /\ kijob'[j] = b /\ kigen'[j] = g /\ kivec'[j] = v /\ kitomb'[j] = m
           /\ \A k \in KIJobs \ {j} : /\ kijob'[k] = kijob[k] /\ kigen'[k] = kigen[k]
                                      /\ kivec'[k] = kivec[k] /\ kitomb'[k] = kitomb[k]
<1>1. KITyped'
  BY DEF KIInd, KITyped, JobWrites, JobWritesFit, LeftKept
<1>2. /\ kijob'[j] = b /\ kitask'[j] = t /\ kigen'[j] = g /\ kivec'[j] = v /\ kitomb'[j] = m
      /\ kihand'[j] = h
  BY DEF KIInd, KITyped, JobWrites
<1>3. \A k \in KIJobs \ {j} : /\ kijob'[k] = kijob[k] /\ kitask'[k] = kitask[k] /\ kigen'[k] = kigen[k]
                              /\ kivec'[k] = kivec[k] /\ kitomb'[k] = kitomb[k] /\ kihand'[k] = kihand[k]
  BY DEF KIInd, KITyped, JobWrites
<1>4. JobsFit'
  <2> SUFFICES ASSUME NEW k \in KIJobs
               PROVE  /\ JobFits(kijob'[k], kitask'[k], kivec'[k], kitomb'[k], kihand'[k])
                      /\ kileft'.calm => CalmFits(kijob'[k], kitask'[k], kigen'[k], kivec'[k], kihand'[k])
    BY DEF JobsFit
  <2>1. CASE k = j
    BY <1>2, <2>1 DEF JobWrites, JobWritesFit, LeftKept
  <2>2. CASE k # j
    BY <1>3, <2>2 DEF KIInd, JobsFit, JobWrites, LeftKept
  <2>3. QED BY <2>1, <2>2
<1>5. IndexSlotsExact'
  BY SlotsMove DEF JobWrites, JobWritesFit
<1>6. QED BY <1>1, <1>2, <1>3, <1>4, <1>5

(* A step that keeps the job as live as it was and leaves the sources.     *)
Kept(j, b, g, v, m) ==
    /\ b.srcs = kijob[j].srcs /\ b.prof = kijob[j].prof
    /\ b.status \in LiveJob <=> JobLive(j)
    /\ kijob[j].status = "succeeded" => b.status = "succeeded"
    /\ \A s \in KISources : m[s] = "promoted" => kitomb[j][s] = "promoted"
    /\ kileft.calm => \A s \in KISources :
          /\ kisrc[s].gen = j /\ kisrc[s].status \in {"ready", "indexing"}
          /\ kigen[j] = "promoted" /\ kivec[j][s] = "promoted"
          => g = "promoted" /\ v[s] = "promoted"

LEMMA JobMoves ==
    ASSUME KnowledgeIndexAssumption, KIInd, NEW j \in KIJobs,
           NEW b, NEW t, NEW g, NEW v, NEW m, NEW h,
           JobWrites(j, b, t, g, v, m, h), JobWritesFit(b, t, g, v, m, h), Kept(j, b, g, v, m),
           kisrc' = kisrc, kirefs' = kirefs
    PROVE  KIInd'
<1>1. /\ KITyped' /\ JobsFit' /\ IndexSlotsExact'
      /\ kijob'[j] = b /\ kigen'[j] = g /\ kivec'[j] = v /\ kitomb'[j] = m
      /\ \A k \in KIJobs \ {j} : /\ kijob'[k] = kijob[k] /\ kigen'[k] = kigen[k]
                                 /\ kivec'[k] = kivec[k] /\ kitomb'[k] = kitomb[k]
  <2>1. kisrc' \in [KISources -> JSrc]
    BY DEF KIInd, KITyped
  <2>2. QED BY <2>1, JobsMove
<1>2. /\ kiconfig' = kiconfig /\ kiprof' = kiprof /\ kileft'.calm = kileft.calm
  BY DEF JobWrites, LeftKept
<1>3. ASSUME NEW k \in KIJobs
      PROVE  /\ kijob'[k].srcs = kijob[k].srcs /\ kijob'[k].prof = kijob[k].prof
             /\ kijob'[k].status \in LiveJob <=> kijob[k].status \in LiveJob
             /\ kijob[k].status = "succeeded" => kijob'[k].status = "succeeded"
             /\ \A s \in KISources : kitomb'[k][s] = "promoted" => kitomb[k][s] = "promoted"
             /\ kileft.calm => \A s \in KISources :
                   /\ kisrc[s].gen = k /\ kisrc[s].status \in {"ready", "indexing"}
                   /\ kigen[k] = "promoted" /\ kivec[k][s] = "promoted"
                   => kigen'[k] = "promoted" /\ kivec'[k][s] = "promoted"
  <2>1. CASE k = j
    BY <1>1, <2>1 DEF Kept, JobLive, LiveJob
  <2>2. CASE k # j
    BY <1>1, <2>2
  <2>3. QED BY <2>1, <2>2
<1>4. SourcesFit'
  <2> SUFFICES ASSUME NEW s \in KISources PROVE SourceBound(s)' /\ SourceFree(s)'
    BY DEF SourcesFit
  <2>1. SourceBound(s) /\ SourceFree(s) /\ kisrc[s].gen \in KIJobs \cup {0}
    BY DEF KIInd, SourcesFit, KITyped, JSrc
  <2>2. SourceBound(s)'
    BY <1>2, <1>3, <2>1 DEF SourceBound
  <2>3. SourceFree(s)'
    BY <1>3, <2>1 DEF SourceFree, JobLive, LiveJob
  <2>4. QED BY <2>2, <2>3
<1>5. LiveBound'
  BY <1>2, <1>3 DEF KIInd, LiveBound, JobLive, LiveJob
<1>6. RefsExact'
  <2>1. {k \in KIJobs : JobLive(k)}' = {k \in KIJobs : JobLive(k)}
    BY <1>3 DEF JobLive, LiveJob
  <2>x. JobRefs' = JobRefs
    BY <1>3, <2>1 DEF JobRefs
  <2>2. SourceRefs' = SourceRefs
    BY DEF SourceRefs
  <2>3. QED BY <2>x, <2>2 DEF KIInd, RefsExact
<1>7. QED BY <1>1, <1>4, <1>5, <1>6 DEF KIInd

(* A step that ends a live job and frees its sources.                      *)
LEMMA JobOver ==
    ASSUME KnowledgeIndexAssumption, KIInd, NEW j \in KIJobs, JobLive(j),
           NEW b, NEW t, NEW g, NEW v, NEW m, NEW h,
           JobWrites(j, b, t, g, v, m, h), JobWritesFit(b, t, g, v, m, h),
           b.srcs = kijob[j].srcs, b.status \in {"failed", "canceled"},
           kisrc' = SourcesReady(kijob[j].srcs),
           kirefs' = {r \in kirefs : r[1] # "job" \/ r[2] # j}
    PROVE  KIInd'
<1>0. kisrc \in [KISources -> JSrc]
  BY DEF KIInd, KITyped
<1>s. ASSUME NEW s \in KISources
      PROVE  /\ kisrc'[s] \in JSrc /\ kisrc'[s].gen = kisrc[s].gen /\ kisrc'[s].prof = kisrc[s].prof
             /\ IF s \in b.srcs /\ kisrc[s].status = "indexing"
                THEN kisrc'[s].status = "ready" ELSE kisrc'[s].status = kisrc[s].status
  <2>1. kisrc[s] \in JSrc
    BY <1>0
  <2>2. kisrc'[s] = IF s \in b.srcs /\ kisrc[s].status = "indexing"
                    THEN [kisrc[s] EXCEPT !.status = "ready"] ELSE kisrc[s]
    BY DEF SourcesReady
  <2>3. QED BY <2>1, <2>2 DEF JSrc
<1>1. /\ KITyped' /\ JobsFit' /\ IndexSlotsExact'
      /\ kijob'[j] = b /\ kigen'[j] = g /\ kivec'[j] = v /\ kitomb'[j] = m
      /\ \A k \in KIJobs \ {j} : /\ kijob'[k] = kijob[k] /\ kigen'[k] = kigen[k]
                                 /\ kivec'[k] = kivec[k] /\ kitomb'[k] = kitomb[k]
  <2>1. kisrc' \in [KISources -> JSrc]
    BY <1>s DEF SourcesReady
  <2>2. QED BY <2>1, JobsMove
<1>o. \A k \in KIJobs \ {j} : /\ kijob'[k] = kijob[k] /\ kigen'[k] = kigen[k]
                              /\ kivec'[k] = kivec[k] /\ kitomb'[k] = kitomb[k]
  BY <1>1
<1>2. kiconfig' = kiconfig /\ kiprof' = kiprof /\ kileft'.calm = kileft.calm
  BY DEF JobWrites, LeftKept
<1>3. \A s \in KISources : m[s] # "promoted"
  BY DEF JobWritesFit, JobFits
<1>4. ASSUME NEW k \in KIJobs PROVE JobLive(k)' <=> JobLive(k) /\ k # j
  BY <1>1 DEF JobLive
<1>5. SourcesFit'
  <2> SUFFICES ASSUME NEW s \in KISources PROVE SourceBound(s)' /\ SourceFree(s)'
    BY DEF SourcesFit
  <2>1. SourceBound(s) /\ SourceFree(s) /\ kisrc[s].gen \in KIJobs \cup {0}
    BY DEF KIInd, SourcesFit, KITyped, JSrc
  <2>2. kisrc[s].gen # j
    BY <2>1 DEF SourceBound, JobLive, KnowledgeIndexAssumption
  <2>s. /\ kisrc'[s].gen = kisrc[s].gen /\ kisrc'[s].prof = kisrc[s].prof
        /\ IF s \in b.srcs /\ kisrc[s].status = "indexing"
           THEN kisrc'[s].status = "ready" ELSE kisrc'[s].status = kisrc[s].status
    BY <1>s
  <2>t. ASSUME NEW k \in KIJobs PROVE kitomb'[k][s] = "promoted" => kitomb[k][s] = "promoted"
    BY <1>1, <1>3
  <2>o. kisrc[s].gen # 0 =>
           LET k == kisrc[s].gen IN
           kijob'[k] = kijob[k] /\ kigen'[k] = kigen[k] /\ kivec'[k] = kivec[k]
    BY <1>o, <2>1, <2>2
  <2>3. SourceBound(s)'
    <3>1. kisrc'[s].gen # 0 =>
             LET c == kijob'[kisrc'[s].gen] IN
             c.status = "succeeded" /\ s \in c.srcs /\ c.prof = kisrc'[s].prof
      BY <2>s, <2>o, <2>1 DEF SourceBound
    <3>2. kisrc'[s].prof # 0 /\ kisrc'[s].status # "deleted" =>
             kisrc'[s].prof = kiconfig' /\ kiprof'[kiconfig'] # 0
      BY <2>s, <1>2, <2>1 DEF SourceBound
    <3>3. kisrc'[s].status \in {"ready", "indexing"} => \A k \in KIJobs : kitomb'[k][s] # "promoted"
      BY <2>s, <2>t, <2>1 DEF SourceBound
    <3>4. kileft'.calm /\ kisrc'[s].gen # 0 /\ kisrc'[s].status \in {"ready", "indexing"} =>
             kigen'[kisrc'[s].gen] = "promoted" /\ kivec'[kisrc'[s].gen][s] = "promoted"
      BY <2>s, <2>o, <1>2, <2>1 DEF SourceBound
    <3>5. QED BY <3>1, <3>2, <3>3, <3>4 DEF SourceBound
  <2>4. SourceFree(s)'
    <3>0. ASSUME NEW k \in KIJobs, JobLive(k)' PROVE JobLive(k) /\ k # j /\ kijob'[k] = kijob[k]
      <4>1. JobLive(k) /\ k # j
        BY <1>4, <3>0
      <4>2. QED BY <4>1, <1>o
    <3>1. \A i, k \in KIJobs : JobLive(i)' /\ JobLive(k)' /\ s \in kijob'[i].srcs \cap kijob'[k].srcs => i = k
      BY <3>0, <2>1 DEF SourceFree
    <3>2. ASSUME kisrc'[s].status = "indexing"
          PROVE  \E k \in KIJobs : JobLive(k)' /\ s \in kijob'[k].srcs
      <4>1. kisrc[s].status = "indexing" /\ s \notin b.srcs
        BY <2>s, <3>2
      <4>2. PICK k \in KIJobs : JobLive(k) /\ s \in kijob[k].srcs
        BY <4>1, <2>1 DEF SourceFree
      <4>3. k # j
        BY <4>1, <4>2
      <4>4. QED BY <4>2, <4>3, <1>1, <1>4
    <3>3. ASSUME kisrc'[s].status = "ready", NEW k \in KIJobs, JobLive(k)'
          PROVE  s \notin kijob'[k].srcs
      BY <3>0, <3>3, <2>s, <2>1 DEF SourceFree
    <3>4. QED BY <3>1, <3>2, <3>3 DEF SourceFree
  <2>5. QED BY <2>3, <2>4
<1>6. LiveBound'
  BY <1>1, <1>2, <1>4 DEF KIInd, LiveBound
<1>7. RefsExact'
  <2>1. SourceRefs' = SourceRefs
    BY <1>s DEF SourceRefs
  <2>2. JobRefs' = {r \in JobRefs : r[2] # j}
    <3>1. {k \in KIJobs : JobLive(k)}' = {k \in KIJobs : JobLive(k)} \ {j}
      BY <1>4
    <3>2. JobRefs' = {<<"job", k, kijob[k].prof>> : k \in {k \in KIJobs : JobLive(k)} \ {j}}
      BY <3>1, <1>1 DEF JobRefs
    <3>3. QED BY <3>2 DEF JobRefs
  <2>3. kirefs = JobRefs \cup SourceRefs
    BY DEF KIInd, RefsExact
  <2>4. (\A r \in JobRefs : r[1] = "job") /\ (\A r \in SourceRefs : r[1] = "source")
    BY DEF JobRefs, SourceRefs
  <2>5. QED BY <2>1, <2>2, <2>3, <2>4 DEF RefsExact
<1>8. QED BY <1>1, <1>5, <1>6, <1>7 DEF KIInd

(***************************************************************************)
(* The rows of a job before a step, under names of their own.              *)
(***************************************************************************)
JobIs(j, b, t, g, v, m, h) ==
    /\ kijob[j] = b /\ kitask[j] = t /\ kigen[j] = g /\ kivec[j] = v /\ kitomb[j] = m /\ kihand[j] = h
    /\ kijob = [kijob EXCEPT ![j] = b] /\ kitask = [kitask EXCEPT ![j] = t]
    /\ kigen = [kigen EXCEPT ![j] = g] /\ kivec = [kivec EXCEPT ![j] = v]
    /\ kitomb = [kitomb EXCEPT ![j] = m] /\ kihand = [kihand EXCEPT ![j] = h]
    /\ kileft \in KILeft /\ (kileft.calm => kileft.faults = 0)
    /\ JobWritesFit(b, t, g, v, m, h)
    /\ kislots \in Nat /\ (t.status = "running" => kislots > 0)

LEMMA JobKnown ==
    ASSUME KnowledgeIndexAssumption, KIInd, NEW j \in KIJobs
    PROVE  \E b, t, g, v, m, h : JobIs(j, b, t, g, v, m, h)
<1>1. KITyped /\ JobsFit /\ IndexSlotsExact
  BY DEF KIInd
<1>2. JobWritesFit(kijob[j], kitask[j], kigen[j], kivec[j], kitomb[j], kihand[j])
  BY <1>1 DEF KITyped, JobsFit, JobWritesFit
<1>3. /\ kijob = [kijob EXCEPT ![j] = kijob[j]] /\ kitask = [kitask EXCEPT ![j] = kitask[j]]
      /\ kigen = [kigen EXCEPT ![j] = kigen[j]] /\ kivec = [kivec EXCEPT ![j] = kivec[j]]
      /\ kitomb = [kitomb EXCEPT ![j] = kitomb[j]] /\ kihand = [kihand EXCEPT ![j] = kihand[j]]
      /\ kileft \in KILeft /\ (kileft.calm => kileft.faults = 0)
  BY <1>1 DEF KITyped
<1>4. kislots \in Nat /\ (kitask[j].status = "running" => kislots > 0)
  <2> DEFINE S == {k \in KIJobs : KIRunning(k)}
  <2>1. IsFiniteSet(S) /\ Cardinality(S) \in Nat
    BY FS_Subset, FS_CardinalityType DEF KnowledgeIndexAssumption
  <2>2. kitask[j].status = "running" => S # {}
    BY DEF KIRunning
  <2>3. S # {} => Cardinality(S) # 0
    BY <2>1, FS_EmptySet
  <2>4. QED BY <1>1, <2>1, <2>2, <2>3 DEF IndexSlotsExact
<1>5. QED BY <1>2, <1>3, <1>4 DEF JobIs

(* The handler moves on, or stops.                                         *)
HandMoves(h, e, h2, pcs) ==
    /\ h2 \in Hands
    /\ h2[e].pc \in pcs /\ h2[e].todo \subseteq h[e].todo
    /\ \A d \in KIEpochs \ {e} : h2[d] = h[d]

GoPc == {"mark", "ensure", "ensured", "source", "index", "embed", "indexed", "promoted", "commit", "after"}
GoesTo(j, h, e, h2, pc) ==
    /\ kihand' = [kihand EXCEPT ![j] = h2] /\ HandMoves(h, e, h2, {pc})
    /\ h2[e].todo = h[e].todo

LEMMA HandGoes ==
    ASSUME NEW j \in KIJobs, NEW e \in KIEpochs, NEW h \in Hands, kihand[j] = h,
           kihand \in [KIJobs -> Hands],
           NEW pc, pc \in GoPc, HandlerGoes(j, e, pc)
    PROVE  \E h2 : GoesTo(j, h, e, h2, pc)
<1> DEFINE h2 == [h EXCEPT ![e].pc = pc]
<1>1. kihand' = [kihand EXCEPT ![j] = h2]
  BY DEF HandlerGoes
<1>2. h \in [KIEpochs -> Hand] /\ h[e] \in Hand
  BY DEF Hands
<1>3. [h[e] EXCEPT !.pc = pc] \in Hand
  BY <1>2 DEF Hand, PickedPc, FullPc, GoPc
<1>4. h2 \in Hands /\ h2[e] = [h[e] EXCEPT !.pc = pc] /\ \A d \in KIEpochs \ {e} : h2[d] = h[d]
  BY <1>2, <1>3 DEF Hands
<1>5. h2[e].pc = pc /\ h2[e].todo = h[e].todo
  BY <1>2, <1>4 DEF Hand
<1>6. QED BY <1>1, <1>4, <1>5 DEF HandMoves, GoesTo

LEMMA HandStops ==
    ASSUME NEW j \in KIJobs, NEW e \in KIEpochs, NEW h \in Hands, kihand[j] = h,
           kihand \in [KIJobs -> Hands], HandlerStops(j, e)
    PROVE  \E h2 : kihand' = [kihand EXCEPT ![j] = h2] /\ HandMoves(h, e, h2, {"none"})
<1> DEFINE h2 == [h EXCEPT ![e] = NoHandler]
<1>1. kihand' = [kihand EXCEPT ![j] = h2]
  BY DEF HandlerStops
<1>2. h \in [KIEpochs -> Hand] /\ NoHandler \in Hand
  BY DEF Hands, Hand, NoHandler
<1>3. h2 \in Hands /\ h2[e] = NoHandler /\ \A d \in KIEpochs \ {e} : h2[d] = h[d]
  BY <1>2 DEF Hands
<1>4. h2[e].pc = "none" /\ h2[e].todo = {}
  BY <1>3 DEF NoHandler
<1> HIDE DEF h2
<1>5. QED BY <1>1, <1>3, <1>4 DEF HandMoves

(* The vector store takes back what is staged.                             *)
VecsMove(g, v, g2, v2) ==
    /\ g2 \in Vec /\ v2 \in Vecs
    /\ g = "promoted" => g2 = "promoted"
    /\ \A s \in KISources : (v2[s] # "none" => v[s] # "none") /\ (v[s] = "promoted" => v2[s] = "promoted")

LEMMA StageGoes ==
    ASSUME NEW j \in KIJobs, NEW g \in Vec, NEW v \in Vecs, kigen[j] = g, kivec[j] = v,
           kigen \in [KIJobs -> Vec], kivec \in [KIJobs -> Vecs], DeleteStagingGeneration(j)
    PROVE  \E g2, v2 : /\ kigen' = [kigen EXCEPT ![j] = g2] /\ kivec' = [kivec EXCEPT ![j] = v2]
                       /\ VecsMove(g, v, g2, v2)
<1> DEFINE g2 == IF g = "staged" THEN "none" ELSE g
           v2 == [s \in KISources |-> IF v[s] = "staged" THEN "none" ELSE v[s]]
<1>1. kigen' = [kigen EXCEPT ![j] = g2] /\ kivec' = [kivec EXCEPT ![j] = v2]
  BY DEF DeleteStagingGeneration
<1>2. VecsMove(g, v, g2, v2)
  BY DEF VecsMove, Vec, Vecs
<1>3. QED BY <1>1, <1>2

(* The pool fails a task, or leaves it.                                    *)
TaskMoves(t, t2) ==
    /\ t2 \in JTask /\ t2.epoch = t.epoch
    /\ t2 = t \/ (t.status = "running" /\ t2.status = "failed" /\ ~t2.held)

LEMMA PoolMoves ==
    ASSUME NEW j \in KIJobs, NEW e \in KIEpochs, NEW t \in JTask, kitask[j] = t,
           kitask \in [KIJobs -> JTask], kislots \in Nat, kitask = [kitask EXCEPT ![j] = t], PoolFails(j, e)
    PROVE  \E t2 : /\ kitask' = [kitask EXCEPT ![j] = t2] /\ TaskMoves(t, t2)
                   /\ kislots' = kislots + Slot(t2) - Slot(t)
<1>1. CASE checkTaskFence(j, e)
  <2> DEFINE t2 == [t EXCEPT !.status = "failed", !.held = FALSE]
  <2>1. t.status = "running"
    BY <1>1 DEF checkTaskFence, KIRunning
  <2>2. t2 \in JTask /\ t2.epoch = t.epoch /\ t2.status = "failed" /\ ~t2.held
    BY DEF JTask, OverJob
  <2>3. kitask' = [kitask EXCEPT ![j] = t2] /\ kislots' = kislots - 1
    BY <1>1, <2>1 DEF PoolFails, TaskEnds, KIRunning, JTask
  <2>4. kislots' = kislots + Slot(t2) - Slot(t)
    BY <2>1, <2>2, <2>3 DEF Slot
  <2>5. QED BY <2>1, <2>2, <2>3, <2>4 DEF TaskMoves
<1>2. CASE ~checkTaskFence(j, e)
  <2>1. kitask' = kitask /\ kislots' = kislots
    BY <1>2 DEF PoolFails
  <2>2. kislots' = kislots + Slot(t) - Slot(t)
    BY <2>1 DEF Slot
  <2>3. QED BY <2>1, <2>2 DEF TaskMoves
<1>3. QED BY <1>1, <1>2

(* A step of a handler that leaves its job, its sources and its pins.      *)
HandleWrites(j, t, t2, g2, v2, h2) ==
    /\ kitask' = [kitask EXCEPT ![j] = t2] /\ kislots' = kislots + Slot(t2) - Slot(t)
    /\ kigen' = [kigen EXCEPT ![j] = g2] /\ kivec' = [kivec EXCEPT ![j] = v2]
    /\ kihand' = [kihand EXCEPT ![j] = h2]
    /\ kijob' = kijob /\ kisrc' = kisrc /\ kirefs' = kirefs /\ kiconfig' = kiconfig /\ kiprof' = kiprof
    /\ LeftKept

HandleFits(b, t, g, v, h, e, t2, g2, v2, h2) ==
    /\ TaskMoves(t, t2) /\ g2 \in Vec /\ v2 \in Vecs
    /\ \A s \in KISources : v2[s] # "none" => s \in b.srcs
    /\ h[e].pc = "after" => VecsMove(g, v, g2, v2) /\ h2[e].pc = "none"
    /\ h[e].pc # "none"
    /\ \E pc : HandMoves(h, e, h2, {pc})
    /\ h2[e].pc \in PickedPc => h2[e].todo # {}
    /\ h2[e].pc = "after" => b.status = "succeeded"
    /\ kileft.calm /\ h2[e].pc \in FullPc /\ b.status \in LiveJob =>
          g2 = "promoted" /\ \A s \in b.srcs : v2[s] = "promoted"

(* The tombstones m2 a handler step leaves.                                *)
TombsMove(m, m2) ==
    /\ m2 \in Tombs
    /\ \A s \in KISources : /\ m2[s] = "promoted" => m[s] = "promoted"
                            /\ m[s] = "canceled_staging" => m2[s] = "canceled_staging"

LEMMA Handles ==
    ASSUME KnowledgeIndexAssumption, KIInd, NEW j \in KIJobs, NEW e \in KIEpochs,
           NEW b, NEW t, NEW g, NEW v, NEW m, NEW h, JobIs(j, b, t, g, v, m, h),
           NEW t2, NEW g2, NEW v2, NEW m2, NEW h2,
           HandleWrites(j, t, t2, g2, v2, h2), HandleFits(b, t, g, v, h, e, t2, g2, v2, h2),
           kitomb' = [kitomb EXCEPT ![j] = m2], TombsMove(m, m2)
    PROVE  KIInd'
<1>0. JobWritesFit(b, t, g, v, m, h) /\ kijob[j] = b
  BY DEF JobIs
<1>1. JobWrites(j, b, t2, g2, v2, m2, h2)
  BY DEF JobIs, HandleWrites, JobWrites
<1>2. JobFits(b, t2, v2, m2, h2)
  <2>1. JobFits(b, t, v, m, h)
    BY <1>0 DEF JobWritesFit
  <2>2. /\ t2.status = "none" <=> b.status = "none"
        /\ t2.status \in LiveJob => b.status \in LiveJob
        /\ t2.held => t2.status = "running"
        /\ t2.status \in {"none", "queued"} => t2.epoch = 0
    BY <2>1 DEF JobFits, HandleFits, TaskMoves, LiveJob
  <2>3. /\ b.status = "canceled" => \A s \in b.srcs : m2[s] = "canceled_staging"
        /\ \A s \in KISources : m2[s] = "promoted" => b.status = "succeeded"
    <3>1. b.srcs \subseteq KISources
      BY <1>0 DEF JobWritesFit, JRow
    <3>2. QED BY <2>1, <3>1 DEF JobFits, TombsMove
  <2>4. ASSUME NEW d \in KIEpochs
        PROVE  /\ h2[d].todo \subseteq b.srcs /\ (h2[d].pc \in PickedPc => h2[d].todo # {})
               /\ h2[d].pc = "after" => b.status = "succeeded"
    <3>1. CASE d = e
      BY <2>1, <3>1 DEF JobFits, HandleFits, HandMoves
    <3>2. CASE d # e
      BY <2>1, <3>2 DEF JobFits, HandleFits, HandMoves
    <3>3. QED BY <3>1, <3>2
  <2>5. QED BY <2>1, <2>2, <2>3, <2>4 DEF JobFits, HandleFits
<1>3. ASSUME kileft.calm PROVE CalmFits(b, t2, g2, v2, h2)
  <2>1. CalmFits(b, t, g, v, h)
    BY <1>0, <1>3 DEF JobWritesFit
  <2>2. e = 1 /\ t.epoch # 0 /\ (b.status = "succeeded" => h[e].pc = "after")
    BY <2>1 DEF CalmFits, HandleFits
  <2>3. t2.status = "running" => t2.held
    BY <2>1 DEF CalmFits, HandleFits, TaskMoves
  <2>4. ASSUME NEW d \in KIEpochs
        PROVE  /\ t2.epoch = 0 => h2[d].pc = "none"
               /\ h2[d].pc # "none" => d = 1
               /\ b.status = "succeeded" => h2[d].pc \in {"none", "after"}
               /\ h2[d].pc \in FullPc /\ b.status \in LiveJob =>
                     g2 = "promoted" /\ \A s \in b.srcs : v2[s] = "promoted"
    <3>1. CASE d = e
      BY <1>3, <2>1, <2>2, <3>1 DEF CalmFits, HandleFits, TaskMoves
    <3>2. CASE d # e
      <4>1. h2[d] = h[d] /\ h[d].pc = "none"
        BY <2>1, <2>2, <3>2 DEF CalmFits, HandleFits, HandMoves
      <4>2. QED BY <4>1 DEF FullPc
    <3>3. QED BY <3>1, <3>2
  <2>5. QED BY <2>3, <2>4 DEF CalmFits
<1>4. JobWritesFit(b, t2, g2, v2, m2, h2)
  BY <1>0, <1>2, <1>3 DEF JobWritesFit, HandleFits, TaskMoves, HandMoves, TombsMove
<1>5. Kept(j, b, g2, v2, m2)
  <2>1. ASSUME kileft.calm, NEW s \in KISources, kisrc[s].gen = j,
               kigen[j] = "promoted", kivec[j][s] = "promoted"
        PROVE  g2 = "promoted" /\ v2[s] = "promoted"
    <3>1. b.status = "succeeded"
      BY <1>0, <2>1 DEF KIInd, SourcesFit, SourceBound, KnowledgeIndexAssumption
    <3>2. CalmFits(b, t, g, v, h)
      BY <1>0, <2>1 DEF JobWritesFit
    <3>3. h[e].pc = "after"
      BY <3>1, <3>2 DEF CalmFits, HandleFits
    <3>4. VecsMove(g, v, g2, v2) /\ g = "promoted" /\ v[s] = "promoted"
      BY <2>1, <3>3 DEF HandleFits, JobIs
    <3>5. QED BY <3>4 DEF VecsMove
  <2>2. \A s \in KISources : m2[s] = "promoted" => kitomb[j][s] = "promoted"
    BY DEF TombsMove, JobIs
  <2>3. QED BY <1>0, <2>1, <2>2 DEF Kept, JobLive, LiveJob
<1>6. kisrc' = kisrc /\ kirefs' = kirefs
  BY DEF HandleWrites
<1>7. QED BY <1>1, <1>4, <1>5, <1>6, JobMoves

(* A live job ends with its task: b2, t2 and its slot.                     *)
EndsJob(j, to) ==
    kijob' = [kijob EXCEPT ![j].status = IF JobLive(j) THEN to ELSE @] /\ TaskEnds(j, to)

LEMMA TaskOver ==
    ASSUME NEW j \in KIJobs, NEW b \in JRow, NEW t \in JTask, kijob[j] = b, kitask[j] = t,
           kijob \in [KIJobs -> JRow], kitask \in [KIJobs -> JTask], kislots \in Nat,
           JobLive(j), NEW to \in {"failed", "canceled"},
           EndsJob(j, to)
    PROVE  \E b2, t2 :
              /\ kijob' = [kijob EXCEPT ![j] = b2] /\ kitask' = [kitask EXCEPT ![j] = t2]
              /\ kislots' = kislots + Slot(t2) - Slot(t)
              /\ b2 \in JRow /\ b2.status = to /\ b2.srcs = b.srcs /\ b2.prof = b.prof
              /\ t2 \in JTask /\ t2.status = to /\ ~t2.held /\ t2.epoch = t.epoch
<1> DEFINE b2 == [b EXCEPT !.status = to]
           t2 == [t EXCEPT !.status = to, !.held = FALSE]
<1>1. kijob' = [kijob EXCEPT ![j] = b2]
  BY DEF EndsJob
<1>2. kitask' = [kitask EXCEPT ![j] = t2] /\ kislots' = IF t.status = "running" THEN kislots - 1 ELSE kislots
  BY DEF EndsJob, TaskEnds, KIRunning, JTask
<1>3. b2 \in JRow /\ b2.status = to /\ b2.srcs = b.srcs /\ b2.prof = b.prof
  BY DEF JRow, OverJob
<1>4. t2 \in JTask /\ t2.status = to /\ ~t2.held /\ t2.epoch = t.epoch
  BY DEF JTask, OverJob
<1> HIDE DEF b2, t2
<1>5. kislots' = kislots + Slot(t2) - Slot(t)
  BY <1>2, <1>4 DEF Slot
<1>6. QED BY <1>1, <1>2, <1>3, <1>4, <1>5

(* The handlers and the vectors a job that ends keeps.                     *)
RestFits(b, v, h, g2, v2, h2) ==
    /\ g2 \in Vec /\ v2 \in Vecs /\ h2 \in Hands
    /\ \A s \in KISources : v2[s] # "none" => s \in b.srcs
    /\ \A d \in KIEpochs : h2[d] = h[d] \/ (h2[d].pc = "none" /\ h2[d].todo \subseteq h[d].todo)

LEMMA OverFits ==
    ASSUME NEW b, NEW t, NEW g, NEW v, NEW m, NEW h, JobWritesFit(b, t, g, v, m, h), b.status \in LiveJob,
           NEW b2, NEW t2, NEW g2, NEW v2, NEW m2, NEW h2, NEW to \in {"failed", "canceled"},
           b2 \in JRow, b2.status = to, b2.srcs = b.srcs, b2.prof = b.prof,
           t2 \in JTask, t2.status = to, ~t2.held, t2.epoch = t.epoch,
           RestFits(b, v, h, g2, v2, h2), m2 \in Tombs,
           \A s \in KISources : m2[s] = "promoted" => m[s] = "promoted",
           to = "canceled" => \A s \in b.srcs : m2[s] = "canceled_staging"
    PROVE  JobWritesFit(b2, t2, g2, v2, m2, h2)
<1>1. JobFits(b, t, v, m, h) /\ b \in JRow
  BY DEF JobWritesFit
<1>2. JobFits(b2, t2, v2, m2, h2)
  <2>1. \A s \in KISources : m2[s] # "promoted"
    BY <1>1 DEF JobFits, LiveJob
  <2>2. ASSUME NEW d \in KIEpochs
        PROVE  /\ h2[d].todo \subseteq b2.srcs /\ (h2[d].pc \in PickedPc => h2[d].todo # {})
               /\ h2[d].pc = "after" => b2.status = "succeeded"
    <3>1. h[d].pc # "after" /\ h[d].todo \subseteq b.srcs /\ (h[d].pc \in PickedPc => h[d].todo # {})
      BY <1>1 DEF JobFits, LiveJob
    <3>2. QED BY <3>1 DEF RestFits, PickedPc
  <2>3. b2.prof # 0 /\ \A s \in KISources : v2[s] # "none" => s \in b2.srcs
    BY <1>1 DEF JobFits, LiveJob, RestFits
  <2>4. QED BY <2>1, <2>2, <2>3 DEF JobFits, LiveJob
<1>3. ASSUME kileft.calm PROVE CalmFits(b2, t2, g2, v2, h2)
  <2>1. CalmFits(b, t, g, v, h)
    BY <1>3 DEF JobWritesFit
  <2>2. ASSUME NEW d \in KIEpochs
        PROVE  /\ t2.epoch = 0 => h2[d].pc = "none"
               /\ h2[d].pc # "none" => d = 1
    BY <2>1 DEF CalmFits, RestFits
  <2>3. QED BY <2>2 DEF CalmFits, LiveJob
<1>4. QED BY <1>2, <1>3 DEF JobWritesFit, RestFits

LEMMA FailMoves ==
    ASSUME KnowledgeIndexAssumption, KIInd, NEW j \in KIJobs, NEW e \in KIEpochs,
           NEW b, NEW t, NEW g, NEW v, NEW m, NEW h, JobIs(j, b, t, g, v, m, h),
           NEW g2, NEW v2, NEW h2, VecsMove(g, v, g2, v2), HandMoves(h, e, h2, {"none"}),
           h[e].pc \notin {"none", "after"},
           kigen' = [kigen EXCEPT ![j] = g2], kivec' = [kivec EXCEPT ![j] = v2],
           kihand' = [kihand EXCEPT ![j] = h2],
           kiconfig' = kiconfig, kiprof' = kiprof, LeftKept, Fails(j, e)
    PROVE  KIInd'
<1>0. /\ JobWritesFit(b, t, g, v, m, h) /\ kijob[j] = b /\ kitask[j] = t /\ kitomb[j] = m /\ kislots \in Nat
      /\ \A s \in KISources : v2[s] # "none" => s \in b.srcs
  BY DEF JobIs, JobWritesFit, JobFits, VecsMove
<1>1. CASE checkTaskFence(j, e)
  <2>1. b.status \in LiveJob /\ JobLive(j)
    BY <1>0, <1>1 DEF checkTaskFence, KIRunning, JobWritesFit, JobFits, JobLive, LiveJob
  <2>2. /\ kijob' = [kijob EXCEPT ![j].status = IF JobLive(j) THEN "failed" ELSE @]
        /\ kitomb' = [kitomb EXCEPT ![j] = Tombstones(j, "staging")]
        /\ kisrc' = SourcesReady(kijob[j].srcs) /\ TaskEnds(j, "failed")
        /\ kirefs' = {r \in kirefs : r[1] # "job" \/ r[2] # j}
    BY <1>1 DEF Fails
  <2>3. PICK b2, t2 :
              /\ kijob' = [kijob EXCEPT ![j] = b2] /\ kitask' = [kitask EXCEPT ![j] = t2]
              /\ kislots' = kislots + Slot(t2) - Slot(t)
              /\ b2 \in JRow /\ b2.status = "failed" /\ b2.srcs = b.srcs /\ b2.prof = b.prof
              /\ t2 \in JTask /\ t2.status = "failed" /\ ~t2.held /\ t2.epoch = t.epoch
    <3>1. b \in JRow /\ t \in JTask /\ kijob \in [KIJobs -> JRow] /\ kitask \in [KIJobs -> JTask]
      BY <1>0 DEF JobWritesFit, KIInd, KITyped
    <3>2. EndsJob(j, "failed")
      BY <2>2 DEF EndsJob
    <3>3. QED BY <1>0, <2>1, <3>1, <3>2, TaskOver
  <2>4. PICK m2 : m2 = Tombstones(j, "staging")
    BY Zenon
  <2>5. m2 \in Tombs /\ \A s \in KISources : m2[s] = "promoted" => m[s] = "promoted"
    <3>1. m \in Tombs
      BY <1>0 DEF JobWritesFit
    <3>2. QED BY <1>0, <2>4, <3>1 DEF Tombstones, Tombs
  <2>6. RestFits(b, v, h, g2, v2, h2)
    BY <1>0 DEF RestFits, VecsMove, HandMoves
  <2>7. JobWritesFit(b2, t2, g2, v2, m2, h2)
    BY <1>0, <2>1, <2>3, <2>5, <2>6, OverFits
  <2>8. JobWrites(j, b2, t2, g2, v2, m2, h2)
    BY <1>0, <2>2, <2>3, <2>4 DEF JobWrites
  <2>9. QED BY <1>0, <2>1, <2>2, <2>3, <2>7, <2>8, JobOver
<1>2. CASE ~checkTaskFence(j, e)
  <2>1. UNCHANGED <<kijob, kitomb, kisrc, kitask, kislots, kirefs>>
    BY <1>2 DEF Fails
  <2>2. HandleWrites(j, t, t, g2, v2, h2) /\ kitomb' = [kitomb EXCEPT ![j] = m]
    BY <1>0, <2>1 DEF HandleWrites, JobIs, Slot
  <2>3. HandleFits(b, t, g, v, h, e, t, g2, v2, h2)
    BY <1>0 DEF HandleFits, TaskMoves, JobWritesFit, VecsMove, HandMoves, PickedPc, FullPc
  <2>4. TombsMove(m, m)
    BY <1>0 DEF TombsMove, JobWritesFit
  <2>5. QED BY <2>2, <2>3, <2>4, Handles
<1>3. QED BY <1>1, <1>2

LEMMA CancelTaskOk ==
    ASSUME KnowledgeIndexAssumption, KIInd, NEW j \in KIJobs, CancelIndexTask(j)
    PROVE  KIInd'
<1>0. PICK b, t, g, v, m, h : JobIs(j, b, t, g, v, m, h)
  BY JobKnown
<1>1. JobWritesFit(b, t, g, v, m, h) /\ kijob[j] = b /\ kitask[j] = t /\ kitomb[j] = m /\ kislots \in Nat
  BY <1>0 DEF JobIs
<1>2. b.status \in LiveJob /\ JobLive(j)
  BY <1>1 DEF CancelIndexTask, JobWritesFit, JobFits, JobLive, LiveJob
<1>3. PICK b2, t2 :
            /\ kijob' = [kijob EXCEPT ![j] = b2] /\ kitask' = [kitask EXCEPT ![j] = t2]
            /\ kislots' = kislots + Slot(t2) - Slot(t)
            /\ b2 \in JRow /\ b2.status = "canceled" /\ b2.srcs = b.srcs /\ b2.prof = b.prof
            /\ t2 \in JTask /\ t2.status = "canceled" /\ ~t2.held /\ t2.epoch = t.epoch
  <2>1. b \in JRow /\ t \in JTask /\ kijob \in [KIJobs -> JRow] /\ kitask \in [KIJobs -> JTask]
    BY <1>1 DEF JobWritesFit, KIInd, KITyped
  <2>2. EndsJob(j, "canceled")
    BY DEF EndsJob, CancelIndexTask
  <2>3. QED BY <1>1, <1>2, <2>1, <2>2, TaskOver
<1>4. PICK m2 : m2 = CanceledTombstones(j)
  BY Zenon
<1>5. /\ m2 \in Tombs /\ \A s \in KISources : m2[s] = "promoted" => m[s] = "promoted"
      /\ \A s \in b.srcs : m2[s] = "canceled_staging"
  <2>1. m \in Tombs /\ b.srcs \subseteq KISources
    BY <1>1 DEF JobWritesFit, JRow
  <2>2. QED BY <1>1, <1>4, <2>1 DEF CanceledTombstones, Tombs
<1>6. RestFits(b, v, h, g, v, h)
  BY <1>1 DEF RestFits, JobWritesFit, JobFits
<1>7. JobWritesFit(b2, t2, g, v, m2, h)
  BY <1>1, <1>2, <1>3, <1>5, <1>6, OverFits
<1>8. JobWrites(j, b2, t2, g, v, m2, h)
  BY <1>0, <1>3, <1>4 DEF JobWrites, JobIs, CancelIndexTask, kiVectors, LeftKept
<1>9. kisrc' = SourcesReady(kijob[j].srcs) /\ kirefs' = {r \in kirefs : r[1] # "job" \/ r[2] # j}
  BY DEF CancelIndexTask
<1>10. QED BY <1>1, <1>2, <1>3, <1>7, <1>8, <1>9, JobOver

(***************************************************************************)
(* The handler's steps.                                                    *)
(***************************************************************************)
JobHas(j, b, t, g, v, m, h) ==
    /\ JobIs(j, b, t, g, v, m, h)
    /\ kihand \in [KIJobs -> Hands] /\ kigen \in [KIJobs -> Vec] /\ kivec \in [KIJobs -> Vecs]
    /\ kitask \in [KIJobs -> JTask]
    /\ h \in Hands /\ g \in Vec /\ v \in Vecs /\ m \in Tombs /\ t \in JTask /\ b \in JRow
    /\ kijob[j] = b /\ kitask[j] = t /\ kigen[j] = g /\ kivec[j] = v /\ kitomb[j] = m /\ kihand[j] = h
    /\ \A s \in KISources : v[s] # "none" => s \in b.srcs
    /\ \A e \in KIEpochs : /\ h[e].pc \in PickedPc => h[e].todo # {}
                           /\ h[e].pc = "after" => b.status = "succeeded"
                           /\ h[e].todo \subseteq b.srcs
    /\ b.srcs \subseteq KISources

LEMMA JobMet ==
    ASSUME KnowledgeIndexAssumption, KIInd, NEW j \in KIJobs
    PROVE  \E b, t, g, v, m, h : JobHas(j, b, t, g, v, m, h)
<1>1. PICK b, t, g, v, m, h : JobIs(j, b, t, g, v, m, h)
  BY JobKnown
<1>2. JobWritesFit(b, t, g, v, m, h) /\ KITyped
  BY <1>1 DEF JobIs, KIInd
<1>3. JobFits(b, t, v, m, h) /\ b.srcs \subseteq KISources
  BY <1>2 DEF JobWritesFit, JRow
<1>4. QED BY <1>1, <1>2, <1>3 DEF JobHas, JobIs, JobWritesFit, JobFits, KITyped

(* Only the handler and the vectors of its generation move.                *)
HandlerOnly(j, b, t, g, v, h, e, g2, v2, h2) ==
    /\ kigen' = [kigen EXCEPT ![j] = g2] /\ kivec' = [kivec EXCEPT ![j] = v2]
    /\ kihand' = [kihand EXCEPT ![j] = h2]
    /\ UNCHANGED <<kiRows, kitomb, kileft>>
    /\ HandleFits(b, t, g, v, h, e, t, g2, v2, h2)

LEMMA HandlerPlain ==
    ASSUME KnowledgeIndexAssumption, KIInd, NEW j \in KIJobs, NEW e \in KIEpochs,
           NEW b, NEW t, NEW g, NEW v, NEW m, NEW h, JobHas(j, b, t, g, v, m, h),
           NEW g2, NEW v2, NEW h2, HandlerOnly(j, b, t, g, v, h, e, g2, v2, h2)
    PROVE  KIInd'
<1>1. JobIs(j, b, t, g, v, m, h) /\ kislots \in Nat
  BY DEF JobHas, JobIs
<1>2. HandleWrites(j, t, t, g2, v2, h2) /\ kitomb' = [kitomb EXCEPT ![j] = m]
  BY <1>1 DEF HandlerOnly, HandleWrites, JobIs, JobHas, Slot, kiRows, LeftKept
<1>3. TombsMove(m, m)
  BY DEF TombsMove, JobHas
<1>4. HandleFits(b, t, g, v, h, e, t, g2, v2, h2)
  BY DEF HandlerOnly
<1>5. QED BY <1>1, <1>2, <1>3, <1>4, Handles

(* The handler gives up: fail, with the vectors it may have taken back.    *)
LEMMA FailOk ==
    ASSUME KnowledgeIndexAssumption, KIInd, NEW j \in KIJobs, NEW e \in KIEpochs,
           NEW b, NEW t, NEW g, NEW v, NEW m, NEW h, JobHas(j, b, t, g, v, m, h),
           h[e].pc \notin {"none", "after"}, Fails(j, e), HandlerStops(j, e),
           UNCHANGED kiVectors \/ DeleteStagingGeneration(j),
           kiconfig' = kiconfig, kiprof' = kiprof, LeftKept
    PROVE  KIInd'
<1>1. PICK h2 : kihand' = [kihand EXCEPT ![j] = h2] /\ HandMoves(h, e, h2, {"none"})
  BY HandStops DEF JobHas
<1>2. PICK g2, v2 : /\ kigen' = [kigen EXCEPT ![j] = g2] /\ kivec' = [kivec EXCEPT ![j] = v2]
                    /\ VecsMove(g, v, g2, v2)
  <2>1. CASE UNCHANGED kiVectors
    BY <2>1 DEF kiVectors, JobHas, JobIs, VecsMove
  <2>2. CASE DeleteStagingGeneration(j)
    BY <2>2, StageGoes DEF JobHas
  <2>3. QED BY <2>1, <2>2
<1>3. JobIs(j, b, t, g, v, m, h)
  BY DEF JobHas
<1>4. QED BY <1>1, <1>2, <1>3, FailMoves

(* The handler stops, with the vectors it may have taken back.             *)
LEMMA StopOk ==
    ASSUME KnowledgeIndexAssumption, KIInd, NEW j \in KIJobs, NEW e \in KIEpochs,
           NEW b, NEW t, NEW g, NEW v, NEW m, NEW h, JobHas(j, b, t, g, v, m, h),
           h[e].pc # "none", HandlerStops(j, e),
           UNCHANGED kiVectors \/ DeleteStagingGeneration(j), UNCHANGED <<kiRows, kitomb, kileft>>
    PROVE  KIInd'
<1>1. PICK h2 : kihand' = [kihand EXCEPT ![j] = h2] /\ HandMoves(h, e, h2, {"none"})
  BY HandStops DEF JobHas
<1>2. PICK g2, v2 : /\ kigen' = [kigen EXCEPT ![j] = g2] /\ kivec' = [kivec EXCEPT ![j] = v2]
                    /\ VecsMove(g, v, g2, v2)
  <2>1. CASE UNCHANGED kiVectors
    BY <2>1 DEF kiVectors, JobHas, JobIs, VecsMove
  <2>2. CASE DeleteStagingGeneration(j)
    BY <2>2, StageGoes DEF JobHas
  <2>3. QED BY <2>1, <2>2
<1>3. HandleFits(b, t, g, v, h, e, t, g2, v2, h2)
  BY <1>1, <1>2 DEF HandleFits, TaskMoves, VecsMove, HandMoves, PickedPc, FullPc, JobHas
<1>4. HandlerOnly(j, b, t, g, v, h, e, g2, v2, h2)
  BY <1>1, <1>2, <1>3 DEF HandlerOnly
<1>5. QED BY <1>4, HandlerPlain

(* The handler goes on and leaves the vectors.                             *)
LEMMA GoOk ==
    ASSUME KnowledgeIndexAssumption, KIInd, NEW j \in KIJobs, NEW e \in KIEpochs,
           NEW b, NEW t, NEW g, NEW v, NEW m, NEW h, JobHas(j, b, t, g, v, m, h),
           h[e].pc \notin {"none", "after"},
           NEW pc \in {"mark", "ensure", "ensured", "source", "index", "embed", "indexed"},
           pc \in PickedPc => h[e].todo # {}, HandlerGoes(j, e, pc),
           NEW g2, NEW v2, g2 \in Vec, v2 \in Vecs, \A s \in KISources : v2[s] # "none" => s \in b.srcs,
           kigen' = [kigen EXCEPT ![j] = g2], kivec' = [kivec EXCEPT ![j] = v2],
           UNCHANGED <<kiRows, kitomb, kileft>>
    PROVE  KIInd'
<1>0. pc \in GoPc /\ h \in Hands /\ kihand[j] = h /\ kihand \in [KIJobs -> Hands]
  BY DEF GoPc, JobHas
<1>x. \E h2 : GoesTo(j, h, e, h2, pc)
  BY <1>0, HandGoes
<1>1. PICK h2 : GoesTo(j, h, e, h2, pc)
  BY <1>x
<1>2. HandleFits(b, t, g, v, h, e, t, g2, v2, h2)
  BY <1>1 DEF GoesTo, HandleFits, TaskMoves, HandMoves, FullPc, PickedPc, JobHas
<1>3. HandlerOnly(j, b, t, g, v, h, e, g2, v2, h2)
  BY <1>1, <1>2 DEF HandlerOnly, GoesTo
<1>4. QED BY <1>3, HandlerPlain

LEMMA ReadJobOk ==
    ASSUME KnowledgeIndexAssumption, KIInd, NEW j \in KIJobs, NEW e \in KIEpochs, ReadJob(j, e)
    PROVE  KIInd'
<1>0. PICK b, t, g, v, m, h : JobHas(j, b, t, g, v, m, h)
  BY JobMet
<1>1. h[e].pc = "start"
  BY <1>0 DEF ReadJob, JobHas
<1>2. CASE HandlerStops(j, e) /\ UNCHANGED <<kiRows, kiVectors, kitomb, kistage, kileft>>
  BY <1>0, <1>1, <1>2, StopOk
<1>3. CASE FailStep(j, e) /\ UNCHANGED kiVectors
  <2>1. kiconfig' = kiconfig /\ kiprof' = kiprof /\ LeftKept /\ Fails(j, e) /\ HandlerStops(j, e)
    BY <1>0, <1>3 DEF FailStep, LeftKept, JobHas, JobIs
  <2>2. QED BY <1>0, <1>1, <1>3, <2>1, FailOk
<1>4. CASE HandlerGoes(j, e, "mark") /\ UNCHANGED <<kiRows, kiVectors, kitomb, kistage, kileft>>
  <2>1. /\ g \in Vec /\ v \in Vecs /\ \A s \in KISources : v[s] # "none" => s \in b.srcs
        /\ kigen' = [kigen EXCEPT ![j] = g] /\ kivec' = [kivec EXCEPT ![j] = v]
    BY <1>0, <1>4 DEF JobHas, JobIs, kiVectors
  <2>2. QED BY <1>0, <1>1, <1>4, <2>1, GoOk DEF PickedPc
<1>5. QED BY <1>2, <1>3, <1>4 DEF ReadJob

LEMMA MarkRunningOk ==
    ASSUME KnowledgeIndexAssumption, KIInd, NEW j \in KIJobs, NEW e \in KIEpochs, MarkRunning(j, e)
    PROVE  KIInd'
<1>0. PICK b, t, g, v, m, h : JobHas(j, b, t, g, v, m, h)
  BY JobMet
<1>1. h[e].pc = "mark" /\ JobIs(j, b, t, g, v, m, h) /\ JobWritesFit(b, t, g, v, m, h)
  BY <1>0 DEF MarkRunning, JobHas, JobIs
<1>2. CASE JobLive(j)
  <2>1. PICK h2, pc : /\ kihand' = [kihand EXCEPT ![j] = h2] /\ HandMoves(h, e, h2, {pc})
                      /\ pc \in {"ensure", "none"}
    <3>1. CASE checkTaskFence(j, e)
      <4>1. HandlerGoes(j, e, "ensure")
        BY <1>2, <3>1 DEF MarkRunning
      <4>2. "ensure" \in GoPc /\ h \in Hands /\ kihand[j] = h /\ kihand \in [KIJobs -> Hands]
        BY <1>0 DEF GoPc, JobHas
      <4>3. \E h2 : GoesTo(j, h, e, h2, "ensure")
        BY <4>1, <4>2, HandGoes
      <4>4. QED BY <4>3 DEF GoesTo
    <3>2. CASE ~checkTaskFence(j, e)
      <4>1. HandlerStops(j, e)
        BY <1>2, <3>2 DEF MarkRunning
      <4>2. QED BY <1>0, <4>1, HandStops DEF JobHas
    <3>3. QED BY <3>1, <3>2
  <2>2. PICK b2 : b2 = [b EXCEPT !.status = "running"]
    BY Zenon
  <2>3. b2 \in JRow /\ b2.status = "running" /\ b2.srcs = b.srcs /\ b2.prof = b.prof
    BY <1>0, <2>2 DEF JRow, LiveJob, JobHas
  <2>4. kijob' = [kijob EXCEPT ![j] = b2]
    BY <1>0, <1>2, <2>2 DEF MarkRunning, JobHas
  <2>5. PICK m2 : m2 = Tombstones(j, "staging")
    BY Zenon
  <2>6. m2 \in Tombs /\ \A s \in KISources : m2[s] = "promoted" => m[s] = "promoted"
    BY <1>0, <2>5 DEF Tombstones, Tombs, JobHas
  <2>7. b.status \in LiveJob
    BY <1>0, <1>2 DEF JobLive, LiveJob, JobHas
  <2>8. JobFits(b2, t, v, m2, h2)
    <3>1. JobFits(b, t, v, m, h)
      BY <1>1 DEF JobWritesFit
    <3>2. ASSUME NEW d \in KIEpochs
          PROVE  /\ h2[d].todo \subseteq b2.srcs /\ (h2[d].pc \in PickedPc => h2[d].todo # {})
                 /\ h2[d].pc = "after" => b2.status = "succeeded"
      <4>1. h[d].pc # "after" /\ h[d].todo \subseteq b.srcs /\ (h[d].pc \in PickedPc => h[d].todo # {})
        BY <2>7, <3>1 DEF JobFits, LiveJob
      <4>2. CASE d = e
        BY <2>1, <2>3, <4>1, <4>2 DEF HandMoves, PickedPc
      <4>3. CASE d # e
        BY <2>1, <2>3, <4>1, <4>3 DEF HandMoves
      <4>4. QED BY <4>2, <4>3
    <3>3. \A s \in KISources : m2[s] # "promoted"
      BY <2>6, <2>7, <3>1 DEF JobFits, LiveJob
    <3>4. QED BY <2>3, <2>7, <3>1, <3>2, <3>3 DEF JobFits, LiveJob
  <2>9. ASSUME kileft.calm PROVE CalmFits(b2, t, g, v, h2)
    <3>1. CalmFits(b, t, g, v, h)
      BY <1>1, <2>9 DEF JobWritesFit
    <3>2. e = 1 /\ t.epoch # 0
      BY <1>1, <3>1 DEF CalmFits
    <3>3. \A d \in KIEpochs \ {e} : h2[d].pc = "none"
      BY <2>1, <3>1, <3>2 DEF CalmFits, HandMoves
    <3>4. h2[e].pc \in {"ensure", "none"}
      BY <2>1 DEF HandMoves
    <3>5. QED BY <2>3, <3>1, <3>2, <3>3, <3>4 DEF CalmFits, FullPc
  <2>10. JobWritesFit(b2, t, g, v, m2, h2)
    BY <1>1, <2>1, <2>3, <2>6, <2>8, <2>9 DEF JobWritesFit, HandMoves
  <2>11. JobWrites(j, b2, t, g, v, m2, h2) /\ kisrc' = kisrc /\ kirefs' = kirefs
    BY <1>0, <1>1, <1>2, <2>1, <2>4, <2>5 DEF MarkRunning, JobWrites, JobIs, LeftKept, kiVectors, Slot
  <2>12. Kept(j, b2, g, v, m2)
    BY <1>0, <1>2, <2>3, <2>6, <2>7 DEF Kept, JobHas, JobLive, LiveJob
  <2>13. QED BY <2>10, <2>11, <2>12, JobMoves
<1>3. CASE ~JobLive(j)
  <2>1. PoolFails(j, e) /\ HandlerStops(j, e) /\ UNCHANGED <<kijob, kitomb>>
    BY <1>3 DEF MarkRunning
  <2>2. PICK t2 : /\ kitask' = [kitask EXCEPT ![j] = t2] /\ TaskMoves(t, t2)
                  /\ kislots' = kislots + Slot(t2) - Slot(t)
    BY <1>0, <2>1, PoolMoves DEF JobHas, JobIs
  <2>3. PICK h2 : kihand' = [kihand EXCEPT ![j] = h2] /\ HandMoves(h, e, h2, {"none"})
    BY <1>0, <2>1, HandStops DEF JobHas
  <2>4. HandleWrites(j, t, t2, g, v, h2) /\ kitomb' = [kitomb EXCEPT ![j] = m]
    BY <1>1, <2>1, <2>2, <2>3 DEF MarkRunning, HandleWrites, JobIs, LeftKept, kiVectors
  <2>5. HandleFits(b, t, g, v, h, e, t2, g, v, h2)
    BY <1>0, <1>1, <2>2, <2>3 DEF HandleFits, HandMoves, PickedPc, FullPc, JobHas
  <2>6. TombsMove(m, m)
    BY <1>0 DEF TombsMove, JobHas
  <2>7. QED BY <1>1, <2>4, <2>5, <2>6, Handles
<1>4. QED BY <1>2, <1>3

(* The vectors a step that goes on may leave.                              *)
LEMMA SameVectors ==
    ASSUME NEW j, NEW b, NEW t, NEW g, NEW v, NEW m, NEW h, JobHas(j, b, t, g, v, m, h)
    PROVE  /\ g \in Vec /\ v \in Vecs /\ \A s \in KISources : v[s] # "none" => s \in b.srcs
           /\ kigen = [kigen EXCEPT ![j] = g] /\ kivec = [kivec EXCEPT ![j] = v]
BY DEF JobHas, JobIs

LEMMA EnsuredOk ==
    ASSUME KnowledgeIndexAssumption, KIInd, NEW j \in KIJobs, NEW e \in KIEpochs,
           EnsureGeneration(j, e) \/ StartEmbedding(j, e)
    PROVE  KIInd'
<1>0. PICK b, t, g, v, m, h : JobHas(j, b, t, g, v, m, h)
  BY JobMet
<1>1. PICK g2 : g2 = IF g = "none" THEN "staged" ELSE g
  BY Zenon
<1>2. g2 \in Vec /\ Ensured(j) = [kigen EXCEPT ![j] = g2]
  BY <1>0, <1>1 DEF JobHas, Vec, Ensured
<1>3. UNCHANGED <<kiRows, kitomb, kileft>> /\ kivec' = [kivec EXCEPT ![j] = v] /\ kigen' = [kigen EXCEPT ![j] = g2]
  BY <1>0, <1>2, SameVectors DEF EnsureGeneration, StartEmbedding
<1>4. v \in Vecs /\ \A s \in KISources : v[s] # "none" => s \in b.srcs
  BY <1>0, SameVectors
<1>5. CASE EnsureGeneration(j, e)
  <2>1. h[e].pc = "ensure" /\ HandlerGoes(j, e, "ensured")
    BY <1>0, <1>5 DEF EnsureGeneration, JobHas
  <2>2. QED BY <1>0, <1>2, <1>3, <1>4, <2>1, GoOk DEF PickedPc
<1>6. CASE StartEmbedding(j, e)
  <2>1. h[e].pc = "index" /\ HandlerGoes(j, e, "embed") /\ h[e].todo # {}
    BY <1>0, <1>6 DEF StartEmbedding, JobHas, PickedPc
  <2>2. QED BY <1>0, <1>2, <1>3, <1>4, <2>1, GoOk
<1>7. QED BY <1>5, <1>6

LEMMA CheckEnsuredOk ==
    ASSUME KnowledgeIndexAssumption, KIInd, NEW j \in KIJobs, NEW e \in KIEpochs, CheckEnsured(j, e)
    PROVE  KIInd'
<1>0. PICK b, t, g, v, m, h : JobHas(j, b, t, g, v, m, h)
  BY JobMet
<1>1. h[e].pc = "ensured" /\ UNCHANGED <<kiRows, kitomb, kileft>>
  BY <1>0 DEF CheckEnsured, JobHas
<1>2. CASE checkTaskFence(j, e)
  <2>1. HandlerGoes(j, e, "source") /\ kigen' = [kigen EXCEPT ![j] = g] /\ kivec' = [kivec EXCEPT ![j] = v]
    BY <1>0, <1>2, SameVectors DEF CheckEnsured, kiVectors
  <2>2. g \in Vec /\ v \in Vecs /\ \A s \in KISources : v[s] # "none" => s \in b.srcs
    BY <1>0, SameVectors
  <2>3. QED BY <1>0, <1>1, <2>1, <2>2, GoOk DEF PickedPc
<1>3. CASE ~checkTaskFence(j, e)
  <2>1. HandlerStops(j, e) /\ DeleteStagingGeneration(j)
    BY <1>3 DEF CheckEnsured
  <2>2. QED BY <1>0, <1>1, <2>1, StopOk
<1>4. QED BY <1>2, <1>3

LEMMA ReadSourceOk ==
    ASSUME KnowledgeIndexAssumption, KIInd, NEW j \in KIJobs, NEW e \in KIEpochs, ReadSource(j, e)
    PROVE  KIInd'
<1>0. PICK b, t, g, v, m, h : JobHas(j, b, t, g, v, m, h)
  BY JobMet
<1>1. h[e].pc = "source" /\ h[e].todo # {}
  BY <1>0 DEF ReadSource, JobHas
<1>2. CASE HandlerGoes(j, e, "index") /\ UNCHANGED <<kiRows, kiVectors, kitomb, kistage, kileft>>
  <2>1. kigen' = [kigen EXCEPT ![j] = g] /\ kivec' = [kivec EXCEPT ![j] = v]
    BY <1>0, <1>2, SameVectors DEF kiVectors
  <2>2. g \in Vec /\ v \in Vecs /\ \A s \in KISources : v[s] # "none" => s \in b.srcs
    BY <1>0, SameVectors
  <2>3. QED BY <1>0, <1>1, <1>2, <2>1, <2>2, GoOk
<1>3. CASE FailStep(j, e) /\ (UNCHANGED kiVectors \/ DeleteStagingGeneration(j))
  <2>1. kiconfig' = kiconfig /\ kiprof' = kiprof /\ LeftKept /\ Fails(j, e) /\ HandlerStops(j, e)
    BY <1>0, <1>3 DEF FailStep, LeftKept, JobHas, JobIs
  <2>2. QED BY <1>0, <1>1, <1>3, <2>1, FailOk
<1>4. QED BY <1>2, <1>3 DEF ReadSource

LEMMA SourceUnavailableOk ==
    ASSUME KnowledgeIndexAssumption, KIInd, NEW j \in KIJobs, NEW e \in KIEpochs,
           SourceUnavailable(j, e)
    PROVE  KIInd'
<1>0. PICK b, t, g, v, m, h : JobHas(j, b, t, g, v, m, h)
  BY JobMet
<1>1. h[e].pc = "source" /\ h[e].todo # {}
  BY <1>0 DEF SourceUnavailable, JobHas
<1>2. LeftKept
  BY KISpent DEF SourceUnavailable, LeftKept
<1>3. kiconfig' = kiconfig /\ kiprof' = kiprof /\ Fails(j, e) /\ HandlerStops(j, e) /\ UNCHANGED kiVectors
  BY DEF SourceUnavailable
<1>4. QED BY <1>0, <1>1, <1>2, <1>3, FailOk

(* The source at hand is one of the job's.                                 *)
LEMMA NextIsTodo ==
    ASSUME KnowledgeIndexAssumption, NEW j \in KIJobs, NEW e \in KIEpochs,
           NEW b, NEW t, NEW g, NEW v, NEW m, NEW h, JobHas(j, b, t, g, v, m, h), h[e].todo # {}
    PROVE  NextSource(j, e) \in b.srcs
<1>1. h[e].todo \subseteq b.srcs /\ b.srcs \subseteq KISources /\ kihand[j][e].todo = h[e].todo
  BY DEF JobHas
<1>2. \E x \in h[e].todo : \A y \in h[e].todo : x <= y
  <2>1. h[e].todo \subseteq Nat
    BY <1>1 DEF KnowledgeIndexAssumption
  <2>2. QED BY <2>1, LeastOf
<1>3. NextSource(j, e) \in h[e].todo
  BY <1>1, <1>2 DEF NextSource
<1>4. QED BY <1>1, <1>3

LEMMA UpsertOk ==
    ASSUME KnowledgeIndexAssumption, KIInd, NEW j \in KIJobs, NEW e \in KIEpochs, UpsertGeneration(j, e)
    PROVE  KIInd'
<1>0. PICK b, t, g, v, m, h : JobHas(j, b, t, g, v, m, h)
  BY JobMet
<1>1. h[e].pc = "embed" /\ h[e].todo # {} /\ g = kigen[j] /\ v = kivec[j]
  BY <1>0 DEF UpsertGeneration, JobHas, PickedPc
<1>2. PICK s : s = NextSource(j, e)
  BY Zenon
<1>3. s \in b.srcs /\ s \in KISources
  <2>1. b.srcs \subseteq KISources
    BY <1>0 DEF JobHas
  <2>2. QED BY <1>0, <1>1, <1>2, <2>1, NextIsTodo
<1>4. CASE /\ kivec' = [kivec EXCEPT ![j][s] = IF @ = "none" THEN kigen[j] ELSE @]
           /\ HandlerGoes(j, e, "indexed") /\ UNCHANGED <<kiRows, kigen, kitomb, kistage, kileft>>
  <2>1. PICK v2 : v2 = [v EXCEPT ![s] = IF v[s] = "none" THEN g ELSE v[s]]
    BY Zenon
  <2>2. kivec' = [kivec EXCEPT ![j] = v2] /\ kigen' = [kigen EXCEPT ![j] = g]
    BY <1>0, <1>1, <1>4, <2>1, SameVectors
  <2>3. g \in Vec /\ v \in Vecs /\ \A r \in KISources : v[r] # "none" => r \in b.srcs
    BY <1>0, SameVectors
  <2>4. v2 \in Vecs /\ \A r \in KISources : v2[r] # "none" => r \in b.srcs
    BY <1>3, <2>1, <2>3 DEF Vecs
  <2>5. QED BY <1>0, <1>1, <1>4, <2>2, <2>3, <2>4, GoOk
<1>5. CASE DeleteStagingGeneration(j) /\ FailStep(j, e)
  <2>1. kiconfig' = kiconfig /\ kiprof' = kiprof /\ LeftKept /\ Fails(j, e) /\ HandlerStops(j, e)
    BY <1>0, <1>5 DEF FailStep, LeftKept, JobHas, JobIs
  <2>2. QED BY <1>0, <1>1, <1>5, <2>1, FailOk
<1>6. QED BY <1>2, <1>4, <1>5 DEF UpsertGeneration

LEMMA CheckIndexedOk ==
    ASSUME KnowledgeIndexAssumption, KIInd, NEW j \in KIJobs, NEW e \in KIEpochs, CheckIndexed(j, e)
    PROVE  KIInd'
<1>0. PICK b, t, g, v, m, h : JobHas(j, b, t, g, v, m, h)
  BY JobMet
<1>1. h[e].pc = "indexed"
  BY <1>0 DEF CheckIndexed, JobHas
<1>2. CASE /\ kihand' = [kihand EXCEPT ![j][e] = [pc |-> "source", todo |-> @.todo \ {NextSource(j, e)}]]
           /\ UNCHANGED <<kiRows, kiVectors, kitomb, kistage, kileft>>
  <2>0. PICK r : r = [pc |-> "source", todo |-> h[e].todo \ {NextSource(j, e)}]
    BY Zenon
  <2>1. PICK h2 : h2 = [h EXCEPT ![e] = r]
    BY Zenon
  <2>2. h \in [KIEpochs -> Hand] /\ h[e] \in Hand
    BY <1>0 DEF JobHas, Hands
  <2>3. r \in Hand /\ r.pc = "source" /\ r.todo \subseteq h[e].todo
    BY <2>0, <2>2 DEF Hand
  <2>4. h2 \in Hands /\ h2[e] = r /\ \A d \in KIEpochs \ {e} : h2[d] = h[d]
    BY <2>1, <2>2, <2>3 DEF Hands
  <2>5. kihand' = [kihand EXCEPT ![j] = h2]
    BY <1>0, <1>2, <2>0, <2>1 DEF JobHas
  <2>6. HandMoves(h, e, h2, {"source"})
    BY <2>3, <2>4 DEF HandMoves
  <2>7. HandleFits(b, t, g, v, h, e, t, g, v, h2)
    BY <1>0, <1>1, <2>6 DEF HandleFits, TaskMoves, HandMoves, FullPc, PickedPc, JobHas
  <2>8. kigen' = [kigen EXCEPT ![j] = g] /\ kivec' = [kivec EXCEPT ![j] = v]
    BY <1>0, <1>2, SameVectors DEF kiVectors
  <2>9. HandlerOnly(j, b, t, g, v, h, e, g, v, h2)
    BY <1>2, <2>5, <2>7, <2>8 DEF HandlerOnly
  <2>10. QED BY <1>0, <2>9, HandlerPlain
<1>3. CASE DeleteStagingGeneration(j) /\ FailStep(j, e)
  <2>1. kiconfig' = kiconfig /\ kiprof' = kiprof /\ LeftKept /\ Fails(j, e) /\ HandlerStops(j, e)
    BY <1>0, <1>3 DEF FailStep, LeftKept, JobHas, JobIs
  <2>2. QED BY <1>0, <1>1, <1>3, <2>1, FailOk
<1>4. QED BY <1>2, <1>3 DEF CheckIndexed

LEMMA IndexingFailsOk ==
    ASSUME KnowledgeIndexAssumption, KIInd, NEW j \in KIJobs, NEW e \in KIEpochs, IndexingFails(j, e)
    PROVE  KIInd'
<1>0. PICK b, t, g, v, m, h : JobHas(j, b, t, g, v, m, h)
  BY JobMet
<1>1. h[e].pc \in {"embed", "indexed"}
  BY <1>0 DEF IndexingFails, JobHas
<1>2. LeftKept
  BY KISpent DEF IndexingFails, LeftKept
<1>3. kiconfig' = kiconfig /\ kiprof' = kiprof /\ Fails(j, e) /\ HandlerStops(j, e) /\ DeleteStagingGeneration(j)
  BY DEF IndexingFails
<1>4. QED BY <1>0, <1>1, <1>2, <1>3, FailOk

LEMMA PromoteOk ==
    ASSUME KnowledgeIndexAssumption, KIInd, NEW j \in KIJobs, NEW e \in KIEpochs, PromoteGeneration(j, e)
    PROVE  KIInd'
<1>0. PICK b, t, g, v, m, h : JobHas(j, b, t, g, v, m, h)
  BY JobMet
<1> DEFINE state == IF g = "promoted" THEN "promoted" ELSE "staged"
           complete == g # "none" /\ b.srcs = {s \in KISources : v[s] = state}
<1>1. h[e].pc = "source"
  BY <1>0 DEF PromoteGeneration, JobHas
<1>2. CASE complete
  <2>1. PICK v2 : v2 = [s \in KISources |-> IF v[s] = "staged" THEN "promoted" ELSE v[s]]
    BY Zenon
  <2>2. kigen' = [kigen EXCEPT ![j] = "promoted"] /\ kivec' = [kivec EXCEPT ![j] = v2]
    BY <1>0, <1>2, <2>1 DEF PromoteGeneration, JobHas
  <2>3. HandlerGoes(j, e, "promoted") /\ UNCHANGED <<kiRows, kitomb, kileft>>
    BY <1>0, <1>2 DEF PromoteGeneration, JobHas
  <2>4. v \in Vecs /\ \A s \in KISources : v[s] # "none" => s \in b.srcs
    BY <1>0, SameVectors
  <2>5. /\ v2 \in Vecs /\ (\A s \in KISources : v2[s] # "none" => s \in b.srcs)
        /\ \A s \in b.srcs : v2[s] = "promoted"
    BY <1>2, <2>1, <2>4 DEF Vecs, Vec
  <2>6. "promoted" \in GoPc /\ h \in Hands /\ kihand[j] = h /\ kihand \in [KIJobs -> Hands]
    BY <1>0 DEF GoPc, JobHas
  <2>7. \E h2 : GoesTo(j, h, e, h2, "promoted")
    BY <2>3, <2>6, HandGoes
  <2>8. PICK h2 : GoesTo(j, h, e, h2, "promoted")
    BY <2>7
  <2>9. HandleFits(b, t, g, v, h, e, t, "promoted", v2, h2)
    BY <1>0, <1>1, <2>5, <2>8 DEF GoesTo, HandleFits, TaskMoves, HandMoves, FullPc, PickedPc, JobHas, Vec
  <2>10. HandlerOnly(j, b, t, g, v, h, e, "promoted", v2, h2)
    BY <2>2, <2>3, <2>8, <2>9 DEF HandlerOnly, GoesTo
  <2>11. QED BY <1>0, <2>10, HandlerPlain
<1>3. CASE ~complete
  <2>1. FailStep(j, e) /\ UNCHANGED kiVectors
    BY <1>0, <1>3 DEF PromoteGeneration, JobHas
  <2>2. kiconfig' = kiconfig /\ kiprof' = kiprof /\ LeftKept /\ Fails(j, e) /\ HandlerStops(j, e)
    BY <1>0, <2>1 DEF FailStep, LeftKept, JobHas, JobIs
  <2>3. QED BY <1>0, <1>1, <2>1, <2>2, FailOk
<1>4. QED BY <1>2, <1>3

LEMMA CheckPromotedOk ==
    ASSUME KnowledgeIndexAssumption, KIInd, NEW j \in KIJobs, NEW e \in KIEpochs, CheckPromoted(j, e)
    PROVE  KIInd'
<1>0. PICK b, t, g, v, m, h : JobHas(j, b, t, g, v, m, h)
  BY JobMet
<1>1. h[e].pc = "promoted" /\ UNCHANGED <<kiRows, kitomb, kileft>>
  BY <1>0 DEF CheckPromoted, JobHas
<1>2. CASE checkTaskFence(j, e)
  <2>1. HandlerGoes(j, e, "commit") /\ kigen' = [kigen EXCEPT ![j] = g] /\ kivec' = [kivec EXCEPT ![j] = v]
    BY <1>0, <1>2, SameVectors DEF CheckPromoted, kiVectors
  <2>2. "commit" \in GoPc /\ h \in Hands /\ kihand[j] = h /\ kihand \in [KIJobs -> Hands]
    BY <1>0 DEF GoPc, JobHas
  <2>3. \E h2 : GoesTo(j, h, e, h2, "commit")
    BY <2>1, <2>2, HandGoes
  <2>4. PICK h2 : GoesTo(j, h, e, h2, "commit")
    BY <2>3
  <2>5. kileft.calm /\ b.status \in LiveJob => g = "promoted" /\ \A s \in b.srcs : v[s] = "promoted"
    BY <1>0, <1>1 DEF JobHas, JobIs, JobWritesFit, CalmFits, FullPc
  <2>6. HandleFits(b, t, g, v, h, e, t, g, v, h2)
    BY <1>0, <1>1, <2>4, <2>5 DEF GoesTo, HandleFits, TaskMoves, HandMoves, PickedPc, JobHas
  <2>7. HandlerOnly(j, b, t, g, v, h, e, g, v, h2)
    BY <1>1, <2>1, <2>4, <2>6 DEF HandlerOnly, GoesTo
  <2>8. QED BY <1>0, <2>7, HandlerPlain
<1>3. CASE ~checkTaskFence(j, e)
  <2>1. HandlerStops(j, e) /\ DeleteStagingGeneration(j)
    BY <1>3 DEF CheckPromoted
  <2>2. QED BY <1>0, <1>1, <2>1, StopOk
<1>4. QED BY <1>2, <1>3

LEMMA CompensateOk ==
    ASSUME KnowledgeIndexAssumption, KIInd, NEW j \in KIJobs, NEW e \in KIEpochs, CompensatePromotion(j, e)
    PROVE  KIInd'
<1>0. PICK b, t, g, v, m, h : JobHas(j, b, t, g, v, m, h)
  BY JobMet
<1>1. h[e].pc = "commit" /\ JobIs(j, b, t, g, v, m, h)
  BY <1>0 DEF CompensatePromotion, JobHas
<1>2. PICK t2 : /\ kitask' = [kitask EXCEPT ![j] = t2] /\ TaskMoves(t, t2)
                /\ kislots' = kislots + Slot(t2) - Slot(t)
  <2>1. PoolFails(j, e)
    BY DEF CompensatePromotion
  <2>2. QED BY <1>0, <2>1, PoolMoves DEF JobHas, JobIs
<1>3. PICK h2 : kihand' = [kihand EXCEPT ![j] = h2] /\ HandMoves(h, e, h2, {"none"})
  BY <1>0, HandStops DEF CompensatePromotion, JobHas
<1>4. PICK v2 : v2 = [s \in KISources |-> IF v[s] = "staged" \/ s \in b.srcs THEN "none" ELSE v[s]]
  BY Zenon
<1>5. v2 \in Vecs /\ \A s \in KISources : v2[s] # "none" => s \in b.srcs
  BY <1>0, <1>4 DEF JobHas, Vecs, Vec
<1>6. kivec' = [kivec EXCEPT ![j] = v2] /\ kigen' = [kigen EXCEPT ![j] = "none"]
  BY <1>0, <1>4 DEF CompensatePromotion, JobHas
<1>7. HandleWrites(j, t, t2, "none", v2, h2) /\ kitomb' = [kitomb EXCEPT ![j] = m]
  BY <1>1, <1>2, <1>3, <1>6 DEF CompensatePromotion, HandleWrites, JobIs, LeftKept
<1>8. HandleFits(b, t, g, v, h, e, t2, "none", v2, h2)
  BY <1>0, <1>1, <1>2, <1>3, <1>5 DEF HandleFits, HandMoves, PickedPc, FullPc, JobHas, Vec
<1>9. TombsMove(m, m)
  BY <1>0 DEF TombsMove, JobHas
<1>10. QED BY <1>1, <1>7, <1>8, <1>9, Handles

LEMMA FinishOk ==
    ASSUME KnowledgeIndexAssumption, KIInd, NEW j \in KIJobs, NEW e \in KIEpochs, FinishIndexing(j, e)
    PROVE  KIInd'
<1>0. PICK b, t, g, v, m, h : JobHas(j, b, t, g, v, m, h)
  BY JobMet
<1>1. h[e].pc = "after" /\ JobIs(j, b, t, g, v, m, h) /\ kislots \in Nat
  BY <1>0 DEF FinishIndexing, JobHas, JobIs
<1>2. PICK h2 : kihand' = [kihand EXCEPT ![j] = h2] /\ HandMoves(h, e, h2, {"none"})
  BY <1>0, HandStops DEF FinishIndexing, JobHas
<1>3. PICK g2, v2 : /\ kigen' = [kigen EXCEPT ![j] = g2] /\ kivec' = [kivec EXCEPT ![j] = v2]
                    /\ VecsMove(g, v, g2, v2)
  BY <1>0, StageGoes DEF FinishIndexing, JobHas
<1>4. PICK m2 : m2 = [s \in KISources |-> IF s \in b.srcs /\ m[s] = "staging" THEN "none" ELSE m[s]]
  BY Zenon
<1>5. kitomb' = [kitomb EXCEPT ![j] = m2] /\ TombsMove(m, m2)
  <2>1. m \in Tombs /\ kitomb[j] = m /\ kijob[j] = b
    BY <1>0 DEF JobHas
  <2>2. kitomb' = [kitomb EXCEPT ![j] = m2]
    BY <1>4, <2>1 DEF FinishIndexing
  <2>3. QED BY <1>4, <2>1, <2>2 DEF TombsMove, Tombs
<1>6. HandleWrites(j, t, t, g2, v2, h2)
  BY <1>1, <1>2, <1>3 DEF FinishIndexing, HandleWrites, JobIs, LeftKept, kiRows, Slot
<1>7. HandleFits(b, t, g, v, h, e, t, g2, v2, h2)
  BY <1>0, <1>1, <1>2, <1>3 DEF HandleFits, TaskMoves, HandMoves, VecsMove, PickedPc, FullPc, JobHas
<1>8. QED BY <1>1, <1>5, <1>6, <1>7, Handles

LEMMA HandlerErrsOk ==
    ASSUME KnowledgeIndexAssumption, KIInd, NEW j \in KIJobs, NEW e \in KIEpochs, HandlerErrs(j, e)
    PROVE  KIInd'
<1>0. PICK b, t, g, v, m, h : JobHas(j, b, t, g, v, m, h)
  BY JobMet
<1>1. h[e].pc \in {"start", "mark", "indexed"} /\ JobIs(j, b, t, g, v, m, h)
  BY <1>0 DEF HandlerErrs, JobHas
<1>2. PICK t2 : /\ kitask' = [kitask EXCEPT ![j] = t2] /\ TaskMoves(t, t2)
                /\ kislots' = kislots + Slot(t2) - Slot(t)
  BY <1>0, PoolMoves DEF HandlerErrs, JobHas, JobIs
<1>3. PICK h2 : kihand' = [kihand EXCEPT ![j] = h2] /\ HandMoves(h, e, h2, {"none"})
  BY <1>0, HandStops DEF HandlerErrs, JobHas
<1>4. LeftKept
  BY KISpent DEF HandlerErrs, LeftKept
<1>5. HandleWrites(j, t, t2, g, v, h2) /\ kitomb' = [kitomb EXCEPT ![j] = m]
  BY <1>1, <1>2, <1>3, <1>4 DEF HandlerErrs, HandleWrites, JobIs, kiVectors
<1>6. HandleFits(b, t, g, v, h, e, t2, g, v, h2)
  BY <1>0, <1>1, <1>2, <1>3 DEF HandleFits, HandMoves, PickedPc, FullPc, JobHas
<1>7. TombsMove(m, m)
  BY <1>0 DEF TombsMove, JobHas
<1>8. QED BY <1>1, <1>5, <1>6, <1>7, Handles

(***************************************************************************)
(* Claims, leases, crashes and sweeps.                                     *)
(***************************************************************************)
LEMMA ClaimOk ==
    ASSUME KnowledgeIndexAssumption, KIInd, NEW j \in KIJobs, ClaimIndexTask(j)
    PROVE  KIInd'
<1>0. PICK b, t, g, v, m, h : JobHas(j, b, t, g, v, m, h)
  BY JobMet
<1>1. /\ JobIs(j, b, t, g, v, m, h) /\ JobWritesFit(b, t, g, v, m, h) /\ JobFits(b, t, v, m, h)
      /\ kislots \in Nat
  BY <1>0 DEF JobHas, JobIs, JobWritesFit
<1>2. PICK e : e = t.epoch + 1
  BY Zenon
<1>3. t \in JTask /\ t.epoch \in 0..KIClaims /\ t.epoch < KIClaims
  BY <1>0 DEF ClaimIndexTask, JobHas, JTask
<1>4. e \in KIEpochs
  BY <1>2, <1>3 DEF KIEpochs, KnowledgeIndexAssumption
<1>5. PICK t2 : t2 = [status |-> "running", epoch |-> e, held |-> TRUE]
  BY Zenon
<1>6. t2 \in JTask /\ t2.status = "running" /\ t2.epoch = e /\ t2.held
  BY <1>4, <1>5 DEF JTask, KIEpochs, LiveJob
<1>7. PICK r : r = [pc |-> "start", todo |-> b.srcs]
  BY Zenon
<1>8. PICK h2 : h2 = [h EXCEPT ![e] = r]
  BY Zenon
<1>9. r \in Hand /\ r.pc = "start" /\ r.todo = b.srcs
  BY <1>0, <1>7 DEF JobHas, Hand
<1>10. h2 \in Hands /\ h2[e] = r /\ \A d \in KIEpochs \ {e} : h2[d] = h[d]
  BY <1>0, <1>4, <1>8, <1>9 DEF JobHas, Hands
<1>11. t.status \in LiveJob /\ (t.status = "running" => ~t.held)
  BY <1>0 DEF ClaimIndexTask, KIRunning, JobHas, LiveJob
<1>12. kislots' = kislots + Slot(t2) - Slot(t)
  BY <1>0, <1>1, <1>6 DEF ClaimIndexTask, KIRunning, JobHas, Slot
<1>13. kitask' = [kitask EXCEPT ![j] = t2] /\ kihand' = [kihand EXCEPT ![j] = h2]
  BY <1>0, <1>2, <1>5, <1>7, <1>8 DEF ClaimIndexTask, JobHas
<1>14. JobWrites(j, b, t2, g, v, m, h2) /\ kisrc' = kisrc /\ kirefs' = kirefs
  BY <1>0, <1>1, <1>12, <1>13 DEF ClaimIndexTask, JobWrites, JobIs, JobHas, LeftKept, kiVectors
<1>15. JobFits(b, t2, v, m, h2)
  <2>1. ASSUME NEW d \in KIEpochs
        PROVE  /\ h2[d].todo \subseteq b.srcs /\ (h2[d].pc \in PickedPc => h2[d].todo # {})
               /\ h2[d].pc = "after" => b.status = "succeeded"
    <3>1. CASE d = e
      BY <1>9, <1>10, <3>1 DEF PickedPc
    <3>2. CASE d # e
      BY <1>1, <1>10, <3>2 DEF JobFits
    <3>3. QED BY <3>1, <3>2
  <2>2. b.status \in LiveJob
    BY <1>1, <1>11 DEF JobFits
  <2>3. QED BY <1>1, <1>6, <2>1, <2>2 DEF JobFits, LiveJob
<1>16. ASSUME kileft.calm PROVE CalmFits(b, t2, g, v, h2)
  <2>1. CalmFits(b, t, g, v, h)
    BY <1>1, <1>16 DEF JobWritesFit
  <2>2. t.status = "queued" /\ t.epoch = 0
    BY <1>1, <1>11, <2>1 DEF CalmFits, JobFits, LiveJob
  <2>3. e = 1 /\ \A d \in KIEpochs : h[d].pc = "none"
    BY <1>2, <2>1, <2>2 DEF CalmFits
  <2>4. b.status # "succeeded"
    BY <1>1, <1>11 DEF JobFits, LiveJob
  <2>5. \A d \in KIEpochs : /\ h2[d].pc # "none" => d = 1
                            /\ h2[d].pc \notin FullPc
    BY <1>9, <1>10, <2>3 DEF FullPc
  <2>6. QED BY <1>6, <2>3, <2>4, <2>5 DEF CalmFits
<1>17. JobWritesFit(b, t2, g, v, m, h2)
  BY <1>1, <1>6, <1>10, <1>15, <1>16 DEF JobWritesFit
<1>18. Kept(j, b, g, v, m)
  BY <1>0 DEF Kept, JobHas, JobLive, LiveJob
<1>19. QED BY <1>14, <1>17, <1>18, JobMoves

LEMMA LeaseLostOk ==
    ASSUME KnowledgeIndexAssumption, KIInd, NEW j \in KIJobs, IndexLeaseLost(j)
    PROVE  KIInd'
<1>0. PICK b, t, g, v, m, h : JobHas(j, b, t, g, v, m, h)
  BY JobMet
<1>1. /\ JobIs(j, b, t, g, v, m, h) /\ JobWritesFit(b, t, g, v, m, h) /\ JobFits(b, t, v, m, h)
      /\ kislots \in Nat
  BY <1>0 DEF JobHas, JobIs, JobWritesFit
<1>2. PICK t2 : t2 = [t EXCEPT !.held = FALSE]
  BY Zenon
<1>3. t2 \in JTask /\ t2.status = t.status /\ t2.epoch = t.epoch /\ ~t2.held
  BY <1>0, <1>2 DEF JobHas, JTask
<1>4. kitask' = [kitask EXCEPT ![j] = t2]
  BY <1>0, <1>2 DEF IndexLeaseLost, JobHas
<1>5. LeftKept /\ ~kileft.calm
  BY KISpent DEF IndexLeaseLost, LeftKept
<1>6. kislots' = kislots + Slot(t2) - Slot(t)
  BY <1>1, <1>3 DEF IndexLeaseLost, Slot
<1>7. JobWrites(j, b, t2, g, v, m, h) /\ kisrc' = kisrc /\ kirefs' = kirefs
  BY <1>0, <1>1, <1>4, <1>5, <1>6 DEF IndexLeaseLost, JobWrites, JobIs, JobHas, kiVectors
<1>8. JobWritesFit(b, t2, g, v, m, h)
  BY <1>1, <1>3, <1>5 DEF JobWritesFit, JobFits
<1>9. Kept(j, b, g, v, m)
  BY <1>0 DEF Kept, JobHas, JobLive, LiveJob
<1>10. QED BY <1>7, <1>8, <1>9, JobMoves

(* A sweep moves the vectors and the tombstones of one job, and spares     *)
(* what search reads.                                                      *)
SweepFits(j, g2, v2, m2) ==
    /\ g2 \in Vec /\ v2 \in Vecs /\ TombsMove(kitomb[j], m2)
    /\ \A s \in KISources :
          /\ v2[s] # "none" => kivec[j][s] # "none"
          /\ /\ kisrc[s].status \in {"ready", "indexing"} \/ JobLive(j)
             /\ kigen[j] = "promoted" /\ kivec[j][s] = "promoted"
             => g2 = "promoted" /\ v2[s] = "promoted"
    /\ JobLive(j) /\ kigen[j] = "promoted" => g2 = "promoted"

LEMMA SweepMoves ==
    ASSUME KnowledgeIndexAssumption, KIInd, NEW j \in KIJobs, NEW g2, NEW v2, NEW m2,
           SweepFits(j, g2, v2, m2),
           kigen' = [kigen EXCEPT ![j] = g2], kivec' = [kivec EXCEPT ![j] = v2],
           kitomb' = [kitomb EXCEPT ![j] = m2], UNCHANGED <<kiRows, kihand, kileft>>
    PROVE  KIInd'
<1>0. PICK b, t, g, v, m, h : JobHas(j, b, t, g, v, m, h)
  BY JobMet
<1>1. /\ JobIs(j, b, t, g, v, m, h) /\ JobWritesFit(b, t, g, v, m, h) /\ JobFits(b, t, v, m, h)
      /\ kislots \in Nat
  BY <1>0 DEF JobHas, JobIs, JobWritesFit
<1>2. JobWrites(j, b, t, g2, v2, m2, h) /\ kisrc' = kisrc /\ kirefs' = kirefs
  BY <1>0, <1>1 DEF JobWrites, JobIs, JobHas, LeftKept, kiRows, Slot
<1>3. JobFits(b, t, v2, m2, h)
  <2>1. \A s \in KISources : v2[s] # "none" => s \in b.srcs
    BY <1>0 DEF JobHas, SweepFits
  <2>2. /\ b.status = "canceled" => \A s \in b.srcs : m2[s] = "canceled_staging"
        /\ \A s \in KISources : m2[s] = "promoted" => b.status = "succeeded"
    BY <1>0, <1>1 DEF JobHas, SweepFits, TombsMove, JobFits
  <2>3. QED BY <1>1, <2>1, <2>2 DEF JobFits
<1>4. ASSUME kileft.calm PROVE CalmFits(b, t, g2, v2, h)
  <2>1. CalmFits(b, t, g, v, h)
    BY <1>1, <1>4 DEF JobWritesFit
  <2>2. ASSUME b.status \in LiveJob, g = "promoted", \A s \in b.srcs : v[s] = "promoted"
        PROVE  g2 = "promoted" /\ \A s \in b.srcs : v2[s] = "promoted"
    <3>1. JobLive(j) /\ b.srcs \subseteq KISources /\ kigen[j] = g /\ kivec[j] = v
      BY <1>0, <2>2 DEF JobHas, JobLive, LiveJob
    <3>2. QED BY <2>2, <3>1 DEF SweepFits
  <2>3. QED BY <2>1, <2>2 DEF CalmFits
<1>5. JobWritesFit(b, t, g2, v2, m2, h)
  BY <1>1, <1>3, <1>4 DEF JobWritesFit, SweepFits, TombsMove
<1>6. Kept(j, b, g2, v2, m2)
  BY <1>0 DEF Kept, JobHas, JobLive, LiveJob, SweepFits, TombsMove
<1>7. QED BY <1>2, <1>5, <1>6, JobMoves

LEMMA SweepStageOk ==
    ASSUME KnowledgeIndexAssumption, KIInd, NEW j \in KIJobs, SweepStage(j)
    PROVE  KIInd'
<1>0. PICK b, t, g, v, m, h : JobHas(j, b, t, g, v, m, h)
  BY JobMet
<1>1. PICK g2, v2 : /\ kigen' = [kigen EXCEPT ![j] = g2] /\ kivec' = [kivec EXCEPT ![j] = v2]
                    /\ VecsMove(g, v, g2, v2)
  <2>1. DeleteStagingGeneration(j)
    BY DEF SweepStage
  <2>2. QED BY <1>0, <2>1, StageGoes DEF JobHas
<1>2. SweepFits(j, g2, v2, m)
  BY <1>0, <1>1 DEF SweepFits, VecsMove, TombsMove, JobHas
<1>3. kitomb' = [kitomb EXCEPT ![j] = m] /\ UNCHANGED <<kiRows, kihand, kileft>>
  BY <1>0 DEF SweepStage, JobHas, JobIs
<1>4. QED BY <1>1, <1>2, <1>3, SweepMoves

LEMMA SweepTombstoneOk ==
    ASSUME KnowledgeIndexAssumption, KIInd, NEW j \in KIJobs, NEW s \in KISources, SweepTombstone(j, s)
    PROVE  KIInd'
<1>0. PICK b, t, g, v, m, h : JobHas(j, b, t, g, v, m, h)
  BY JobMet
<1>m. kitomb[j] = m /\ m \in Tombs
  BY <1>0 DEF JobHas
<1>1. PICK m2 : kitomb' = [kitomb EXCEPT ![j] = m2] /\ TombsMove(m, m2)
  <2>1. CASE TombstoneKept(j, s)
    <3>1. kitomb' = [kitomb EXCEPT ![j] = m]
      BY <1>0, <2>1 DEF SweepTombstone, JobHas, JobIs
    <3>2. QED BY <1>m, <3>1 DEF TombsMove
  <2>2. CASE ~TombstoneKept(j, s)
    <3>1. PICK m2 : m2 = [m EXCEPT ![s] = "none"]
      BY Zenon
    <3>2. kitomb' = [kitomb EXCEPT ![j] = m2]
      BY <1>m, <2>2, <3>1 DEF SweepTombstone
    <3>3. m[s] # "canceled_staging"
      BY <1>m, <2>2 DEF TombstoneKept
    <3>4. TombsMove(m, m2)
      BY <1>m, <3>1, <3>3 DEF TombsMove, Tombs
    <3>5. QED BY <3>2, <3>4
  <2>3. QED BY <2>1, <2>2
<1>2. UNCHANGED <<kiRows, kihand, kileft>>
  BY DEF SweepTombstone
<1>3. CASE m[s] # "promoted"
  <2>1. DeleteStagingGeneration(j)
    BY <1>m, <1>3 DEF SweepTombstone
  <2>2. PICK g2, v2 : /\ kigen' = [kigen EXCEPT ![j] = g2] /\ kivec' = [kivec EXCEPT ![j] = v2]
                      /\ VecsMove(g, v, g2, v2)
    BY <1>0, <2>1, StageGoes DEF JobHas
  <2>3. SweepFits(j, g2, v2, m2)
    BY <1>0, <1>1, <2>2 DEF SweepFits, VecsMove, JobHas
  <2>4. QED BY <1>1, <1>2, <2>2, <2>3, SweepMoves
<1>4. CASE m[s] = "promoted"
  <2>1. DeletePromotedGeneration(j, {s})
    BY <1>m, <1>4 DEF SweepTombstone
  <2>2. PICK v2 : v2 = [r \in KISources |-> IF r \in {s} /\ v[r] = "promoted" THEN "none" ELSE v[r]]
    BY Zenon
  <2>3. PICK g2 : g2 = IF g = "promoted" /\ (\A r \in KISources : v2[r] = "none") THEN "none" ELSE g
    BY Zenon
  <2>4. kivec' = [kivec EXCEPT ![j] = v2]
    BY <1>0, <2>1, <2>2 DEF DeletePromotedGeneration, JobHas
  <2>5. kivec'[j] = v2
    BY <1>0, <2>4 DEF JobHas
  <2>6. kigen' = [kigen EXCEPT ![j] = g2]
    BY <1>0, <2>1, <2>3, <2>5 DEF DeletePromotedGeneration, JobHas
  <2>7. kisrc[s].status \notin {"ready", "indexing"}
    BY <1>m, <1>4 DEF KIInd, SourcesFit, SourceBound
  <2>8. ~JobLive(j)
    BY <1>0, <1>4 DEF JobHas, JobIs, JobWritesFit, JobFits, JobLive
  <2>9. g \in Vec /\ v \in Vecs /\ kigen[j] = g /\ kivec[j] = v
    BY <1>0 DEF JobHas
  <2>10. /\ g2 \in Vec /\ v2 \in Vecs
         /\ \A r \in KISources : /\ v2[r] # "none" => v[r] # "none"
                                 /\ r # s => v2[r] = v[r]
    BY <2>2, <2>3, <2>9 DEF Vec, Vecs
  <2>11. ASSUME NEW r \in KISources, kisrc[r].status \in {"ready", "indexing"},
                g = "promoted", v[r] = "promoted"
         PROVE  g2 = "promoted" /\ v2[r] = "promoted"
    <3>1. v2[r] = "promoted"
      BY <2>7, <2>10, <2>11
    <3>2. QED BY <2>3, <2>11, <3>1
  <2>12. SweepFits(j, g2, v2, m2)
    BY <1>m, <1>1, <2>8, <2>9, <2>10, <2>11 DEF SweepFits
  <2>13. QED BY <1>1, <1>2, <2>4, <2>6, <2>12, SweepMoves
<1>5. QED BY <1>3, <1>4

LEMMA CrashOk ==
    ASSUME KnowledgeIndexAssumption, KIInd, KICrash
    PROVE  KIInd'
<1>1. LeftKept /\ ~kileft.calm
  BY KISpent DEF KICrash, LeftKept
<1>2. KITyped /\ JobsFit
  BY DEF KIInd
<1>3. ASSUME NEW j \in KIJobs
      PROVE  /\ kitask'[j] \in JTask /\ kitask'[j].status = kitask[j].status
             /\ kitask'[j].epoch = kitask[j].epoch /\ ~kitask'[j].held
  <2>1. kitask[j] \in JTask /\ kitask'[j] = [kitask[j] EXCEPT !.held = FALSE]
    BY <1>2 DEF KICrash, KITyped
  <2>2. QED BY <2>1 DEF JTask
<1>4. ASSUME NEW j \in KIJobs, NEW e \in KIEpochs
      PROVE  kihand'[j][e].pc = "none" /\ kihand'[j][e].todo = {}
  BY DEF KICrash, NoHandler
<1>5. KITyped'
  <2>1. kihand' \in [KIJobs -> Hands]
    BY DEF KICrash, NoHandler, Hands, Hand
  <2>2. kitask' \in [KIJobs -> JTask]
    BY <1>3 DEF KICrash
  <2>3. QED BY <1>1, <1>2, <2>1, <2>2 DEF KITyped, KICrash, LeftKept, kiVectors
<1>6. JobsFit'
  <2> SUFFICES ASSUME NEW j \in KIJobs
               PROVE  JobFits(kijob'[j], kitask'[j], kivec'[j], kitomb'[j], kihand'[j])
    BY <1>1 DEF JobsFit, LeftKept
  <2>1. JobFits(kijob[j], kitask[j], kivec[j], kitomb[j], kihand[j])
    BY <1>2 DEF JobsFit
  <2>2. kijob' = kijob /\ kivec' = kivec /\ kitomb' = kitomb
    BY DEF KICrash, kiVectors
  <2>3. QED BY <1>3, <1>4, <2>1, <2>2 DEF JobFits, PickedPc
<1>7. SourcesFit' /\ LiveBound' /\ RefsExact'
  <2>1. /\ kiconfig' = kiconfig /\ kiprof' = kiprof /\ kisrc' = kisrc /\ kijob' = kijob /\ kirefs' = kirefs
        /\ kigen' = kigen /\ kivec' = kivec /\ kitomb' = kitomb /\ kileft'.calm = kileft.calm
    BY <1>1 DEF KICrash, LeftKept, kiVectors
  <2>2. QED BY <2>1 DEF KIInd, SourcesFit, SourceBound, SourceFree, JobLive, LiveBound, RefsExact, JobRefs, SourceRefs
<1>8. IndexSlotsExact'
  <2>1. {j \in KIJobs : KIRunning(j)}' = {j \in KIJobs : KIRunning(j)}
    BY <1>3 DEF KIRunning
  <2>2. kislots' = kislots
    BY DEF KICrash
  <2>3. QED BY <2>1, <2>2 DEF KIInd, IndexSlotsExact
<1>9. QED BY <1>5, <1>6, <1>7, <1>8 DEF KIInd

(***************************************************************************)
(* The owner's steps.                                                      *)
(***************************************************************************)
(* Every pin is of a live job or of a bound source, and so of the bound    *)
(* profile.                                                                *)
LEMMA PinsOfBound ==
    ASSUME KIInd
    PROVE  /\ \A j \in KIJobs : JobLive(j) => <<"job", j, kiconfig>> \in kirefs /\ kiprof[kiconfig] # 0
           /\ \A s \in KISources : kisrc[s].prof # 0 /\ kisrc[s].status # "deleted" =>
                 <<"source", s, kiconfig>> \in kirefs /\ kiprof[kiconfig] # 0
           /\ \A r \in kirefs : r[3] = kiconfig /\ kiprof[kiconfig] # 0
<1>1. kirefs = JobRefs \cup SourceRefs
  BY DEF KIInd, RefsExact
<1>2. \A j \in KIJobs : JobLive(j) => kijob[j].prof = kiconfig /\ kiprof[kiconfig] # 0
  BY DEF KIInd, LiveBound
<1>3. \A s \in KISources : kisrc[s].prof # 0 /\ kisrc[s].status # "deleted" =>
         kisrc[s].prof = kiconfig /\ kiprof[kiconfig] # 0
  BY DEF KIInd, SourcesFit, SourceBound
<1>4. \A j \in KIJobs : JobLive(j) => <<"job", j, kijob[j].prof>> \in JobRefs
  BY DEF JobRefs
<1>5. \A s \in KISources : kisrc[s].prof # 0 /\ kisrc[s].status # "deleted" =>
         <<"source", s, kisrc[s].prof>> \in SourceRefs
  BY DEF SourceRefs
<1>6. \A r \in JobRefs : r[3] = kiconfig /\ kiprof[kiconfig] # 0
  BY <1>2 DEF JobRefs
<1>7. \A r \in SourceRefs : r[3] = kiconfig /\ kiprof[kiconfig] # 0
  BY <1>3 DEF SourceRefs
<1>8. QED BY <1>1, <1>2, <1>3, <1>4, <1>5, <1>6, <1>7

(* With no bound profile there is no live job, no bound source and no pin. *)
LEMMA NoProfileNoPins ==
    ASSUME KIInd, kiconfig = 0
    PROVE  /\ \A j \in KIJobs : ~JobLive(j)
           /\ \A s \in KISources : kisrc[s].prof # 0 => kisrc[s].status = "deleted"
           /\ kirefs = {}
<1>1. \A j \in KIJobs : JobLive(j) => kijob[j].prof = kiconfig /\ kijob[j].prof # 0
  BY DEF KIInd, LiveBound, JobsFit, JobFits, JobLive
<1>2. \A s \in KISources : kisrc[s].prof # 0 /\ kisrc[s].status # "deleted" => kisrc[s].prof = kiconfig
  BY DEF KIInd, SourcesFit, SourceBound
<1>3. JobRefs = {} /\ SourceRefs = {}
  BY <1>1, <1>2 DEF JobRefs, SourceRefs
<1>4. QED BY <1>1, <1>2, <1>3 DEF KIInd, RefsExact

ProfileRest ==
    UNCHANGED <<kiconfig, kisrc, kijob, kitask, kislots, kirefs, kigen, kivec, kitomb, kihand>>

LEMMA ProfileMoves ==
    ASSUME KIInd, ProfileRest, LeftKept, kiprof' \in [KIProfiles -> Nat],
           \/ kiprof[kiconfig] # 0 => kiprof'[kiconfig] # 0
           \/ \A r \in kirefs : r[3] # kiconfig
    PROVE  KIInd'
<1>1. KITyped'
  BY DEF KIInd, KITyped, ProfileRest, LeftKept
<1>2. JobsFit' /\ IndexSlotsExact' /\ RefsExact'
  BY DEF KIInd, JobsFit, IndexSlotsExact, RefsExact, JobRefs, SourceRefs, JobLive, KIRunning, ProfileRest, LeftKept
<1>3. /\ \A j \in KIJobs : JobLive(j) => kijob[j].prof = kiconfig /\ kiprof'[kiconfig] # 0
      /\ \A s \in KISources : kisrc[s].prof # 0 /\ kisrc[s].status # "deleted" =>
            kisrc[s].prof = kiconfig /\ kiprof'[kiconfig] # 0
  <2>1. \A j \in KIJobs : JobLive(j) => kijob[j].prof = kiconfig
    BY DEF KIInd, LiveBound
  <2>2. \A s \in KISources : kisrc[s].prof # 0 /\ kisrc[s].status # "deleted" => kisrc[s].prof = kiconfig
    BY DEF KIInd, SourcesFit, SourceBound
  <2>3. QED BY <2>1, <2>2, PinsOfBound
<1>4. LiveBound'
  BY <1>3 DEF LiveBound, JobLive, ProfileRest
<1>5. SourcesFit'
  <2> SUFFICES ASSUME NEW s \in KISources PROVE SourceBound(s)' /\ SourceFree(s)'
    BY DEF SourcesFit
  <2>1. SourceBound(s) /\ SourceFree(s)
    BY DEF KIInd, SourcesFit
  <2>2. SourceBound(s)'
    BY <1>3, <2>1 DEF SourceBound, ProfileRest, LeftKept
  <2>3. SourceFree(s)'
    BY <2>1 DEF SourceFree, JobLive, ProfileRest
  <2>4. QED BY <2>2, <2>3
<1>6. QED BY <1>1, <1>2, <1>4, <1>5 DEF KIInd

LEMMA EditProfileOk ==
    ASSUME KnowledgeIndexAssumption, KIInd, NEW p \in KIProfiles,
           EditEmbeddingProfile(p) \/ DeleteEmbeddingProfile(p)
    PROVE  KIInd'
<1>1. LeftKept
  BY KISpent DEF EditEmbeddingProfile, DeleteEmbeddingProfile, LeftKept
<1>2. ProfileRest
  BY DEF EditEmbeddingProfile, DeleteEmbeddingProfile, ProfileRest, kiVectors
<1>3. kiprof \in [KIProfiles -> Nat] /\ kiconfig \in KIProfiles \cup {0}
  BY DEF KIInd, KITyped
<1>4. CASE EditEmbeddingProfile(p)
  <2>1. kiprof' = [kiprof EXCEPT ![p] = kiprof[p] + 1]
    BY <1>4 DEF EditEmbeddingProfile
  <2>2. kiprof' \in [KIProfiles -> Nat] /\ (kiconfig \in KIProfiles /\ kiprof[kiconfig] # 0 => kiprof'[kiconfig] # 0)
    BY <1>3, <2>1
  <2>3. CASE kiconfig \in KIProfiles
    BY <1>1, <1>2, <2>2, <2>3, ProfileMoves
  <2>4. CASE kiconfig = 0
    BY <1>1, <1>2, <2>2, <2>4, NoProfileNoPins, ProfileMoves
  <2>5. QED BY <1>3, <2>3, <2>4
<1>5. CASE DeleteEmbeddingProfile(p)
  <2>1. kiprof' = [kiprof EXCEPT ![p] = 0] /\ \A r \in kirefs : r[3] # p
    BY <1>5 DEF DeleteEmbeddingProfile
  <2>2. kiprof' \in [KIProfiles -> Nat]
    BY <1>3, <2>1
  <2>3. CASE p = kiconfig
    BY <1>1, <1>2, <2>1, <2>2, <2>3, ProfileMoves
  <2>4. CASE p # kiconfig
    <3>1. kiconfig \in KIProfiles => kiprof'[kiconfig] = kiprof[kiconfig]
      BY <1>3, <2>1, <2>4
    <3>2. CASE kiconfig \in KIProfiles
      BY <1>1, <1>2, <2>2, <3>1, <3>2, ProfileMoves
    <3>3. CASE kiconfig = 0
      BY <1>1, <1>2, <2>2, <3>3, NoProfileNoPins, ProfileMoves
    <3>4. QED BY <1>3, <3>2, <3>3
  <2>5. QED BY <2>3, <2>4
<1>6. QED BY <1>4, <1>5

LEMMA DeleteSourceOk ==
    ASSUME KnowledgeIndexAssumption, KIInd, NEW x \in KISources, DeleteSource(x)
    PROVE  KIInd'
<1>1. LeftKept
  BY KISpent DEF DeleteSource, LeftKept
<1>2. KITyped /\ JobsFit /\ SourcesFit
  BY DEF KIInd
<1>3. /\ kiconfig' = kiconfig /\ kiprof' = kiprof /\ kijob' = kijob /\ kitask' = kitask /\ kislots' = kislots
      /\ kirefs' = kirefs /\ kigen' = kigen /\ kivec' = kivec /\ kihand' = kihand
  BY DEF DeleteSource, kiVectors
<1>4. /\ kisrc' \in [KISources -> JSrc] /\ \A s \in KISources \ {x} : kisrc'[s] = kisrc[s]
      /\ kisrc'[x].status = "deleting" /\ kisrc'[x].gen = kisrc[x].gen /\ kisrc'[x].prof = kisrc[x].prof
      /\ kisrc[x].status \in {"ready", "indexing"}
  <2>1. kisrc \in [KISources -> JSrc] /\ kisrc[x] \in JSrc
    BY <1>2 DEF KITyped
  <2>2. PICK r : r = [kisrc[x] EXCEPT !.status = "deleting"]
    BY Zenon
  <2>3. r \in JSrc /\ r.status = "deleting" /\ r.gen = kisrc[x].gen /\ r.prof = kisrc[x].prof
    BY <2>1, <2>2 DEF JSrc
  <2>4. kisrc' = [kisrc EXCEPT ![x] = r]
    BY <2>2 DEF DeleteSource
  <2>5. QED BY <2>1, <2>3, <2>4 DEF DeleteSource
<1>5. ASSUME NEW j \in KIJobs
      PROVE  /\ kitomb'[j] \in Tombs
             /\ \A s \in KISources \ {x} : kitomb'[j][s] = kitomb[j][s]
             /\ kitomb'[j][x] = kitomb[j][x] \/ (kisrc[x].gen = j /\ kitomb[j][x] = "none")
  <2>1. kitomb[j] \in Tombs
    BY <1>2 DEF KITyped
  <2>2. kitomb'[j] = IF j = kisrc[x].gen /\ kitomb[j][x] = "none"
                     THEN [kitomb[j] EXCEPT ![x] = "promoted"] ELSE kitomb[j]
    BY DEF DeleteSource
  <2>3. QED BY <2>1, <2>2 DEF Tombs
<1>6. KITyped'
  <2>1. kitomb' \in [KIJobs -> Tombs]
    BY <1>5 DEF DeleteSource
  <2>2. QED BY <1>1, <1>2, <1>3, <1>4, <2>1 DEF KITyped, LeftKept
<1>7. JobsFit'
  <2> SUFFICES ASSUME NEW j \in KIJobs
               PROVE  /\ JobFits(kijob[j], kitask[j], kivec[j], kitomb'[j], kihand[j])
                      /\ kileft.calm => CalmFits(kijob[j], kitask[j], kigen[j], kivec[j], kihand[j])
    BY <1>1, <1>3 DEF JobsFit, LeftKept
  <2>1. /\ JobFits(kijob[j], kitask[j], kivec[j], kitomb[j], kihand[j])
        /\ kileft.calm => CalmFits(kijob[j], kitask[j], kigen[j], kivec[j], kihand[j])
    BY <1>2 DEF JobsFit
  <2>2. kisrc[x].gen = j => kijob[j].status = "succeeded"
    BY <1>2 DEF SourcesFit, SourceBound, KnowledgeIndexAssumption
  <2>3. /\ kijob[j].status = "canceled" => \A s \in kijob[j].srcs : kitomb'[j][s] = "canceled_staging"
        /\ \A s \in KISources : kitomb'[j][s] = "promoted" => kijob[j].status = "succeeded"
    <3>1. kijob[j].srcs \subseteq KISources
      BY <1>2 DEF KITyped, JRow
    <3>2. /\ kijob[j].status = "canceled" => \A s \in kijob[j].srcs : kitomb[j][s] = "canceled_staging"
          /\ \A s \in KISources : kitomb[j][s] = "promoted" => kijob[j].status = "succeeded"
      BY <2>1 DEF JobFits
    <3>3. \A s \in KISources : kitomb'[j][s] = kitomb[j][s] \/ kisrc[x].gen = j
      BY <1>5
    <3>4. CASE kisrc[x].gen = j
      BY <2>2, <3>4
    <3>5. CASE kisrc[x].gen # j
      BY <3>1, <3>2, <3>3, <3>5
    <3>6. QED BY <3>4, <3>5
  <2>4. JobFits(kijob[j], kitask[j], kivec[j], kitomb'[j], kihand[j])
    BY <2>1, <2>3 DEF JobFits
  <2>5. QED BY <2>1, <2>4
<1>8. SourcesFit'
  <2> SUFFICES ASSUME NEW s \in KISources PROVE SourceBound(s)' /\ SourceFree(s)'
    BY DEF SourcesFit
  <2>1. SourceBound(s) /\ SourceFree(s)
    BY <1>2 DEF SourcesFit
  <2>2. CASE s = x
    <3>1. SourceBound(s)'
      BY <1>1, <1>3, <1>4, <2>1, <2>2 DEF SourceBound, LeftKept
    <3>2. SourceFree(s)'
      BY <1>3, <1>4, <2>1, <2>2 DEF SourceFree, JobLive
    <3>3. QED BY <3>1, <3>2
  <2>3. CASE s # x
    <3>1. kisrc'[s] = kisrc[s] /\ \A j \in KIJobs : kitomb'[j][s] = kitomb[j][s]
      BY <1>4, <1>5, <2>3
    <3>2. SourceBound(s)'
      BY <1>1, <1>3, <2>1, <3>1 DEF SourceBound, LeftKept
    <3>3. SourceFree(s)'
      BY <1>3, <2>1, <3>1 DEF SourceFree, JobLive
    <3>4. QED BY <3>2, <3>3
  <2>4. QED BY <2>2, <2>3
<1>9. LiveBound' /\ IndexSlotsExact'
  BY <1>3 DEF KIInd, LiveBound, JobLive, IndexSlotsExact, KIRunning
<1>10. RefsExact'
  <2>1. JobRefs' = JobRefs
    BY <1>3 DEF JobRefs, JobLive
  <2>2. \A s \in KISources : /\ kisrc'[s].prof = kisrc[s].prof
                             /\ kisrc'[s].status = "deleted" <=> kisrc[s].status = "deleted"
    BY <1>4
  <2>4. SourceRefs' = SourceRefs
    BY <2>2, SourceRefsStay
  <2>5. QED BY <1>3, <2>1, <2>4 DEF KIInd, RefsExact
<1>11. QED BY <1>6, <1>7, <1>8, <1>9, <1>10 DEF KIInd

LEMMA SourceDeletedOk ==
    ASSUME KnowledgeIndexAssumption, KIInd, NEW x \in KISources, SourceDeleted(x)
    PROVE  KIInd'
<1>2. KITyped /\ JobsFit /\ SourcesFit
  BY DEF KIInd
<1>3. /\ kiconfig' = kiconfig /\ kiprof' = kiprof /\ kijob' = kijob /\ kitask' = kitask /\ kislots' = kislots
      /\ kigen' = kigen /\ kivec' = kivec /\ kihand' = kihand /\ kitomb' = kitomb /\ kileft' = kileft
  BY DEF SourceDeleted, kiVectors
<1>4. /\ kisrc' \in [KISources -> JSrc] /\ \A s \in KISources \ {x} : kisrc'[s] = kisrc[s]
      /\ kisrc'[x].status = "deleted" /\ kisrc'[x].gen = kisrc[x].gen /\ kisrc'[x].prof = kisrc[x].prof
  <2>1. kisrc \in [KISources -> JSrc] /\ kisrc[x] \in JSrc
    BY <1>2 DEF KITyped
  <2>2. PICK r : r = [kisrc[x] EXCEPT !.status = "deleted"]
    BY Zenon
  <2>3. r \in JSrc /\ r.status = "deleted" /\ r.gen = kisrc[x].gen /\ r.prof = kisrc[x].prof
    BY <2>1, <2>2 DEF JSrc
  <2>4. kisrc' = [kisrc EXCEPT ![x] = r]
    BY <2>2 DEF SourceDeleted
  <2>5. QED BY <2>1, <2>3, <2>4
<1>5. KITyped' /\ JobsFit' /\ LiveBound' /\ IndexSlotsExact'
  BY <1>3, <1>4 DEF KIInd, KITyped, JobsFit, LiveBound, JobLive, IndexSlotsExact, KIRunning
<1>6. SourcesFit'
  <2> SUFFICES ASSUME NEW s \in KISources PROVE SourceBound(s)' /\ SourceFree(s)'
    BY DEF SourcesFit
  <2>1. SourceBound(s) /\ SourceFree(s)
    BY <1>2 DEF SourcesFit
  <2>2. CASE s = x
    <3>1. SourceBound(s)'
      BY <1>3, <1>4, <2>1, <2>2 DEF SourceBound
    <3>2. SourceFree(s)'
      BY <1>3, <1>4, <2>1, <2>2 DEF SourceFree, JobLive
    <3>3. QED BY <3>1, <3>2
  <2>3. CASE s # x
    <3>1. SourceBound(s)'
      BY <1>3, <1>4, <2>1, <2>3 DEF SourceBound
    <3>2. SourceFree(s)'
      BY <1>3, <1>4, <2>1, <2>3 DEF SourceFree, JobLive
    <3>3. QED BY <3>1, <3>2
  <2>4. QED BY <2>2, <2>3
<1>7. RefsExact'
  <2>1. JobRefs' = JobRefs
    BY <1>3 DEF JobRefs, JobLive
  <2>2. {s \in KISources : kisrc[s].prof # 0 /\ kisrc[s].status # "deleted"}'
           = {s \in KISources : kisrc[s].prof # 0 /\ kisrc[s].status # "deleted"} \ {x}
    BY <1>4
  <2>3. SourceRefs' = {<<"source", s, kisrc[s].prof>> :
                          s \in {s \in KISources : kisrc[s].prof # 0 /\ kisrc[s].status # "deleted"} \ {x}}
    BY <1>4, <2>2 DEF SourceRefs
  <2>4. SourceRefs' = {r \in SourceRefs : r[2] # x}
    BY <2>3 DEF SourceRefs
  <2>5. (\A r \in JobRefs : r[1] = "job") /\ (\A r \in SourceRefs : r[1] = "source")
    BY DEF JobRefs, SourceRefs
  <2>6. kirefs = JobRefs \cup SourceRefs /\ kirefs' = {r \in kirefs : r[1] # "source" \/ r[2] # x}
    BY DEF KIInd, RefsExact, SourceDeleted
  <2>7. QED BY <2>1, <2>4, <2>5, <2>6 DEF RefsExact
<1>8. QED BY <1>5, <1>6, <1>7 DEF KIInd

LEMMA RequestIndexOk ==
    ASSUME KnowledgeIndexAssumption, KIInd, NEW srcs \in SUBSET KISources, RequestIndex(srcs)
    PROVE  KIInd'
<1> DEFINE fresh == {k \in KIJobs : kijob[k].status = "none"}
<1>1. PICK j : j = CHOOSE k \in fresh : \A l \in fresh : k <= l
  BY Zenon
<1>2. j \in KIJobs /\ kijob[j].status = "none"
  <2>1. fresh # {} /\ fresh \subseteq Nat
    BY DEF RequestIndex, KnowledgeIndexAssumption
  <2>2. \E k \in fresh : \A l \in fresh : k <= l
    BY <2>1, LeastOf
  <2>3. j \in fresh
    BY <1>1, <2>2
  <2>4. QED BY <2>3
<1>3. PICK b, t, g, v, m, h : JobHas(j, b, t, g, v, m, h)
  BY <1>2, JobMet
<1>4. /\ JobIs(j, b, t, g, v, m, h) /\ JobWritesFit(b, t, g, v, m, h) /\ JobFits(b, t, v, m, h)
      /\ kislots \in Nat /\ b.status = "none" /\ t.status = "none" /\ t.epoch = 0 /\ b.srcs = {}
  BY <1>2, <1>3 DEF JobHas, JobIs, JobWritesFit, JobFits
<1>5. PICK b2 : b2 = [status |-> "queued", srcs |-> srcs, prof |-> kiconfig, prev |-> kiprof[kiconfig]]
  BY Zenon
<1>6. PICK t2 : t2 = [t EXCEPT !.status = "queued"]
  BY Zenon
<1>7. /\ kijob' = [kijob EXCEPT ![j] = b2] /\ kitask' = [kitask EXCEPT ![j] = t2]
      /\ kirefs' = kirefs \cup {<<"job", j, kiconfig>>}
  BY <1>1, <1>3, <1>5, <1>6 DEF RequestIndex, JobHas
<1>8. /\ kiconfig # 0 /\ kiconfig \in KIProfiles /\ kiprof[kiconfig] \in Nat /\ kiprof[kiconfig] # 0
      /\ \A s \in srcs : kisrc[s].status = "ready"
  BY DEF RequestIndex, KIInd, KITyped
<1>9. b2 \in JRow /\ b2.status = "queued" /\ b2.srcs = srcs /\ b2.prof = kiconfig
  BY <1>5, <1>8 DEF JRow, LiveJob
<1>10. t2 \in JTask /\ t2.status = "queued" /\ t2.epoch = 0 /\ t2.held = t.held /\ ~t2.held
  <2>1. ~t.held /\ t \in JTask
    BY <1>3, <1>4 DEF JobFits, JobHas
  <2>2. QED BY <1>4, <1>6, <2>1 DEF JTask, LiveJob
<1>11. LeftKept
  BY KISpent DEF RequestIndex, LeftKept
<1>12. kislots' = kislots + Slot(t2) - Slot(t)
  BY <1>4, <1>10 DEF RequestIndex, Slot
<1>13. JobWrites(j, b2, t2, g, v, m, h)
  BY <1>3, <1>4, <1>7, <1>11, <1>12 DEF RequestIndex, JobWrites, JobIs, JobHas, kiVectors
<1>14. JobFits(b2, t2, v, m, h)
  <2>1. \A s \in KISources : v[s] = "none" /\ m[s] # "promoted"
    BY <1>4 DEF JobFits
  <2>2. \A d \in KIEpochs : /\ h[d].todo \subseteq srcs /\ (h[d].pc \in PickedPc => h[d].todo # {})
                            /\ h[d].pc # "after"
    BY <1>4 DEF JobFits
  <2>3. QED BY <1>8, <1>9, <1>10, <2>1, <2>2 DEF JobFits, LiveJob
<1>15. ASSUME kileft.calm PROVE CalmFits(b2, t2, g, v, h)
  <2>1. \A d \in KIEpochs : h[d].pc = "none"
    BY <1>4, <1>15 DEF JobWritesFit, CalmFits
  <2>2. QED BY <1>9, <1>10, <2>1 DEF CalmFits, FullPc
<1>16. JobWritesFit(b2, t2, g, v, m, h)
  BY <1>4, <1>9, <1>10, <1>14, <1>15 DEF JobWritesFit
<1>17. ASSUME NEW s \in KISources
       PROVE  /\ kisrc'[s] \in JSrc /\ kisrc'[s].gen = kisrc[s].gen /\ kisrc'[s].prof = kisrc[s].prof
              /\ s \in srcs => kisrc'[s].status = "indexing" /\ kisrc[s].status = "ready"
              /\ s \notin srcs => kisrc'[s].status = kisrc[s].status
  <2>1. kisrc[s] \in JSrc
    BY DEF KIInd, KITyped
  <2>2. kisrc'[s] = IF s \in srcs THEN [kisrc[s] EXCEPT !.status = "indexing"] ELSE kisrc[s]
    BY DEF RequestIndex
  <2>3. QED BY <1>8, <2>1, <2>2 DEF JSrc
<1>18. kisrc' \in [KISources -> JSrc]
  BY <1>17 DEF RequestIndex
<1>19. /\ KITyped' /\ JobsFit' /\ IndexSlotsExact'
       /\ kijob'[j] = b2 /\ kigen'[j] = g /\ kivec'[j] = v /\ kitomb'[j] = m
       /\ \A k \in KIJobs \ {j} : /\ kijob'[k] = kijob[k] /\ kigen'[k] = kigen[k]
                                  /\ kivec'[k] = kivec[k] /\ kitomb'[k] = kitomb[k]
  BY <1>2, <1>13, <1>16, <1>18, JobsMove
<1>20. /\ \A k \in KIJobs \ {j} : kijob'[k] = kijob[k] /\ (JobLive(k)' <=> JobLive(k))
       /\ JobLive(j)' /\ ~JobLive(j)
  BY <1>2, <1>9, <1>19 DEF JobLive
<1>21. /\ kiconfig' = kiconfig /\ kiprof' = kiprof /\ kileft'.calm = kileft.calm
       /\ kigen' = kigen /\ kivec' = kivec /\ kitomb' = kitomb
  BY <1>11 DEF RequestIndex, LeftKept, kiVectors
<1>22. SourcesFit'
  <2> SUFFICES ASSUME NEW s \in KISources PROVE SourceBound(s)' /\ SourceFree(s)'
    BY DEF SourcesFit
  <2>1. SourceBound(s) /\ SourceFree(s) /\ kisrc[s].gen \in KIJobs \cup {0}
    BY DEF KIInd, SourcesFit, KITyped, JSrc
  <2>2. kisrc[s].gen # 0 => kijob'[kisrc[s].gen] = kijob[kisrc[s].gen]
    BY <1>2, <1>20, <2>1 DEF SourceBound
  <2>3. /\ kisrc'[s].gen = kisrc[s].gen /\ kisrc'[s].prof = kisrc[s].prof
        /\ kisrc'[s].status = "deleted" => kisrc[s].status = "deleted"
        /\ kisrc'[s].status \in {"ready", "indexing"} => kisrc[s].status \in {"ready", "indexing"}
        /\ kisrc[s].status = "deleted" => kisrc'[s].status = "deleted"
    BY <1>17
  <2>4. SourceBound(s)'
    BY <1>21, <2>1, <2>2, <2>3 DEF SourceBound
  <2>5. SourceFree(s)'
    <3>1. CASE s \in srcs
      <4>1. \A k \in KIJobs : JobLive(k) => s \notin kijob[k].srcs
        BY <1>17, <2>1, <3>1 DEF SourceFree
      <4>2. ASSUME NEW k \in KIJobs, JobLive(k)', s \in kijob'[k].srcs PROVE k = j
        BY <1>20, <4>1, <4>2
      <4>3. JobLive(j)' /\ s \in kijob'[j].srcs
        BY <1>9, <1>19, <1>20, <3>1
      <4>4. kisrc'[s].status = "indexing"
        BY <1>17, <3>1
      <4>5. QED BY <1>2, <4>2, <4>3, <4>4 DEF SourceFree
    <3>2. CASE s \notin srcs
      <4>1. ASSUME NEW k \in KIJobs
            PROVE  JobLive(k)' /\ s \in kijob'[k].srcs <=> JobLive(k) /\ s \in kijob[k].srcs
        BY <1>9, <1>19, <1>20, <3>2
      <4>2. kisrc'[s].status = kisrc[s].status
        BY <1>17, <3>2
      <4>3. QED BY <2>1, <4>1, <4>2 DEF SourceFree
    <3>3. QED BY <3>1, <3>2
  <2>6. QED BY <2>4, <2>5
<1>23. LiveBound'
  BY <1>8, <1>9, <1>19, <1>20, <1>21 DEF KIInd, LiveBound
<1>24. RefsExact'
  <2>1. {k \in KIJobs : JobLive(k)}' = {k \in KIJobs : JobLive(k)} \cup {j}
    BY <1>2, <1>20
  <2>2. JobRefs' = JobRefs \cup {<<"job", j, kiconfig>>}
    <3>1. \A k \in {k \in KIJobs : JobLive(k)} : kijob'[k].prof = kijob[k].prof
      BY <1>20
    <3>2. kijob'[j].prof = kiconfig
      BY <1>9, <1>19
    <3>3. QED BY <2>1, <3>1, <3>2 DEF JobRefs
  <2>3. \A s \in KISources : /\ kisrc'[s].prof = kisrc[s].prof
                             /\ kisrc'[s].status = "deleted" <=> kisrc[s].status = "deleted"
    BY <1>17
  <2>5. SourceRefs' = SourceRefs
    BY <2>3, SourceRefsStay
  <2>6. QED BY <1>7, <2>2, <2>5 DEF KIInd, RefsExact
<1>25. QED BY <1>19, <1>22, <1>23, <1>24 DEF KIInd

LEMMA CommitOk ==
    ASSUME KnowledgeIndexAssumption, KIInd, NEW j \in KIJobs, NEW e \in KIEpochs, CommitPromotion(j, e)
    PROVE  KIInd'
<1>0. PICK b, t, g, v, m, h : JobHas(j, b, t, g, v, m, h)
  BY JobMet
<1>1. /\ JobIs(j, b, t, g, v, m, h) /\ JobWritesFit(b, t, g, v, m, h) /\ JobFits(b, t, v, m, h)
      /\ kislots \in Nat /\ kislots > 0 /\ kijob[j] = b /\ b \in JRow /\ t \in JTask
      /\ t.status = "running" /\ b.status \in LiveJob /\ JobLive(j) /\ h[e].pc = "commit"
      /\ b.srcs \subseteq KISources /\ b.prof # 0
  BY <1>0 DEF CommitPromotion, MayPromote, checkTaskFence, KIRunning, JobLive, LiveJob, JobHas, JobIs,
              JobWritesFit, JobFits
<1>2. /\ b.prof = kiconfig /\ kiprof[kiconfig] # 0 /\ kiconfig # 0 /\ kiconfig \in KIProfiles
      /\ \A s \in b.srcs : kisrc[s].status = "indexing"
  <2>1. b.prof = kiconfig /\ kiprof[kiconfig] # 0
    BY <1>1 DEF KIInd, LiveBound
  <2>2. \A s \in b.srcs : kisrc[s].status = "indexing"
    BY <1>1 DEF CommitPromotion, MayPromote
  <2>3. QED BY <1>1, <2>1, <2>2 DEF KIInd, KITyped
<1>3. PICK b2 : b2 = [b EXCEPT !.status = "succeeded"]
  BY Zenon
<1>4. b2 \in JRow /\ b2.status = "succeeded" /\ b2.srcs = b.srcs /\ b2.prof = b.prof
  BY <1>1, <1>3 DEF JRow, OverJob
<1>5. PICK t2 : t2 = [t EXCEPT !.status = "succeeded", !.held = FALSE]
  BY Zenon
<1>6. t2 \in JTask /\ t2.status = "succeeded" /\ ~t2.held /\ t2.epoch = t.epoch
  BY <1>1, <1>5 DEF JTask, OverJob
<1>7. PICK h2 : GoesTo(j, h, e, h2, "after")
  <2>1. HandlerGoes(j, e, "after") /\ "after" \in GoPc
    BY DEF CommitPromotion, GoPc
  <2>2. h \in Hands /\ kihand[j] = h /\ kihand \in [KIJobs -> Hands]
    BY <1>0 DEF JobHas
  <2>3. QED BY <2>1, <2>2, HandGoes
<1>8. kijob' = [kijob EXCEPT ![j] = b2] /\ kitask' = [kitask EXCEPT ![j] = t2] /\ kislots' = kislots - 1
  BY <1>0, <1>1, <1>3, <1>5 DEF CommitPromotion, Promotes, TaskEnds, KIRunning, JobHas, JTask
<1>9. /\ kiconfig' = kiconfig /\ kiprof' = kiprof /\ kigen' = kigen /\ kivec' = kivec /\ kileft' = kileft
  BY DEF CommitPromotion, kiVectors
<1>10. ASSUME NEW s \in KISources
       PROVE  /\ kisrc'[s] \in JSrc
              /\ s \in b.srcs => /\ kisrc'[s].status = "ready" /\ kisrc'[s].gen = j /\ kisrc'[s].prof = kiconfig
              /\ s \notin b.srcs => kisrc'[s] = kisrc[s]
  <2>1. kisrc[s] \in JSrc
    BY DEF KIInd, KITyped
  <2>2. kisrc'[s] = IF s \in b.srcs THEN [status |-> "ready", gen |-> j, prof |-> kiconfig] ELSE kisrc[s]
    BY <1>1, <1>2 DEF CommitPromotion, Promotes
  <2>3. QED BY <1>2, <2>1, <2>2 DEF JSrc
<1>11. ASSUME NEW k \in KIJobs
       PROVE  /\ kitomb'[k] \in Tombs
              /\ \A s \in KISources : kitomb'[k][s] = kitomb[k][s] \/ (kitomb[k][s] = "none" /\ kitomb'[k][s] = "staging")
  <2>1. kitomb[k] \in Tombs
    BY DEF KIInd, KITyped
  <2>2. kitomb'[k] = [s \in KISources |->
            IF s \in b.srcs /\ kisrc[s].gen = k /\ kitomb[k][s] = "none" THEN "staging" ELSE kitomb[k][s]]
    BY <1>1 DEF CommitPromotion, Promotes
  <2>3. QED BY <2>1, <2>2 DEF Tombs
<1>12. /\ kijob'[j] = b2 /\ kitask'[j] = t2 /\ kihand'[j] = h2
       /\ \A k \in KIJobs \ {j} : kijob'[k] = kijob[k] /\ kitask'[k] = kitask[k] /\ kihand'[k] = kihand[k]
  BY <1>7, <1>8 DEF GoesTo, KIInd, KITyped
<1>13. h2 \in Hands /\ h2[e].pc = "after" /\ h2[e].todo = h[e].todo /\ \A d \in KIEpochs \ {e} : h2[d] = h[d]
  BY <1>7 DEF GoesTo, HandMoves
<1>14. KITyped'
  <2>1. kisrc' \in [KISources -> JSrc]
    BY <1>10 DEF CommitPromotion, Promotes
  <2>2. kitomb' \in [KIJobs -> Tombs]
    BY <1>11 DEF CommitPromotion, Promotes
  <2>3. kijob' \in [KIJobs -> JRow] /\ kitask' \in [KIJobs -> JTask]
    BY <1>4, <1>6, <1>8 DEF KIInd, KITyped
  <2>4. kihand' \in [KIJobs -> Hands]
    BY <1>7, <1>13 DEF GoesTo, KIInd, KITyped
  <2>5. QED BY <1>9, <2>1, <2>2, <2>3, <2>4 DEF KIInd, KITyped
<1>15. JobsFit'
  <2> SUFFICES ASSUME NEW k \in KIJobs
               PROVE  /\ JobFits(kijob'[k], kitask'[k], kivec[k], kitomb'[k], kihand'[k])
                      /\ kileft.calm => CalmFits(kijob'[k], kitask'[k], kigen[k], kivec[k], kihand'[k])
    BY <1>9 DEF JobsFit
  <2>1. /\ JobFits(kijob[k], kitask[k], kivec[k], kitomb[k], kihand[k])
        /\ kileft.calm => CalmFits(kijob[k], kitask[k], kigen[k], kivec[k], kihand[k])
        /\ kijob[k].srcs \subseteq KISources
    BY DEF KIInd, JobsFit, KITyped, JRow
  <2>2. /\ kijob[k].status = "canceled" => \A s \in kijob[k].srcs : kitomb'[k][s] = "canceled_staging"
        /\ \A s \in KISources : kitomb'[k][s] = "promoted" => kijob[k].status = "succeeded"
    <3>1. \A s \in KISources : kitomb'[k][s] = kitomb[k][s] \/ (kitomb[k][s] = "none" /\ kitomb'[k][s] = "staging")
      BY <1>11
    <3>2. /\ kijob[k].status = "canceled" => \A s \in kijob[k].srcs : kitomb[k][s] = "canceled_staging"
          /\ \A s \in KISources : kitomb[k][s] = "promoted" => kijob[k].status = "succeeded"
      BY <2>1 DEF JobFits
    <3>3. ASSUME kijob[k].status = "canceled", NEW s \in kijob[k].srcs
          PROVE  kitomb'[k][s] = "canceled_staging"
      BY <2>1, <3>1, <3>2, <3>3
    <3>4. ASSUME NEW s \in KISources, kitomb'[k][s] = "promoted" PROVE kijob[k].status = "succeeded"
      BY <3>1, <3>2, <3>4
    <3>5. QED BY <3>3, <3>4
  <2>3. CASE k # j
    <3>1. JobFits(kijob[k], kitask[k], kivec[k], kitomb'[k], kihand[k])
      BY <2>1, <2>2 DEF JobFits
    <3>2. QED BY <1>12, <2>1, <2>3, <3>1
  <2>4. CASE k = j
    <3>1. JobFits(b2, t2, v, kitomb'[j], h2)
      <4>1. ASSUME NEW d \in KIEpochs
            PROVE  h2[d].todo \subseteq b.srcs /\ (h2[d].pc \in PickedPc => h2[d].todo # {})
        <5>1. h[d].todo \subseteq b.srcs /\ (h[d].pc \in PickedPc => h[d].todo # {})
          BY <1>1 DEF JobFits
        <5>2. QED BY <1>13, <5>1 DEF PickedPc
      <4>2. QED BY <1>1, <1>4, <1>6, <4>1 DEF JobFits, LiveJob
    <3>2. ASSUME kileft.calm PROVE CalmFits(b2, t2, g, v, h2)
      <4>1. CalmFits(b, t, g, v, h)
        BY <1>1, <3>2 DEF JobWritesFit
      <4>2. e = 1 /\ t.epoch # 0
        BY <1>1, <4>1 DEF CalmFits
      <4>3. \A d \in KIEpochs \ {e} : h2[d].pc = "none"
        BY <1>13, <4>1, <4>2 DEF CalmFits
      <4>4. QED BY <1>4, <1>6, <1>13, <4>2, <4>3 DEF CalmFits, LiveJob
    <3>3. kivec[j] = v /\ kigen[j] = g
      BY <1>0 DEF JobHas
    <3>4. QED BY <1>12, <2>4, <3>1, <3>2, <3>3
  <2>5. QED BY <2>3, <2>4
<1>16. IndexSlotsExact'
  <2>1. kislots' = kislots + Slot(t2) - Slot(kitask[j])
    BY <1>0, <1>1, <1>6, <1>8 DEF Slot, JobHas
  <2>2. QED BY <1>6, <1>8, <2>1, SlotsMove
<1>17. \A k \in KIJobs : (JobLive(k)' <=> JobLive(k) /\ k # j) /\ (k # j => kijob'[k] = kijob[k])
  BY <1>4, <1>12 DEF JobLive
<1>18. LiveBound'
  BY <1>9, <1>17 DEF KIInd, LiveBound
<1>19. SourcesFit'
  <2> SUFFICES ASSUME NEW s \in KISources PROVE SourceBound(s)' /\ SourceFree(s)'
    BY DEF SourcesFit
  <2>1. SourceBound(s) /\ SourceFree(s) /\ kisrc[s].gen \in KIJobs \cup {0}
    BY DEF KIInd, SourcesFit, KITyped, JSrc
  <2>2. \A k \in KIJobs : kitomb'[k][s] = "promoted" => kitomb[k][s] = "promoted"
    BY <1>11
  <2>3. ASSUME NEW k \in KIJobs, JobLive(k)' PROVE JobLive(k) /\ k # j /\ kijob'[k] = kijob[k]
    BY <1>17, <2>3
  <2>4. CASE s \in b.srcs
    <3>1. /\ kisrc'[s].status = "ready" /\ kisrc'[s].gen = j /\ kisrc'[s].prof = kiconfig
          /\ kisrc[s].status = "indexing"
      BY <1>2, <1>10, <2>4
    <3>2. ASSUME kileft.calm PROVE kigen[j] = "promoted" /\ kivec[j][s] = "promoted"
      <4>1. CalmFits(b, t, g, v, h)
        BY <1>1, <3>2 DEF JobWritesFit
      <4>2. g = "promoted" /\ v[s] = "promoted"
        BY <1>1, <2>4, <4>1 DEF CalmFits, FullPc
      <4>3. QED BY <1>0, <4>2 DEF JobHas
    <3>3. SourceBound(s)'
      BY <1>2, <1>4, <1>9, <1>12, <2>1, <2>2, <2>4, <3>1, <3>2 DEF SourceBound
    <3>4. ASSUME NEW k \in KIJobs, JobLive(k)' PROVE s \notin kijob'[k].srcs
      <4>1. JobLive(k) /\ k # j /\ kijob'[k] = kijob[k]
        BY <2>3, <3>4
      <4>2. QED BY <1>1, <2>1, <2>4, <4>1 DEF SourceFree
    <3>5. SourceFree(s)'
      BY <3>1, <3>4 DEF SourceFree
    <3>6. QED BY <3>3, <3>5
  <2>5. CASE s \notin b.srcs
    <3>1. kisrc'[s] = kisrc[s]
      BY <1>10, <2>5
    <3>2. kisrc[s].gen # 0 => kijob'[kisrc[s].gen] = kijob[kisrc[s].gen]
      BY <1>1, <1>12, <2>1 DEF SourceBound, LiveJob
    <3>3. SourceBound(s)'
      BY <1>9, <2>1, <2>2, <3>1, <3>2 DEF SourceBound
    <3>4. ASSUME NEW k \in KIJobs
          PROVE  JobLive(k)' /\ s \in kijob'[k].srcs <=> JobLive(k) /\ s \in kijob[k].srcs
      <4>1. CASE k = j
        BY <1>1, <1>4, <1>12, <2>5, <4>1
      <4>2. CASE k # j
        BY <1>17, <4>2
      <4>3. QED BY <4>1, <4>2
    <3>5. SourceFree(s)'
      BY <2>1, <3>1, <3>4 DEF SourceFree
    <3>6. QED BY <3>3, <3>5
  <2>6. QED BY <2>4, <2>5
<1>20. RefsExact'
  <2>1. {k \in KIJobs : JobLive(k)}' = {k \in KIJobs : JobLive(k)} \ {j}
    BY <1>17
  <2>2. JobRefs' = {<<"job", k, kijob[k].prof>> : k \in {k \in KIJobs : JobLive(k)} \ {j}}
    BY <1>17, <2>1 DEF JobRefs
  <2>3. JobRefs' = {r \in JobRefs : r[2] # j}
    BY <2>2 DEF JobRefs
  <2>4. {s \in KISources : kisrc[s].prof # 0 /\ kisrc[s].status # "deleted"}'
           = {s \in KISources : kisrc[s].prof # 0 /\ kisrc[s].status # "deleted"} \cup b.srcs
    <3>1. ASSUME NEW s \in KISources
          PROVE  kisrc'[s].prof # 0 /\ kisrc'[s].status # "deleted"
                    <=> (kisrc[s].prof # 0 /\ kisrc[s].status # "deleted") \/ s \in b.srcs
      <4>1. CASE s \in b.srcs
        BY <1>2, <1>10, <4>1
      <4>2. CASE s \notin b.srcs
        BY <1>10, <4>2
      <4>3. QED BY <4>1, <4>2
    <3>2. QED BY <1>1, <3>1
  <2>5. SourceRefs' = {r \in SourceRefs : r[2] \notin b.srcs} \cup {<<"source", s, kiconfig>> : s \in b.srcs}
    <3> DEFINE S == {s \in KISources : kisrc[s].prof # 0 /\ kisrc[s].status # "deleted"}
    <3>1. SourceRefs' = {<<"source", s, kisrc'[s].prof>> : s \in S \cup b.srcs}
      BY <2>4 DEF SourceRefs
    <3>2. SourceRefs' = {<<"source", s, kisrc'[s].prof>> : s \in S \ b.srcs}
                        \cup {<<"source", s, kisrc'[s].prof>> : s \in b.srcs}
      BY <3>1
    <3>3. {<<"source", s, kisrc'[s].prof>> : s \in b.srcs} = {<<"source", s, kiconfig>> : s \in b.srcs}
      <4>1. \A s \in b.srcs : kisrc'[s].prof = kiconfig
        BY <1>1, <1>10
      <4>2. QED BY <4>1
    <3>4. {<<"source", s, kisrc'[s].prof>> : s \in S \ b.srcs} = {<<"source", s, kisrc[s].prof>> : s \in S \ b.srcs}
      BY <1>10
    <3>5. {<<"source", s, kisrc[s].prof>> : s \in S \ b.srcs} = {r \in SourceRefs : r[2] \notin b.srcs}
      <4>1. ASSUME NEW r, r \in {<<"source", s, kisrc[s].prof>> : s \in S \ b.srcs}
            PROVE  r \in SourceRefs /\ r[2] \notin b.srcs
        <5>1. PICK s \in S \ b.srcs : r = <<"source", s, kisrc[s].prof>>
          BY <4>1
        <5>2. r[2] \notin b.srcs
          BY <5>1
        <5>3. QED BY <5>1, <5>2 DEF SourceRefs
      <4>2. ASSUME NEW r \in SourceRefs, r[2] \notin b.srcs
            PROVE  r \in {<<"source", s, kisrc[s].prof>> : s \in S \ b.srcs}
        <5>1. PICK s \in S : r = <<"source", s, kisrc[s].prof>>
          BY <4>2 DEF SourceRefs
        <5>2. s \notin b.srcs
          BY <4>2, <5>1
        <5>3. QED BY <5>1, <5>2
      <4>3. QED BY <4>1, <4>2
    <3>6. QED BY <3>2, <3>3, <3>4, <3>5
  <2>6. (\A r \in JobRefs : r[1] = "job") /\ (\A r \in SourceRefs : r[1] = "source")
    BY DEF JobRefs, SourceRefs
  <2>7. kirefs = JobRefs \cup SourceRefs
    BY DEF KIInd, RefsExact
  <2>8. kirefs' = {r \in kirefs : ~(r[1] = "job" /\ r[2] = j) /\ ~(r[1] = "source" /\ r[2] \in b.srcs)}
                  \cup {<<"source", s, kiconfig>> : s \in b.srcs}
    BY <1>1, <1>2 DEF CommitPromotion, Promotes
  <2>9. {r \in kirefs : ~(r[1] = "job" /\ r[2] = j) /\ ~(r[1] = "source" /\ r[2] \in b.srcs)}
           = {r \in JobRefs : r[2] # j} \cup {r \in SourceRefs : r[2] \notin b.srcs}
    BY <2>6, <2>7
  <2>10. QED BY <2>3, <2>5, <2>8, <2>9 DEF RefsExact
<1>21. QED BY <1>14, <1>15, <1>16, <1>18, <1>19, <1>20 DEF KIInd

LEMMA BindOk ==
    ASSUME KnowledgeIndexAssumption, KIInd, NEW p \in KIProfiles \cup {0}, BindEmbeddingProfile(p)
    PROVE  KIInd'
<1>1. LeftKept
  BY KISpent DEF BindEmbeddingProfile, LeftKept
<1>2. kiconfig' = p /\ kiprof' = kiprof /\ kihand' = kihand
  BY DEF BindEmbeddingProfile
<1>3. CASE kiconfig = 0
  <2>1. /\ kitomb' = kitomb /\ kislots' = kislots /\ kitask' = kitask /\ kijob' = kijob /\ kigen' = kigen
        /\ kivec' = kivec /\ kisrc' = kisrc /\ kirefs' = kirefs
    BY <1>3 DEF BindEmbeddingProfile, kiVectors
  <2>2. KITyped' /\ JobsFit' /\ IndexSlotsExact' /\ RefsExact'
    BY <1>1, <1>2, <2>1 DEF KIInd, KITyped, JobsFit, IndexSlotsExact, KIRunning, RefsExact, JobRefs, SourceRefs,
                            JobLive, LeftKept
  <2>3. LiveBound'
    BY <1>3, <2>1, NoProfileNoPins DEF LiveBound, JobLive
  <2>4. SourcesFit'
    <3> SUFFICES ASSUME NEW s \in KISources PROVE SourceBound(s)' /\ SourceFree(s)'
      BY DEF SourcesFit
    <3>1. SourceBound(s) /\ SourceFree(s) /\ (kisrc[s].prof # 0 => kisrc[s].status = "deleted")
      BY <1>3, NoProfileNoPins DEF KIInd, SourcesFit
    <3>2. SourceBound(s)'
      BY <1>1, <2>1, <3>1 DEF SourceBound, LeftKept
    <3>3. SourceFree(s)'
      BY <2>1, <3>1 DEF SourceFree, JobLive
    <3>4. QED BY <3>2, <3>3
  <2>5. QED BY <2>2, <2>3, <2>4 DEF KIInd
<1>4. CASE kiconfig # 0
  <2> DEFINE q == kiconfig
             jobs == {j \in KIJobs : kijob[j].prof = q}
             live == {j \in jobs : JobLive(j)}
             gone == jobs \cup {kisrc[s].gen : s \in {t \in KISources : kisrc[t].prof = q}}
             of == UNION {kijob[j].srcs : j \in jobs}
             tasks == {j \in live : kitask[j].status \in {"queued", "running"}}
  <2>1. RetireEmbeddingProfile(q)
    BY <1>4 DEF BindEmbeddingProfile
  <2>2. ASSUME NEW j \in KIJobs
        PROVE  /\ JobFits(kijob[j], kitask[j], kivec[j], kitomb[j], kihand[j])
               /\ kileft.calm => CalmFits(kijob[j], kitask[j], kigen[j], kivec[j], kihand[j])
               /\ kijob[j] \in JRow /\ kitask[j] \in JTask /\ kigen[j] \in Vec /\ kivec[j] \in Vecs
               /\ kitomb[j] \in Tombs /\ kijob[j].srcs \subseteq KISources
               /\ JobLive(j) <=> j \in live
    BY DEF KIInd, KITyped, JobsFit, LiveBound, JRow
  <2>3. ASSUME NEW j \in KIJobs
        PROVE  IF JobLive(j)
               THEN /\ kijob'[j] \in JRow /\ kijob'[j].status = "canceled"
                    /\ kijob'[j].srcs = kijob[j].srcs /\ kijob'[j].prof = kijob[j].prof
               ELSE kijob'[j] = kijob[j]
    <3>1. kijob'[j] = IF j \in live THEN [kijob[j] EXCEPT !.status = "canceled"] ELSE kijob[j]
      BY <2>1 DEF RetireEmbeddingProfile
    <3>2. QED BY <2>2, <3>1 DEF JRow, OverJob
  <2>4. ASSUME NEW j \in KIJobs
        PROVE  /\ kitask'[j] \in JTask /\ kitask'[j].status \notin LiveJob
               /\ kitask'[j].epoch = kitask[j].epoch /\ ~kitask'[j].held
               /\ kitask'[j].status = "none" <=> kitask[j].status = "none"
    <3>1. kitask'[j] = IF j \in tasks THEN [kitask[j] EXCEPT !.status = "canceled", !.held = FALSE] ELSE kitask[j]
      BY <2>1 DEF RetireEmbeddingProfile
    <3>2. j \notin tasks => kitask[j].status \notin LiveJob /\ ~kitask[j].held
      BY <2>2 DEF JobFits, LiveJob, JobLive
    <3>3. j \in tasks => kitask[j].status \in LiveJob
      BY DEF LiveJob
    <3>4. QED BY <2>2, <3>1, <3>2, <3>3 DEF JTask, LiveJob, OverJob
  <2>5. ASSUME NEW j \in KIJobs
        PROVE  /\ kitomb'[j] \in Tombs
               /\ IF JobLive(j) THEN /\ \A s \in kijob[j].srcs : kitomb'[j][s] = "canceled_staging"
                                     /\ \A s \in KISources : kitomb'[j][s] = "promoted" => kitomb[j][s] = "promoted"
                  ELSE kitomb'[j] = kitomb[j]
    <3>1. kitomb'[j] = IF j \in live THEN CanceledTombstones(j) ELSE kitomb[j]
      BY <2>1 DEF RetireEmbeddingProfile
    <3>2. QED BY <2>2, <3>1 DEF CanceledTombstones, Tombs
  <2>6. ASSUME NEW j \in KIJobs
        PROVE  /\ kivec'[j] \in Vecs /\ kigen'[j] \in Vec
               /\ \A s \in KISources : kivec'[j][s] # "none" => kivec[j][s] # "none"
    <3>1. /\ kivec'[j] = IF j \in gone THEN [s \in KISources |-> "none"] ELSE kivec[j]
          /\ kigen'[j] = IF j \in gone THEN "none" ELSE kigen[j]
      BY <2>1 DEF RetireEmbeddingProfile
    <3>2. QED BY <2>2, <3>1 DEF Vecs, Vec
  <2>7. ASSUME NEW s \in KISources
        PROVE  /\ kisrc'[s] \in JSrc
               /\ IF kisrc[s].prof = q THEN kisrc'[s].gen = 0 /\ kisrc'[s].prof = 0
                                       ELSE kisrc'[s].gen = kisrc[s].gen /\ kisrc'[s].prof = kisrc[s].prof
               /\ kisrc'[s].status = kisrc[s].status \/ (kisrc[s].status = "indexing" /\ kisrc'[s].status = "ready")
               /\ s \in of => kisrc'[s].status # "indexing"
    <3>1. kisrc[s] \in JSrc
      BY DEF KIInd, KITyped
    <3>2. PICK r : r = IF kisrc[s].prof = q THEN [kisrc[s] EXCEPT !.gen = 0, !.prof = 0] ELSE kisrc[s]
      BY Zenon
    <3>3. kisrc'[s] = IF (s \in of \/ kisrc[s].prof = q) /\ r.status = "indexing"
                      THEN [r EXCEPT !.status = "ready"] ELSE r
      BY <2>1, <3>2 DEF RetireEmbeddingProfile
    <3>4. /\ r \in JSrc /\ r.status = kisrc[s].status
          /\ IF kisrc[s].prof = q THEN r.gen = 0 /\ r.prof = 0 ELSE r.gen = kisrc[s].gen /\ r.prof = kisrc[s].prof
      BY <3>1, <3>2 DEF JSrc
    <3>5. QED BY <3>3, <3>4 DEF JSrc
  <2>8. KITyped'
    <3>1. kijob' \in [KIJobs -> JRow]
      <4>1. \A j \in KIJobs : kijob'[j] \in JRow
        BY <2>2, <2>3
      <4>2. QED BY <2>1, <4>1 DEF RetireEmbeddingProfile
    <3>2. kitask' \in [KIJobs -> JTask]
      <4>1. \A j \in KIJobs : kitask'[j] \in JTask
        BY <2>4
      <4>2. QED BY <2>1, <4>1 DEF RetireEmbeddingProfile
    <3>3. kitomb' \in [KIJobs -> Tombs]
      <4>1. \A j \in KIJobs : kitomb'[j] \in Tombs
        BY <2>5
      <4>2. QED BY <2>1, <4>1 DEF RetireEmbeddingProfile
    <3>4. kivec' \in [KIJobs -> Vecs] /\ kigen' \in [KIJobs -> Vec]
      <4>1. \A j \in KIJobs : kivec'[j] \in Vecs /\ kigen'[j] \in Vec
        BY <2>6
      <4>2. QED BY <2>1, <4>1 DEF RetireEmbeddingProfile
    <3>5. kisrc' \in [KISources -> JSrc]
      <4>1. \A s \in KISources : kisrc'[s] \in JSrc
        BY <2>7
      <4>2. QED BY <2>1, <4>1 DEF RetireEmbeddingProfile
    <3>6. QED BY <1>1, <1>2, <3>1, <3>2, <3>3, <3>4, <3>5 DEF KIInd, KITyped, LeftKept
  <2>9. \A j \in KIJobs : ~JobLive(j)'
    BY <2>3 DEF JobLive
  <2>10. JobsFit'
    <3> SUFFICES ASSUME NEW j \in KIJobs
                 PROVE  /\ JobFits(kijob'[j], kitask'[j], kivec'[j], kitomb'[j], kihand[j])
                        /\ kileft.calm => CalmFits(kijob'[j], kitask'[j], kigen'[j], kivec'[j], kihand[j])
      BY <1>1, <1>2 DEF JobsFit, LeftKept
    <3>1. /\ kijob'[j].srcs = kijob[j].srcs /\ kijob'[j].prof = kijob[j].prof
          /\ kijob'[j].status = "none" <=> kijob[j].status = "none"
          /\ kijob'[j].status = "succeeded" <=> kijob[j].status = "succeeded"
          /\ kijob'[j].status \notin LiveJob
      BY <2>3 DEF JobLive, LiveJob
    <3>2. kijob'[j].status = "canceled" => \A s \in kijob[j].srcs : kitomb'[j][s] = "canceled_staging"
      BY <2>2, <2>3, <2>5 DEF JobFits
    <3>3. \A s \in KISources : kitomb'[j][s] = "promoted" => kijob[j].status = "succeeded"
      <4>1. \A s \in KISources : kitomb[j][s] = "promoted" => kijob[j].status = "succeeded"
        BY <2>2 DEF JobFits
      <4>2. \A s \in KISources : kitomb'[j][s] = "promoted" => kitomb[j][s] = "promoted"
        BY <2>5
      <4>3. QED BY <4>1, <4>2
    <3>4. \A s \in KISources : kivec'[j][s] # "none" => s \in kijob[j].srcs
      BY <2>2, <2>6 DEF JobFits
    <3>5. \A d \in KIEpochs : /\ kihand[j][d].todo \subseteq kijob[j].srcs
                              /\ kihand[j][d].pc \in PickedPc => kihand[j][d].todo # {}
                              /\ kihand[j][d].pc = "after" => kijob[j].status = "succeeded"
      BY <2>2 DEF JobFits
    <3>6. /\ kitask'[j].status = "none" <=> kijob[j].status = "none"
          /\ kitask'[j].status \in {"none", "queued"} => kitask'[j].epoch = 0
      BY <2>2, <2>4 DEF JobFits, LiveJob
    <3>7. JobFits(kijob'[j], kitask'[j], kivec'[j], kitomb'[j], kihand[j])
      BY <2>2, <2>4, <3>1, <3>2, <3>3, <3>4, <3>5, <3>6 DEF JobFits
    <3>8. ASSUME kileft.calm PROVE CalmFits(kijob'[j], kitask'[j], kigen'[j], kivec'[j], kihand[j])
      <4>1. CalmFits(kijob[j], kitask[j], kigen[j], kivec[j], kihand[j])
        BY <2>2, <3>8
      <4>2. QED BY <2>4, <3>1, <4>1 DEF CalmFits, LiveJob
    <3>9. QED BY <3>7, <3>8
  <2>11. LiveBound'
    BY <2>9 DEF LiveBound
  <2>12. SourcesFit'
    <3> SUFFICES ASSUME NEW s \in KISources PROVE SourceBound(s)' /\ SourceFree(s)'
      BY DEF SourcesFit
    <3>1. SourceBound(s) /\ SourceFree(s) /\ kisrc[s].gen \in KIJobs \cup {0}
      BY DEF KIInd, SourcesFit, KITyped, JSrc
    <3>2. kisrc[s].gen # 0 => kisrc[s].prof # 0 /\ kijob'[kisrc[s].gen] = kijob[kisrc[s].gen]
      <4>1. ASSUME NEW j \in KIJobs, kisrc[s].gen = j, kisrc[s].gen # 0
            PROVE  kisrc[s].prof # 0 /\ kijob'[j] = kijob[j]
        <5>1. kijob[j].status = "succeeded" /\ kijob[j].prof = kisrc[s].prof
          BY <3>1, <4>1 DEF SourceBound
        <5>2. ~JobLive(j) /\ kijob[j].prof # 0
          BY <2>2, <5>1 DEF JobFits, JobLive
        <5>3. QED BY <2>3, <5>1, <5>2
      <4>2. QED BY <3>1, <4>1
    <3>3. kisrc'[s].prof # 0 => kisrc'[s].status = "deleted"
      BY <2>7, <3>1 DEF SourceBound
    <3>4. /\ kisrc'[s].gen # 0 => kisrc'[s].gen = kisrc[s].gen /\ kisrc'[s].prof = kisrc[s].prof /\ kisrc'[s].prof # 0
          /\ kisrc'[s].status \in {"ready", "indexing"} => kisrc[s].status \in {"ready", "indexing"}
      BY <2>7, <3>2
    <3>5. \A j \in KIJobs : kitomb'[j][s] = "promoted" => kitomb[j][s] = "promoted"
      BY <2>5
    <3>6. SourceBound(s)'
      BY <3>1, <3>2, <3>3, <3>4, <3>5 DEF SourceBound
    <3>7. kisrc'[s].status # "indexing"
      <4>1. CASE kisrc[s].status = "indexing"
        <5>1. PICK j \in KIJobs : JobLive(j) /\ s \in kijob[j].srcs
          BY <3>1, <4>1 DEF SourceFree
        <5>2. s \in of
          BY <2>2, <5>1
        <5>3. QED BY <2>7, <5>2
      <4>2. CASE kisrc[s].status # "indexing"
        BY <2>7, <4>2
      <4>3. QED BY <4>1, <4>2
    <3>8. SourceFree(s)'
      BY <2>9, <3>7 DEF SourceFree
    <3>9. QED BY <3>6, <3>8
  <2>13. RefsExact'
    <3>1. \A r \in kirefs : r[3] = q
      BY PinsOfBound
    <3>2. kirefs' = {r \in kirefs : r[3] # q}
      BY <2>1 DEF RetireEmbeddingProfile
    <3>3. kirefs' = {}
      BY <3>1, <3>2
    <3>4. JobRefs' = {}
      BY <2>9 DEF JobRefs
    <3>5. \A s \in KISources : kisrc'[s].prof # 0 => kisrc'[s].status = "deleted"
      <4>1. \A s \in KISources : kisrc[s].prof # 0 /\ kisrc[s].status # "deleted" => kisrc[s].prof = q
        BY DEF KIInd, SourcesFit, SourceBound
      <4>2. QED BY <2>7, <4>1
    <3>6. SourceRefs' = {}
      BY <3>5 DEF SourceRefs
    <3>7. QED BY <3>3, <3>4, <3>6 DEF RefsExact
  <2>14. IndexSlotsExact'
    <3>1. {j \in live : KIRunning(j)} = {j \in KIJobs : KIRunning(j)}
      BY <2>2 DEF JobFits, KIRunning, LiveJob, JobLive
    <3>2. kislots' = kislots - Cardinality({j \in live : KIRunning(j)})
      BY <2>1 DEF RetireEmbeddingProfile
    <3>3. kislots = Cardinality({j \in KIJobs : KIRunning(j)})
      BY DEF KIInd, IndexSlotsExact
    <3>4. Cardinality({j \in KIJobs : KIRunning(j)}) \in Nat
      BY FS_Subset, FS_CardinalityType DEF KnowledgeIndexAssumption
    <3>5. kislots' = 0
      BY <3>1, <3>2, <3>3, <3>4
    <3>6. {j \in KIJobs : KIRunning(j)}' = {}
      BY <2>4 DEF KIRunning, LiveJob
    <3>7. QED BY <3>5, <3>6, FS_EmptySet DEF IndexSlotsExact
  <2>15. QED BY <2>8, <2>10, <2>11, <2>12, <2>13, <2>14 DEF KIInd
<1>5. QED BY <1>3, <1>4

LEMMA KIIndInit ==
    ASSUME KnowledgeIndexAssumption, KIInit
    PROVE  KIInd
<1>1. KITyped
  <2>1. kileft \in KILeft /\ (kileft.calm => kileft.faults = 0)
    BY DEF KIInit, KnowledgeIndexAssumption, KILeft
  <2>2. kihand \in [KIJobs -> Hands]
    BY DEF KIInit, Hands, Hand, NoHandler
  <2>3. kitask \in [KIJobs -> JTask]
    BY DEF KIInit, JTask, KnowledgeIndexAssumption
  <2>4. kijob \in [KIJobs -> JRow] /\ kisrc \in [KISources -> JSrc]
    BY DEF KIInit, JRow, JSrc
  <2>5. kigen \in [KIJobs -> Vec] /\ kivec \in [KIJobs -> Vecs] /\ kitomb \in [KIJobs -> Tombs]
    BY DEF KIInit, Vec, Vecs, Tombs
  <2>6. kiconfig \in KIProfiles \cup {0} /\ kiprof \in [KIProfiles -> Nat]
    BY DEF KIInit, KnowledgeIndexAssumption
  <2>7. QED BY <2>1, <2>2, <2>3, <2>4, <2>5, <2>6 DEF KITyped
<1>2. \A j \in KIJobs : /\ kijob[j].status = "none" /\ kijob[j].srcs = {} /\ kitask[j].status = "none"
                        /\ kitask[j].epoch = 0 /\ ~kitask[j].held
                        /\ \A s \in KISources : kivec[j][s] = "none" /\ kitomb[j][s] = "none"
                        /\ \A e \in KIEpochs : kihand[j][e].pc = "none" /\ kihand[j][e].todo = {}
  BY DEF KIInit, NoHandler
<1>3. \A s \in KISources : kisrc[s].status = "ready" /\ kisrc[s].gen = 0 /\ kisrc[s].prof = 0
  BY DEF KIInit
<1>4. JobsFit
  BY <1>2 DEF JobsFit, JobFits, CalmFits, LiveJob, PickedPc, FullPc
<1>5. LiveBound /\ SourcesFit
  BY <1>2, <1>3 DEF LiveBound, SourcesFit, SourceBound, SourceFree, JobLive
<1>6. RefsExact
  <2>1. JobRefs = {}
    BY <1>2 DEF JobRefs, JobLive
  <2>2. SourceRefs = {}
    BY <1>3 DEF SourceRefs
  <2>3. QED BY <2>1, <2>2 DEF RefsExact, KIInit
<1>7. IndexSlotsExact
  <2>1. {j \in KIJobs : KIRunning(j)} = {}
    BY <1>2 DEF KIRunning
  <2>2. QED BY <2>1, FS_EmptySet DEF IndexSlotsExact, KIInit
<1>8. QED BY <1>1, <1>4, <1>5, <1>6, <1>7 DEF KIInd

LEMMA KIIndStep ==
    ASSUME KnowledgeIndexAssumption, KIInd, [KINext]_kiVars
    PROVE  KIInd'
<1>1. CASE UNCHANGED kiVars
  <2>1. /\ kiconfig' = kiconfig /\ kiprof' = kiprof /\ kisrc' = kisrc /\ kijob' = kijob /\ kitask' = kitask
        /\ kislots' = kislots /\ kirefs' = kirefs /\ kigen' = kigen /\ kivec' = kivec /\ kitomb' = kitomb
        /\ kihand' = kihand /\ kileft' = kileft
    BY <1>1 DEF kiVars, kiRows, kiVectors
  <2>2. KITyped' /\ JobsFit' /\ SourcesFit'
    BY <2>1 DEF KIInd, KITyped, JobsFit, SourcesFit, SourceBound, SourceFree, JobLive
  <2>3. LiveBound' /\ RefsExact' /\ IndexSlotsExact'
    BY <2>1 DEF KIInd, LiveBound, RefsExact, JobRefs, SourceRefs, JobLive, IndexSlotsExact, KIRunning
  <2>4. QED BY <2>2, <2>3 DEF KIInd
<1>2. ASSUME NEW srcs \in SUBSET KISources \ {{}}, RequestIndex(srcs) PROVE KIInd'
  BY <1>2, RequestIndexOk
<1>3. ASSUME NEW j \in KIJobs, ClaimIndexTask(j) \/ IndexLeaseLost(j) \/ CancelIndexTask(j) \/ SweepStage(j)
      PROVE  KIInd'
  BY <1>3, ClaimOk, LeaseLostOk, CancelTaskOk, SweepStageOk
<1>4. ASSUME NEW j \in KIJobs, NEW e \in KIEpochs, HandlerStep(j, e) PROVE KIInd'
  BY <1>4, ReadJobOk, MarkRunningOk, EnsuredOk, CheckEnsuredOk, ReadSourceOk, SourceUnavailableOk,
     UpsertOk, CheckIndexedOk, IndexingFailsOk, PromoteOk, CheckPromotedOk, CommitOk, CompensateOk, FinishOk, HandlerErrsOk DEF HandlerStep
<1>5. CASE KICrash
  BY <1>5, CrashOk
<1>6. ASSUME NEW p \in KIProfiles \cup {0}, BindEmbeddingProfile(p) PROVE KIInd'
  BY <1>6, BindOk
<1>7. ASSUME NEW p \in KIProfiles, EditEmbeddingProfile(p) \/ DeleteEmbeddingProfile(p) PROVE KIInd'
  BY <1>7, EditProfileOk
<1>8. ASSUME NEW s \in KISources, DeleteSource(s) \/ SourceDeleted(s) PROVE KIInd'
  BY <1>8, DeleteSourceOk, SourceDeletedOk
<1>9. ASSUME NEW j \in KIJobs, NEW s \in KISources, SweepTombstone(j, s) PROVE KIInd'
  BY <1>9, SweepTombstoneOk
<1>10. QED BY <1>1, <1>2, <1>3, <1>4, <1>5, <1>6, <1>7, <1>8, <1>9 DEF KINext

LEMMA KIIndImplies ==
    ASSUME KnowledgeIndexAssumption, KIInd
    PROVE  IndexInv /\ ReadyIsSearchable
<1>1. KITypeOK
  <2>1. kislots \in Nat
    <3>1. Cardinality({j \in KIJobs : KIRunning(j)}) \in Nat
      BY FS_Subset, FS_CardinalityType DEF KnowledgeIndexAssumption
    <3>2. QED BY <3>1 DEF KIInd, IndexSlotsExact
  <2>2. QED BY <2>1 DEF KIInd, KITyped, KITypeOK, JSrc, JRow, JTask, Vec, LiveJob, OverJob
<1>2. OneJobPerSource
  <2> SUFFICES ASSUME NEW s \in KISources
               PROVE  /\ Cardinality(JobsOf(s)) <= 1
                      /\ kisrc[s].status = "indexing" => JobsOf(s) # {}
                      /\ kisrc[s].status = "ready" => JobsOf(s) = {}
    BY DEF OneJobPerSource
  <2>1. SourceFree(s)
    BY DEF KIInd, SourcesFit
  <2>2. JobsOf(s) = {} \/ \E j \in KIJobs : JobsOf(s) = {j}
    BY <2>1 DEF SourceFree, JobsOf
  <2>3. Cardinality(JobsOf(s)) <= 1
    <3>1. CASE JobsOf(s) = {}
      <4>1. Cardinality(JobsOf(s)) = 0
        BY <3>1, FS_EmptySet
      <4>2. QED BY <4>1
    <3>2. ASSUME NEW j \in KIJobs, JobsOf(s) = {j} PROVE Cardinality(JobsOf(s)) <= 1
      <4>1. Cardinality(JobsOf(s)) = 1
        BY <3>2, FS_Singleton
      <4>2. QED BY <4>1
    <3>3. QED BY <2>2, <3>1, <3>2
  <2>4. QED BY <2>1, <2>3 DEF SourceFree, JobsOf
<1>3. PinsExact
  <2>1. kirefs = JobRefs \cup SourceRefs
    BY DEF KIInd, RefsExact
  <2>2. \A r \in kirefs : kiprof[r[3]] # 0 /\ r[3] = kiconfig
    BY PinsOfBound
  <2>3. QED BY <2>1, <2>2 DEF PinsExact, JobRefs, SourceRefs
<1>4. BoundByFinishedJob
  BY DEF KIInd, SourcesFit, SourceBound, BoundByFinishedJob
<1>5. CanceledStageCompensated
  BY DEF KIInd, JobsFit, JobFits, CanceledStageCompensated, TombstoneKept
<1>6. ReadyIsSearchable
  BY DEF KIInd, SourcesFit, SourceBound, ReadyIsSearchable
<1>7. QED BY <1>1, <1>2, <1>3, <1>4, <1>5, <1>6 DEF IndexInv, KIInd

(* RequestIndex, the attempts of its handler, cancels, deletions, sweeps   *)
(* and moves of the embedding profile keep jobs, sources, slots, pins and  *)
(* tombstones together, for any sources, jobs, profiles and bounds.        *)
THEOREM IndexingStaysTogether == KISpec => []IndexInv
<1>1. KIInit => KIInd
  BY KnowledgeIndexAssumption, KIIndInit
<1>2. KIInd /\ [KINext]_kiVars => KIInd'
  BY KnowledgeIndexAssumption, KIIndStep
<1>3. KIInd => IndexInv
  BY KnowledgeIndexAssumption, KIIndImplies
<1>4. QED BY <1>1, <1>2, <1>3, PTL DEF KISpec

(* While no lease is lost and no call fails, no cancel, deletion, sweep or *)
(* move of the profile takes the promoted vectors of a source that search  *)
(* reads.                                                                  *)
THEOREM ReadyStaysSearchable == KISpec => []ReadyIsSearchable
<1>1. KIInit => KIInd
  BY KnowledgeIndexAssumption, KIIndInit
<1>2. KIInd /\ [KINext]_kiVars => KIInd'
  BY KnowledgeIndexAssumption, KIIndStep
<1>3. KIInd => ReadyIsSearchable
  BY KnowledgeIndexAssumption, KIIndImplies
<1>4. QED BY <1>1, <1>2, <1>3, PTL DEF KISpec
=============================================================================
