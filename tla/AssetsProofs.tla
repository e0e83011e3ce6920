----------------------------- MODULE AssetsProofs -----------------------------
(***************************************************************************)
(* Theorems about Assets, for any files, datasets, requests and faults.    *)
(***************************************************************************)
EXTENDS Assets, TLAPS, FiniteSetTheorems

-----------------------------------------------------------------------------
(* The inductive invariants *)

RowOK(r) == r = [status |-> r.status, ext |-> r.ext, original |-> r.original]

FilesOK ==
    /\ DOMAIN files = FileId /\ IsFiniteSet(Rows)
    /\ \A f \in FileId : RowOK(files[f])

\* A file has a row from the first step of its upload to the last of its delete.
UploadOK(r) ==
    /\ r.op = "upload"
    /\ r = [op |-> "upload", todo |-> r.todo, step |-> r.step, file |-> r.file,
            converted |-> r.converted]
    /\ r.step \in {"blank", "convert", "image", "row", "store", "origin", "done"}
    /\ r.step # "blank" => r.file \in Rows /\ files[r.file].status = "uploading"

DeleteOK(r) ==
    /\ r.op = "delete"
    /\ r = [op |-> "delete", todo |-> r.todo, step |-> r.step]
    /\ r.step \in {"objects", "counts", "row"}
    /\ r.step # "objects" => Head(r.todo) \in Rows

RequestOK ==
    assetRequest = Idle \/ UploadOK(assetRequest) \/ DeleteOK(assetRequest)

HistoryOK ==
    /\ damaged = [files |-> damaged.files, datasets |-> damaged.datasets]
    /\ assetFaults \in Nat

\* Bonds are between rows that are there.
BondsOK ==
    /\ DOMAIN datasets \subseteq DatasetName
    /\ \A d \in DOMAIN datasets : datasets[d] \in Int
    /\ bonds \subseteq (DOMAIN datasets) \X Rows

AssetInv == FilesOK /\ RequestOK /\ HistoryOK /\ BondsOK

\* Whether the count of d is ahead of its bonds: delete has decreased it, and
\* not yet deleted the row.
Early(d) == IF Deleting("row") /\ <<d, Deleted>> \in bonds THEN 1 ELSE 0

CountInv ==
    \A d \in DOMAIN datasets \ damaged.datasets :
        datasets[d] + Early(d) = Cardinality(FilesInDataset(d))

\* Without a fault only the file that is handled is being uploaded.
SettleInv ==
    assetFaults = 0 =>
        \A f \in Rows : files[f].status = "uploading" =>
            assetRequest.op = "upload" /\ assetRequest.step # "blank" /\ f = TheFile

\* What object o has, if it is there.
Held(os, o) == IF o \in DOMAIN os THEN os[o] ELSE "404"

\* The objects of f have what its row says.
Served(f) ==
    /\ Held(objects, Path(f)) = files[f].ext
    /\ files[f].original # "none" =>
           /\ files[f].ext \in {"pdf", "jpg"}
           /\ Held(objects, OriginPath(f)) = files[f].original

\* The objects of f have been deleted, and its row has not.
Going(f) == (Deleting("counts") \/ Deleting("row")) /\ Deleted = f

\* What is converted, and how far the row and the objects of an uploaded file are.
ConvertedOK ==
    /\ Uploading("convert") => assetRequest.converted = "none"
    /\ \A step \in {"row", "store", "origin", "done"} :
           Uploading(step) =>
               /\ assetRequest.converted \in {"none", "pdf", "jpg"}
               /\ assetRequest.converted = "none" =>
                      ~ConvertsToPdf(Ext) /\ Ext \notin ImageFormats
    /\ Uploading("origin") => assetRequest.converted # "none"

WrittenOK ==
    TheFile \notin damaged.files =>
        /\ Uploading("store") \/ Uploading("origin") \/ Uploading("done") =>
               /\ files[TheFile].ext = Content
               /\ files[TheFile].original =
                      IF assetRequest.converted = "none" THEN "none" ELSE Ext
        /\ Uploading("origin") => Held(objects, Path(TheFile)) = Content
        /\ Uploading("done") => Served(TheFile)

ServedInv ==
    /\ ConvertedOK /\ WrittenOK
    /\ \A f \in Rows \ damaged.files :
           files[f].status = "uploaded" /\ ~Going(f) => Served(f)

-----------------------------------------------------------------------------
(* Objects *)

\* What is put is there, and the rest is as it was.
LEMMA PutHeld ==
    ASSUME NEW os, NEW name, NEW format, NEW o
    PROVE  Held(Put(os, name, format), o) = IF o = name THEN format ELSE Held(os, o)
BY DEF Held, Put

-----------------------------------------------------------------------------
(* Rows and requests *)

\* A row that is written is there, and the others are as they were.
LEMMA RowWritten ==
    ASSUME FilesOK, NEW f \in FileId, NEW r, RowOK(r), r.status # "none",
           files' = [files EXCEPT ![f] = r]
    PROVE  /\ FilesOK' /\ Rows' = Rows \cup {f} /\ files'[f] = r
           /\ \A g \in FileId \ {f} : files'[g] = files[g]
<1>1. /\ DOMAIN files' = FileId /\ files'[f] = r
      /\ \A g \in FileId \ {f} : files'[g] = files[g]
  BY DEF FilesOK
<1>2. r # NoFile
  <2>1. NoFile.status = "none"
    BY DEF NoFile
  <2> QED
    BY <2>1
<1>3. Rows' = Rows \cup {f}
  BY <1>1, <1>2 DEF Rows
<1>4. IsFiniteSet(Rows \cup {f})
  BY FS_AddElement DEF FilesOK
<1> QED
  BY <1>1, <1>3, <1>4 DEF FilesOK

\* So it is when only its status is.
LEMMA StatusWritten ==
    ASSUME FilesOK, NEW f \in FileId, NEW status, status # "none",
           SetFileStatus(f, status)
    PROVE  /\ FilesOK' /\ Rows' = Rows \cup {f}
           /\ files'[f].status = status
           /\ files'[f].ext = files[f].ext /\ files'[f].original = files[f].original
           /\ \A g \in FileId \ {f} : files'[g] = files[g]
<1> DEFINE r == [status |-> status, ext |-> files[f].ext, original |-> files[f].original]
<1>1. RowOK(files[f])
  BY DEF FilesOK
<1>2. [files[f] EXCEPT !.status = status] = r
  BY <1>1 DEF RowOK
<1>3. files' = [files EXCEPT ![f] = r]
  BY <1>2 DEF SetFileStatus
<1>4. /\ RowOK(r) /\ r.status # "none"
      /\ r.status = status /\ r.ext = files[f].ext /\ r.original = files[f].original
  BY DEF RowOK
<1> HIDE DEF r
<1> QED
  BY <1>3, <1>4, RowWritten

\* Rows that stay as they were.
LEMMA RowsStay ==
    ASSUME FilesOK, files' = files
    PROVE  FilesOK' /\ Rows' = Rows
BY DEF FilesOK, Rows

\* An upload that goes on with another step, or that ends with its file.
LEMMA UploadGoes ==
    ASSUME UploadOK(assetRequest)
    PROVE  /\ \A step : Goes(step) =>
                  assetRequest' = [op |-> "upload", todo |-> assetRequest.todo, step |-> step,
                                   file |-> TheFile, converted |-> assetRequest.converted]
           /\ \A step, format : Converted(format, step) =>
                  assetRequest' = [op |-> "upload", todo |-> assetRequest.todo, step |-> step,
                                   file |-> TheFile, converted |-> format]
           /\ NextFile =>
                  \/ assetRequest' = Idle
                  \/ assetRequest' = [op |-> "upload", todo |-> Tail(assetRequest.todo),
                                      step |-> "blank", file |-> TheFile,
                                      converted |-> assetRequest.converted]
<1>1. PICK todo, step, file, converted :
          assetRequest = [op |-> "upload", todo |-> todo, step |-> step, file |-> file,
                          converted |-> converted]
  BY DEF UploadOK
<1>2. /\ assetRequest.todo = todo /\ TheFile = file
      /\ assetRequest.converted = converted
  BY <1>1 DEF TheFile
<1>3. ASSUME NEW s, Goes(s)
      PROVE  assetRequest' = [op |-> "upload", todo |-> todo, step |-> s, file |-> file,
                              converted |-> converted]
  BY <1>1, <1>3 DEF Goes
<1>4. ASSUME NEW s, NEW format, Converted(format, s)
      PROVE  assetRequest' = [op |-> "upload", todo |-> todo, step |-> s, file |-> file,
                              converted |-> format]
  BY <1>1, <1>4 DEF Converted
<1>5. ASSUME NextFile
      PROVE  \/ assetRequest' = Idle
             \/ assetRequest' = [op |-> "upload", todo |-> Tail(todo), step |-> "blank",
                                 file |-> file, converted |-> converted]
  <2>1. PICK tail : tail = Tail(todo)
    OBVIOUS
  <2>2. ASSUME NEW r, r = [assetRequest EXCEPT !.todo = tail, !.step = "blank"]
        PROVE  r = [op |-> "upload", todo |-> tail, step |-> "blank", file |-> file,
                    converted |-> converted]
    BY <1>1, <2>2
  <2>3. assetRequest' = Idle \/ assetRequest' = [assetRequest EXCEPT !.todo = tail,
                                                                   !.step = "blank"]
    BY <1>2, <1>5, <2>1 DEF NextFile
  <2> QED
    BY <2>1, <2>2, <2>3
<1> QED
  BY <1>2, <1>3, <1>4, <1>5

\* What a request is.
LEMMA RequestIs ==
    ASSUME RequestOK
    PROVE  /\ assetRequest.op \in {"none", "upload", "delete"}
           /\ assetRequest.op = "none" <=> assetRequest = Idle
           /\ assetRequest.op = "upload" => UploadOK(assetRequest)
           /\ assetRequest.op = "delete" => DeleteOK(assetRequest)
BY DEF RequestOK, UploadOK, DeleteOK, Idle

\* A step that hits no more files and datasets than were hit.
LEMMA HistoryStays ==
    ASSUME HistoryOK
    PROVE  /\ Fine => HistoryOK' /\ damaged' = damaged /\ assetFaults' = assetFaults
           /\ \A kind : AssetFault(kind) => assetFaults' \in Nat /\ assetFaults' # 0
           /\ \A kind : AssetFault(kind) /\ damaged' = damaged => HistoryOK'
BY DEF HistoryOK, Fine, AssetFault

\* Bonds and counts that are left alone while no row goes.
LEMMA BondsStay ==
    ASSUME BondsOK, UNCHANGED <<datasets, bonds>>, Rows \subseteq Rows'
    PROVE  BondsOK'
BY DEF BondsOK

-----------------------------------------------------------------------------
(* The upload of a file *)

\* What a step of the upload of file f does to the rest: nothing.
UploadsFile(f) ==
    /\ assetRequest.op = "upload" /\ assetRequest'.op # "delete"
    /\ UNCHANGED <<datasets, bonds>>
    /\ damaged'.datasets = damaged.datasets /\ damaged.files \subseteq damaged'.files
    /\ f \in FileId /\ Rows' = Rows \cup {f} /\ (assetRequest.step # "blank" => f = TheFile)
    /\ \A g \in FileId \ {f} : files'[g] = files[g]
    /\ \A o : o[2] # f => Held(objects', o) = Held(objects, o)
    /\ assetFaults' = 0 => assetFaults = 0

\* It goes on with f, or is over with it, by a fault or since f is uploaded.
GoesOn(f) ==
    /\ assetRequest'.op = "upload" /\ assetRequest'.step # "blank"
    /\ assetRequest'.file = f /\ files'[f].status = "uploading"

IsOver(f) ==
    /\ assetRequest' = Idle \/ (assetRequest'.op = "upload" /\ assetRequest'.step = "blank")
    /\ assetFaults' = 0 => files'[f].status # "uploading"
    /\ files'[f].status = "uploaded" =>
           /\ Uploading("done") /\ TheFile = f /\ UNCHANGED objects
           /\ files'[f].ext = files[f].ext /\ files'[f].original = files[f].original

\* A file of the request that is passed over.
PassesOver ==
    /\ Uploading("blank")
    /\ assetRequest' = Idle \/ (assetRequest'.op = "upload" /\ assetRequest'.step = "blank")
    /\ UNCHANGED <<files, datasets, bonds, objects, damaged>>
    /\ assetFaults' = 0 => assetFaults = 0

\* The invariant needs of such a step only what it makes of rows and history.
LEMMA RequestGoesOn ==
    ASSUME NEW f, NEW todo, NEW step, NEW c, f \in Rows', files'[f].status = "uploading",
           step \in {"blank", "convert", "image", "row", "store", "origin", "done"},
           assetRequest' = [op |-> "upload", todo |-> todo, step |-> step, file |-> f,
                            converted |-> c]
    PROVE  RequestOK' /\ (step # "blank" => GoesOn(f))
<1>1. UploadOK(assetRequest)'
  BY DEF UploadOK
<1> QED
  BY <1>1 DEF RequestOK, GoesOn

\* Likewise of a step that ends with its file.
LEMMA RequestIsOver ==
    ASSUME UploadOK(assetRequest), NextFile \/ Aborts
    PROVE  /\ RequestOK'
           /\ assetRequest' = Idle \/ (assetRequest'.op = "upload" /\ assetRequest'.step = "blank")
           /\ assetRequest'.op # "delete"
<1>1. CASE assetRequest' = Idle
  BY <1>1 DEF RequestOK, Idle
<1>2. CASE assetRequest' # Idle
  <2>1. assetRequest' = [op |-> "upload", todo |-> Tail(assetRequest.todo),
                         step |-> "blank", file |-> TheFile,
                         converted |-> assetRequest.converted]
    BY <1>2, UploadGoes DEF Aborts
  <2>2. UploadOK(assetRequest)'
    BY <2>1 DEF UploadOK
  <2> QED
    BY <2>1, <2>2 DEF RequestOK
<1> QED
  BY <1>1, <1>2

\* The row a file begins with.
LEMMA Inserted ==
    ASSUME FilesOK, NEW ext, InsertFile(ext)
    PROVE  /\ lastId' \in FileId /\ FilesOK' /\ Rows' = Rows \cup {lastId'}
           /\ files'[lastId'].status = "uploading"
           /\ \A g \in FileId \ {lastId'} : files'[g] = files[g]
           /\ UNCHANGED <<datasets, bonds>>
<1> DEFINE r == [status |-> "uploading", ext |-> ext, original |-> ""]
<1>1. /\ lastId' \in FileId /\ files' = [files EXCEPT ![lastId'] = r]
      /\ UNCHANGED <<datasets, bonds>>
  BY DEF InsertFile
<1>2. RowOK(r) /\ r.status # "none" /\ r.status = "uploading"
  BY DEF RowOK
<1> HIDE DEF r
<1>3. PICK f : f = lastId'
  OBVIOUS
<1>4. FilesOK' /\ Rows' = Rows \cup {f} /\ files'[f] = r
      /\ \A g \in FileId \ {f} : files'[g] = files[g]
  BY <1>1, <1>2, <1>3, RowWritten
<1> QED
  BY <1>1, <1>2, <1>3, <1>4

\* The first step of an upload.
LEMMA BlankStep ==
    ASSUME AssetInv,
           NoExtension \/ BlankIsCreated \/ BlankIsNotStored \/ BlankFails
    PROVE  /\ AssetInv'
           /\ PassesOver \/ \E f \in FileId : UploadsFile(f) /\ (GoesOn(f) \/ IsOver(f))
<1>1. FilesOK /\ RequestOK /\ HistoryOK /\ BondsOK /\ UploadOK(assetRequest)
      /\ assetRequest.op = "upload" /\ Uploading("blank")
  BY RequestIs DEF AssetInv, NoExtension, BlankIsCreated, BlankIsNotStored, BlankFails, Uploading
<1>2. CASE NoExtension
  <2>1. NextFile /\ UNCHANGED <<files, objects, datasets, bonds>> /\ Fine
    BY <1>2 DEF NoExtension, OnlyFiles
  <2>2. AssetInv'
    BY <1>1, <2>1, RequestIsOver, RowsStay, HistoryStays, BondsStay DEF AssetInv
  <2> QED
    BY <1>1, <2>1, <2>2, RequestIsOver DEF PassesOver, Fine
<1>3. CASE BlankFails
  <2>1. Aborts /\ UNCHANGED <<files, objects, datasets, bonds, damaged>> /\ AssetFault("database")
    BY <1>3 DEF BlankFails, OnlyFiles
  <2>2. AssetInv'
    BY <1>1, <2>1, RequestIsOver, RowsStay, HistoryStays, BondsStay DEF AssetInv
  <2> QED
    BY <1>1, <2>1, <2>2, RequestIsOver, HistoryStays DEF PassesOver
<1>4. CASE BlankIsCreated
  <2> DEFINE f == lastId'
  <2>1. /\ InsertFile(Ext) /\ Fine
        /\ objects' = MakesThumbnail(f, Ext, Stored(<<"files", f, Ext>>, Ext))
        /\ assetRequest' = [assetRequest EXCEPT !.step = "convert", !.file = f,
                                                !.converted = "none"]
    BY <1>4 DEF BlankIsCreated
  <2>2. /\ f \in FileId /\ FilesOK' /\ Rows' = Rows \cup {f}
        /\ files'[f].status = "uploading"
        /\ \A g \in FileId \ {f} : files'[g] = files[g]
        /\ UNCHANGED <<datasets, bonds>>
    BY <1>1, <2>1, Inserted
  <2> HIDE DEF f
  <2>3. assetRequest' = [op |-> "upload", todo |-> assetRequest.todo, step |-> "convert",
                         file |-> f, converted |-> "none"]
    BY <1>1, <2>1 DEF UploadOK
  <2>4. ASSUME NEW o, o[2] # f PROVE Held(objects', o) = Held(objects, o)
    <3>1. o # <<"files", f, Ext>> /\ o # Thumb(f)
      BY <2>4 DEF Thumb
    <3> QED
      BY <2>1, <3>1, PutHeld DEF MakesThumbnail, Stored
  <2>5. RequestOK' /\ GoesOn(f)
    BY <2>2, <2>3, RequestGoesOn
  <2>6. AssetInv'
    BY <1>1, <2>1, <2>2, <2>5, HistoryStays, BondsStay DEF AssetInv
  <2>7. UploadsFile(f)
    BY <1>1, <2>1, <2>2, <2>4, <2>5 DEF UploadsFile, GoesOn, Fine, Uploading
  <2> QED
    BY <2>2, <2>5, <2>6, <2>7
<1>5. CASE BlankIsNotStored
  <2> DEFINE f == lastId'
  <2>1. /\ InsertFile(Ext) /\ AssetFault("storage") /\ UNCHANGED <<objects, damaged>>
        /\ \/ Aborts
           \/ assetRequest' = [assetRequest EXCEPT !.step = "convert", !.file = f,
                                                   !.converted = "none"]
    BY <1>5 DEF BlankIsNotStored
  <2>2. /\ f \in FileId /\ FilesOK' /\ Rows' = Rows \cup {f}
        /\ files'[f].status = "uploading"
        /\ \A g \in FileId \ {f} : files'[g] = files[g]
        /\ UNCHANGED <<datasets, bonds>>
    BY <1>1, <2>1, Inserted
  <2> HIDE DEF f
  <2>3. RequestOK' /\ assetRequest'.op # "delete" /\ (GoesOn(f) \/ IsOver(f))
    <3>1. CASE Aborts
      BY <1>1, <2>1, <2>2, <3>1, RequestIsOver, HistoryStays DEF IsOver
    <3>2. CASE ~Aborts
      <4>1. assetRequest' = [op |-> "upload", todo |-> assetRequest.todo, step |-> "convert",
                             file |-> f, converted |-> "none"]
        BY <1>1, <2>1, <3>2 DEF UploadOK
      <4> QED
        BY <2>2, <4>1, RequestGoesOn
    <3> QED
      BY <3>1, <3>2
  <2>4. AssetInv'
    BY <1>1, <2>1, <2>2, <2>3, HistoryStays, BondsStay DEF AssetInv
  <2>5. UploadsFile(f)
    BY <1>1, <2>1, <2>2, <2>3, HistoryStays DEF UploadsFile, Uploading
  <2> QED
    BY <2>2, <2>3, <2>4, <2>5
<1> QED
  BY <1>2, <1>3, <1>4, <1>5

\* A later step: all that has to be known of it.
LEMMA FileStep ==
    ASSUME AssetInv, UploadOK(assetRequest), assetRequest.step # "blank",
           NEW f, f = TheFile,
           FilesOK', Rows' = Rows, \A g \in FileId \ {f} : files'[g] = files[g],
           OnlyFiles, HistoryOK', damaged'.datasets = damaged.datasets,
           damaged.files \subseteq damaged'.files, assetFaults' = 0 => assetFaults = 0,
           \A o : o[2] # f => Held(objects', o) = Held(objects, o),
           \/ /\ files'[f].status = "uploading"
              /\ \E step \in {"image", "row", "store", "origin", "done"} :
                     Goes(step) \/ \E c : Converted(c, step)
           \/ /\ NextFile \/ Aborts
              /\ assetFaults' = 0 => files'[f].status # "uploading"
              /\ files'[f].status = "uploaded" =>
                     /\ Uploading("done") /\ UNCHANGED objects
                     /\ files'[f].ext = files[f].ext
                     /\ files'[f].original = files[f].original
    PROVE  AssetInv' /\ f \in FileId /\ UploadsFile(f) /\ (GoesOn(f) \/ IsOver(f))
<1>1. f \in Rows /\ f \in FileId /\ assetRequest.op = "upload" /\ UNCHANGED <<datasets, bonds>>
  BY DEF UploadOK, Rows, OnlyFiles, TheFile
<1>2. RequestOK' /\ assetRequest'.op # "delete" /\ (GoesOn(f) \/ IsOver(f))
  <2>1. CASE NextFile \/ Aborts
    <3>1. /\ RequestOK' /\ assetRequest'.op # "delete"
          /\ \/ assetRequest' = Idle
             \/ assetRequest'.op = "upload" /\ assetRequest'.step = "blank"
      BY <2>1, RequestIsOver
    <3>2. CASE files'[f].status = "uploading" /\ ~(NextFile \/ Aborts)
      BY <2>1, <3>2
    <3>3. CASE \/ \E step \in {"image", "row", "store", "origin", "done"} :
                       Goes(step) \/ \E c : Converted(c, step)
      <4>1. PICK step \in {"image", "row", "store", "origin", "done"} :
                Goes(step) \/ \E c : Converted(c, step)
        BY <3>3
      <4>2. assetRequest'.op = "upload" /\ assetRequest'.step = step
        BY <4>1, UploadGoes
      <4> QED
        BY <3>1, <4>2 DEF Idle
    <3> QED
      BY <3>1, <3>2, <3>3 DEF IsOver
  <2>2. CASE ~(NextFile \/ Aborts)
    <3>1. PICK step \in {"image", "row", "store", "origin", "done"} :
              Goes(step) \/ \E c : Converted(c, step)
      BY <2>2
    <3>2. PICK c : assetRequest' = [op |-> "upload", todo |-> assetRequest.todo,
                                    step |-> step, file |-> f, converted |-> c]
      BY <3>1, UploadGoes
    <3> QED
      BY <1>1, <2>2, <3>2, RequestGoesOn
  <2> QED
    BY <2>1, <2>2
<1>3. AssetInv'
  BY <1>1, <1>2, BondsStay DEF AssetInv
<1>4. UploadsFile(f)
  BY <1>1, <1>2 DEF UploadsFile
<1> QED
  BY <1>1, <1>2, <1>3, <1>4

\* Objects of the file that is uploaded.
LEMMA PutsOfFile ==
    ASSUME NEW f, NEW o, o[2] # f
    PROVE  /\ \A kind, what, format, os :
                  Held(Put(os, <<kind, f, what>>, format), o) = Held(os, o)
           /\ o # Thumb(f) /\ o # Tokens(f) /\ o # Path(f) /\ o # OriginPath(f)
<1>1. \A kind, what : o # <<kind, f, what>>
  OBVIOUS
<1> QED
  BY <1>1, PutHeld DEF Thumb, Tokens, Path, OriginPath

\* Conversion leaves the rows alone.
LEMMA ConvertStep ==
    ASSUME AssetInv,
           \/ HtmlIsConverted \/ PdfIsConverted \/ DocumentIsConverted
           \/ ImageIsConverted \/ IsNotConverted
           \/ HtmlConversionFails \/ DocumentConversionFails
           \/ ImageConversionFails \/ TokensFail
    PROVE  AssetInv' /\ \E f \in FileId : UploadsFile(f) /\ (GoesOn(f) \/ IsOver(f))
<1>1. FilesOK /\ RequestOK /\ HistoryOK /\ assetRequest.op = "upload"
      /\ assetRequest.step \in {"convert", "image"} /\ OnlyFiles /\ UNCHANGED files
  BY DEF AssetInv, HtmlIsConverted, PdfIsConverted, DocumentIsConverted, ImageIsConverted,
         IsNotConverted, HtmlConversionFails, DocumentConversionFails,
         ImageConversionFails, TokensFail, Uploading, ToJpg, IsNoConvertedFile
<1>2. UploadOK(assetRequest) /\ assetRequest.step # "blank"
  BY <1>1, RequestIs
<1>3. PICK f : f = TheFile
  OBVIOUS
<1>4. FilesOK' /\ Rows' = Rows /\ files'[f].status = "uploading"
  BY <1>1, <1>2, <1>3, RowsStay DEF UploadOK, TheFile
<1>5. ASSUME Fine \/ \E kind : AssetFault(kind) /\ UNCHANGED damaged
      PROVE  /\ HistoryOK' /\ damaged' = damaged /\ (assetFaults' = 0 => assetFaults = 0)
  BY <1>1, <1>5, HistoryStays
<1>6. CASE HtmlIsConverted \/ PdfIsConverted \/ DocumentIsConverted
  <2>1. /\ AsksForTokens
        /\ \E step \in {"image", "row"} : Converted("pdf", step)
    BY <1>6 DEF HtmlIsConverted, PdfIsConverted, DocumentIsConverted
  <2>2. Fine \/ \E kind : AssetFault(kind) /\ UNCHANGED damaged
    BY <2>1 DEF AsksForTokens
  <2>3. ASSUME NEW o, o[2] # f PROVE Held(objects', o) = Held(objects, o)
    <3>1. \/ objects' = Stored(<<"files", f, "pdf">>, "pdf")
          \/ objects' = Put(Stored(<<"files", f, "pdf">>, "pdf"), Tokens(f), "json")
      BY <1>3, <2>1 DEF AsksForTokens
    <3> QED
      BY <2>3, <3>1, PutsOfFile, PutHeld DEF Stored
  <2> QED
    BY <1>1, <1>2, <1>3, <1>4, <1>5, <2>1, <2>2, <2>3, FileStep
<1>7. CASE ImageIsConverted \/ IsNotConverted
  <2>1. /\ Fine /\ UNCHANGED objects
        /\ Converted("jpg", "row") \/ Goes("row")
    BY <1>7 DEF ImageIsConverted, IsNotConverted
  <2> QED
    BY <1>1, <1>2, <1>3, <1>4, <1>5, <2>1, FileStep
<1>8. CASE HtmlConversionFails \/ DocumentConversionFails \/ ImageConversionFails
  <2>1. AssetFault("convert") /\ NextFile /\ UNCHANGED <<objects, damaged>>
    BY <1>8 DEF HtmlConversionFails, DocumentConversionFails, ImageConversionFails,
                IsNoConvertedFile
  <2>2. assetFaults' # 0
    BY <1>1, <2>1, HistoryStays
  <2> QED
    BY <1>1, <1>2, <1>3, <1>4, <1>5, <2>1, <2>2, FileStep
<1>9. CASE TokensFail
  <2>1. /\ AssetFault("convert") /\ Aborts /\ UNCHANGED damaged
        /\ objects' = Stored(<<"files", f, "pdf">>, "pdf")
    BY <1>3, <1>9 DEF TokensFail
  <2>2. assetFaults' # 0
    BY <1>1, <2>1, HistoryStays
  <2>3. ASSUME NEW o, o[2] # f PROVE Held(objects', o) = Held(objects, o)
    BY <2>1, <2>3, PutsOfFile DEF Stored
  <2> QED
    BY <1>1, <1>2, <1>3, <1>4, <1>5, <2>1, <2>2, <2>3, FileStep
<1> QED
  BY <1>6, <1>7, <1>8, <1>9

\* The row is updated, or is not.
LEMMA RowStep ==
    ASSUME AssetInv, IsInsertedToDatabase \/ RowIsNotUpdated
    PROVE  AssetInv' /\ \E f \in FileId : UploadsFile(f) /\ (GoesOn(f) \/ IsOver(f))
<1>1. FilesOK /\ RequestOK /\ HistoryOK /\ assetRequest.op = "upload"
      /\ assetRequest.step = "row" /\ OnlyFiles /\ Goes("store") /\ UNCHANGED objects
  BY DEF AssetInv, IsInsertedToDatabase, RowIsNotUpdated, Uploading
<1>2. UploadOK(assetRequest)
  BY <1>1, RequestIs
<1>3. PICK f : f = TheFile
  OBVIOUS
<1>4. f \in Rows /\ f \in FileId /\ files[f].status = "uploading"
  BY <1>1, <1>2, <1>3 DEF UploadOK, TheFile, Rows
<1>5. CASE IsInsertedToDatabase
  <2>1. PICK ext, original :
            files' = [files EXCEPT ![f] = [status |-> "uploading", ext |-> ext,
                                           original |-> original]]
    BY <1>3, <1>5 DEF IsInsertedToDatabase, UpdateFile
  <2>2. PICK r : r = [status |-> "uploading", ext |-> ext, original |-> original]
    OBVIOUS
  <2>3. RowOK(r) /\ r.status = "uploading" /\ r.status # "none" /\ files' = [files EXCEPT ![f] = r]
    BY <2>1, <2>2 DEF RowOK
  <2>4. /\ FilesOK' /\ Rows' = Rows \cup {f} /\ files'[f] = r
        /\ \A g \in FileId \ {f} : files'[g] = files[g]
    BY <1>1, <1>4, <2>3, RowWritten, Zenon
  <2>6. Rows' = Rows /\ files'[f].status = "uploading"
    BY <1>4, <2>3, <2>4
  <2>5. HistoryOK' /\ damaged' = damaged /\ (assetFaults' = 0 => assetFaults = 0)
    BY <1>1, <1>5, HistoryStays DEF IsInsertedToDatabase
  <2> QED
    BY <1>1, <1>2, <1>3, <2>4, <2>5, <2>6, FileStep
<1>6. CASE RowIsNotUpdated
  <2>1. /\ FilesOK' /\ Rows' = Rows /\ files' = files
        /\ damaged' = [damaged EXCEPT !.files = @ \cup {f}] /\ AssetFault("database")
    BY <1>1, <1>3, <1>6, RowsStay DEF RowIsNotUpdated
  <2>2. damaged' = [files |-> damaged.files \cup {f}, datasets |-> damaged.datasets]
    BY <1>1, <2>1 DEF HistoryOK
  <2>3. HistoryOK' /\ damaged'.datasets = damaged.datasets
        /\ damaged.files \subseteq damaged'.files /\ assetFaults' # 0
    BY <1>1, <2>1, <2>2, HistoryStays DEF HistoryOK
  <2> QED
    BY <1>1, <1>2, <1>3, <1>4, <2>1, <2>3, FileStep
<1> QED
  BY <1>5, <1>6

\* The file, its thumbnail and its original are stored, or are not, and its row
\* says so in the end.
LEMMA StoreStep ==
    ASSUME AssetInv,
           \/ IsUploadedToStorage \/ ThumbnailFails \/ StorageFails
           \/ IsOriginalUploaded \/ OriginalFails \/ IsFileUpdated \/ FileIsNotUpdated
    PROVE  AssetInv' /\ \E f \in FileId : UploadsFile(f) /\ (GoesOn(f) \/ IsOver(f))
<1>1. FilesOK /\ RequestOK /\ HistoryOK /\ assetRequest.op = "upload"
      /\ assetRequest.step \in {"store", "origin", "done"} /\ OnlyFiles /\ UNCHANGED damaged
  BY DEF AssetInv, IsUploadedToStorage, ThumbnailFails, StorageFails, IsOriginalUploaded,
         OriginalFails, IsFileUpdated, FileIsNotUpdated, Uploading, Fine
<1>2. UploadOK(assetRequest) /\ assetRequest.step # "blank"
  BY <1>1, RequestIs
<1>3. PICK f : f = TheFile
  OBVIOUS
<1>4. f \in Rows /\ f \in FileId /\ files[f].status = "uploading"
  BY <1>1, <1>2, <1>3 DEF UploadOK, TheFile, Rows
<1>5. /\ HistoryOK' /\ damaged' = damaged /\ (assetFaults' = 0 => assetFaults = 0)
      /\ ThumbnailFails \/ StorageFails \/ OriginalFails \/ FileIsNotUpdated =>
             assetFaults' # 0
  BY <1>1, HistoryStays DEF IsUploadedToStorage, ThumbnailFails, StorageFails,
         IsOriginalUploaded, OriginalFails, IsFileUpdated, FileIsNotUpdated
<1>6. files' = files => FilesOK' /\ Rows' = Rows /\ files'[f].status = "uploading"
  BY <1>1, <1>4, RowsStay
<1>7. \A status : status # "none" /\ SetFileStatus(f, status) =>
          /\ FilesOK' /\ Rows' = Rows /\ files'[f].status = status
          /\ files'[f].ext = files[f].ext /\ files'[f].original = files[f].original
          /\ \A g \in FileId \ {f} : files'[g] = files[g]
  BY <1>1, <1>4, StatusWritten
<1>8. CASE IsUploadedToStorage \/ ThumbnailFails
  <2>1. /\ files' = files
        /\ Goes("done") \/ Goes("origin")
        /\ \/ objects' = MakesThumbnail(f, Content, Stored(Path(f), Content))
           \/ objects' = Stored(Path(f), Content)
    BY <1>3, <1>8 DEF IsUploadedToStorage, ThumbnailFails
  <2>2. ASSUME NEW o, o[2] # f PROVE Held(objects', o) = Held(objects, o)
    BY <2>1, <2>2, PutsOfFile, PutHeld DEF MakesThumbnail, Stored
  <2> QED
    BY <1>1, <1>2, <1>3, <1>5, <1>6, <2>1, <2>2, FileStep
<1>9. CASE StorageFails
  <2>1. SetFileStatus(f, "failed") /\ NextFile /\ UNCHANGED objects
    BY <1>3, <1>9 DEF StorageFails
  <2> QED
    BY <1>1, <1>2, <1>3, <1>5, <1>7, <2>1, FileStep
<1>10. CASE IsOriginalUploaded
  <2>1. files' = files /\ Goes("done") /\ objects' = Stored(OriginPath(f), Ext)
    BY <1>3, <1>10 DEF IsOriginalUploaded
  <2>2. ASSUME NEW o, o[2] # f PROVE Held(objects', o) = Held(objects, o)
    BY <2>1, <2>2, PutsOfFile, PutHeld DEF Stored
  <2> QED
    BY <1>1, <1>2, <1>3, <1>5, <1>6, <2>1, <2>2, FileStep
<1>11. CASE OriginalFails \/ FileIsNotUpdated
  <2>1. files' = files /\ NextFile /\ UNCHANGED objects
    BY <1>11 DEF OriginalFails, FileIsNotUpdated
  <2> QED
    BY <1>1, <1>2, <1>3, <1>5, <1>6, <1>11, <2>1, FileStep
<1>12. CASE IsFileUpdated
  <2>1. SetFileStatus(f, "uploaded") /\ NextFile /\ UNCHANGED objects /\ Uploading("done")
    BY <1>3, <1>12 DEF IsFileUpdated
  <2> QED
    BY <1>1, <1>2, <1>3, <1>5, <1>7, <2>1, FileStep
<1> QED
  BY <1>8, <1>9, <1>10, <1>11, <1>12

-----------------------------------------------------------------------------
(* The other requests *)

\* A request that begins, if it is no more than an answer.
RequestBegins ==
    /\ assetRequest = Idle
    /\ UNCHANGED <<files, datasets, bonds, objects, damaged, assetFaults>>
    /\ \/ assetRequest' = Idle
       \/ assetRequest'.op = "upload" /\ assetRequest'.step = "blank"
       \/ assetRequest'.op = "delete" /\ assetRequest'.step = "objects"

\* A request that begins touches nothing yet, whatever it will ask for.
LEMMA BeginStep ==
    ASSUME AssetInv, CreateBucket \/ UploadFiles \/ DownloadS3Files \/ DeleteFiles
    PROVE  AssetInv' /\ RequestBegins
<1>1. /\ assetRequest = Idle
      /\ UNCHANGED <<files, lastId, datasets, bonds, objects, damaged, assetFaults>>
  BY DEF CreateBucket, UploadFiles, DownloadS3Files, DeleteFiles, BeginsAssets
<1>2. \/ assetRequest' = Idle
      \/ \E exts : assetRequest' = Processed(exts)
      \/ \E ids : assetRequest' = [op |-> "delete", todo |-> ids, step |-> "objects"]
  BY DEF CreateBucket, UploadFiles, DownloadS3Files, DeleteFiles, BeginsAssets
<1>3. RequestOK' /\ \/ assetRequest' = Idle
                    \/ assetRequest'.op = "upload" /\ assetRequest'.step = "blank"
                    \/ assetRequest'.op = "delete" /\ assetRequest'.step = "objects"
  <2>1. CASE \E exts : assetRequest' = Processed(exts)
    <3>1. UploadOK(assetRequest)' /\ assetRequest'.op = "upload"
          /\ assetRequest'.step = "blank"
      BY <2>1 DEF UploadOK, Processed
    <3> QED
      BY <3>1 DEF RequestOK
  <2>2. CASE \E ids : assetRequest' = [op |-> "delete", todo |-> ids, step |-> "objects"]
    <3>1. DeleteOK(assetRequest)' /\ assetRequest'.op = "delete"
          /\ assetRequest'.step = "objects"
      BY <2>2 DEF DeleteOK
    <3> QED
      BY <3>1 DEF RequestOK
  <2> QED
    BY <1>2, <2>1, <2>2 DEF RequestOK
<1>4. FilesOK' /\ HistoryOK' /\ BondsOK'
  BY <1>1, RowsStay, BondsStay DEF AssetInv, HistoryOK
<1> QED
  BY <1>1, <1>3, <1>4 DEF AssetInv, RequestBegins

\* A file's status is put, or a thumbnail or a piece of it kept.
Answered(f) ==
    \/ \E status \in {"preprocessing in progress", "preprocessed", "failed"} :
           PutStatus(f, status)
    \/ GetPreview(f) \/ GetImagePiece(f)

\* What is answered about a file that is not being uploaded.
LEMMA FileAnswered ==
    ASSUME AssetInv, NEW f \in FileId, Answered(f)
    PROVE  /\ AssetInv' /\ assetRequest = Idle /\ assetRequest' = Idle /\ Rows' = Rows
           /\ f \in Rows
           /\ UNCHANGED <<datasets, bonds, damaged, assetFaults>>
           /\ \A g \in FileId \ {f} : files'[g] = files[g]
           /\ \/ files' = files
              \/ files'[f].status \notin {"uploading", "uploaded"}
<1>1. /\ FilesOK /\ RequestOK /\ HistoryOK /\ BondsOK /\ f \in Rows /\ Fine /\ OnlyFiles
      /\ assetRequest = Idle /\ assetRequest' = Idle
  BY DEF AssetInv, Answered, PutStatus, GetPreview, GetImagePiece
<1>2. HistoryOK' /\ UNCHANGED <<datasets, bonds, damaged, assetFaults>>
  BY <1>1, HistoryStays DEF OnlyFiles
<1>3. /\ FilesOK' /\ Rows' = Rows /\ \A g \in FileId \ {f} : files'[g] = files[g]
      /\ files' = files \/ files'[f].status \notin {"uploading", "uploaded"}
  <2>1. CASE files' = files
    BY <1>1, <2>1, RowsStay
  <2>2. CASE \E status \in {"preprocessing in progress", "preprocessed", "failed"} :
                 PutStatus(f, status)
    <3>1. PICK status \in {"preprocessing in progress", "preprocessed", "failed"} :
              SetFileStatus(f, status)
      BY <2>2 DEF PutStatus
    <3>2. status # "none" /\ status \notin {"uploading", "uploaded"}
      OBVIOUS
    <3>3. /\ FilesOK' /\ Rows' = Rows \cup {f}
          /\ files'[f].status = status
          /\ \A g \in FileId \ {f} : files'[g] = files[g]
      BY <1>1, <3>1, <3>2, StatusWritten
    <3> QED
      BY <1>1, <3>2, <3>3
  <2> QED
    BY <2>1, <2>2 DEF Answered, GetPreview, GetImagePiece
<1>4. RequestOK'
  BY <1>1 DEF RequestOK
<1> QED
  BY <1>1, <1>2, <1>3, <1>4, BondsStay DEF AssetInv

\* A delete that goes on with another step, or with its next file.
LEMMA DeleteGoes ==
    ASSUME DeleteOK(assetRequest)
    PROVE  /\ \A step : Goes(step) =>
                  assetRequest' = [op |-> "delete", todo |-> assetRequest.todo, step |-> step]
           /\ NextDeleted =>
                  /\ RequestOK'
                  /\ \/ assetRequest' = Idle
                     \/ assetRequest'.op = "delete" /\ assetRequest'.step = "objects"
<1>1. PICK todo, step : assetRequest = [op |-> "delete", todo |-> todo, step |-> step]
  BY DEF DeleteOK
<1>2. ASSUME NEW s, Goes(s)
      PROVE  assetRequest' = [op |-> "delete", todo |-> todo, step |-> s]
  BY <1>1, <1>2 DEF Goes
<1>3. ASSUME NextDeleted
      PROVE  /\ RequestOK'
             /\ \/ assetRequest' = Idle
                \/ assetRequest'.op = "delete" /\ assetRequest'.step = "objects"
  <2>1. PICK tail : tail = Tail(assetRequest.todo)
    OBVIOUS
  <2>2. ASSUME NEW r, r = [assetRequest EXCEPT !.todo = tail, !.step = "objects"]
        PROVE  r = [op |-> "delete", todo |-> tail, step |-> "objects"]
    BY <1>1, <2>2
  <2>3. assetRequest' = Idle \/ assetRequest' = [assetRequest EXCEPT !.todo = tail,
                                                                   !.step = "objects"]
    BY <1>3, <2>1 DEF NextDeleted
  <2>4. assetRequest' # Idle => DeleteOK(assetRequest)'
    BY <2>2, <2>3 DEF DeleteOK
  <2> QED
    BY <2>2, <2>3, <2>4 DEF RequestOK
<1> QED
  BY <1>1, <1>2, <1>3

\* The objects of a file, and its counts, before its row.
LEMMA ObjectsStep ==
    ASSUME AssetInv,
           NothingToDelete \/ DeleteFromMinio \/ MinioDoesNotDelete \/ DecreaseCount
    PROVE  /\ AssetInv' /\ files' = files /\ DeleteOK(assetRequest)
           /\ assetRequest.op = "delete" /\ assetRequest'.op # "upload"
           /\ bonds' = bonds /\ damaged'.datasets = damaged.datasets
           /\ damaged.files \subseteq damaged'.files
           /\ assetFaults' = 0 => assetFaults = 0
<1>1. /\ FilesOK /\ RequestOK /\ HistoryOK /\ BondsOK /\ assetRequest.op = "delete"
      /\ UNCHANGED <<files, bonds>>
  BY DEF AssetInv, NothingToDelete, DeleteFromMinio, MinioDoesNotDelete, DecreaseCount,
         Deleting, OnlyFiles
<1>2. DeleteOK(assetRequest) /\ FilesOK' /\ Rows' = Rows
  BY <1>1, RequestIs, RowsStay
<1>3. RequestOK' /\ assetRequest'.op # "upload"
  <2>1. CASE NothingToDelete
    BY <1>2, <2>1, DeleteGoes DEF NothingToDelete, Idle
  <2>2. CASE DeleteFromMinio \/ MinioDoesNotDelete \/ DecreaseCount
    <3>1. Deleted \in Rows /\ \E step \in {"counts", "row"} : Goes(step)
      BY <1>2, <2>2
         DEF DeleteFromMinio, MinioDoesNotDelete, DecreaseCount, Deleting, DeleteOK, Deleted
    <3>2. PICK step \in {"counts", "row"} :
              assetRequest' = [op |-> "delete", todo |-> assetRequest.todo, step |-> step]
      BY <1>2, <3>1, DeleteGoes
    <3>3. DeleteOK(assetRequest)'
      BY <1>2, <3>1, <3>2 DEF DeleteOK, Deleted
    <3> QED
      BY <3>2, <3>3 DEF RequestOK
  <2> QED
    BY <2>1, <2>2
<1>4. /\ HistoryOK' /\ damaged'.datasets = damaged.datasets
      /\ damaged.files \subseteq damaged'.files
      /\ assetFaults' = 0 => assetFaults = 0
  <2>1. CASE DeleteFromMinio
    <3>1. PICK fs : /\ damaged' = [damaged EXCEPT !.files = @ \cup fs]
                    /\ assetFaults' = assetFaults
      BY <2>1 DEF DeleteFromMinio
    <3>2. damaged' = [files |-> damaged.files \cup fs, datasets |-> damaged.datasets]
      BY <1>1, <3>1 DEF HistoryOK
    <3> QED
      BY <1>1, <3>1, <3>2 DEF HistoryOK
  <2>2. CASE NothingToDelete \/ MinioDoesNotDelete \/ DecreaseCount
    BY <1>1, <2>2, HistoryStays DEF NothingToDelete, MinioDoesNotDelete, DecreaseCount
  <2> QED
    BY <2>1, <2>2
<1>5. BondsOK'
  <2>1. CASE DecreaseCount
    <3>1. datasets' = [d \in DOMAIN datasets |-> IF d \in DatasetsOf(Deleted)
                                                 THEN datasets[d] - 1 ELSE datasets[d]]
      BY <2>1 DEF DecreaseCount
    <3>2. DOMAIN datasets' = DOMAIN datasets /\ \A d \in DOMAIN datasets' : datasets'[d] \in Int
      BY <1>1, <3>1 DEF BondsOK
    <3> QED
      BY <1>1, <1>2, <3>2 DEF BondsOK
  <2>2. CASE NothingToDelete \/ DeleteFromMinio \/ MinioDoesNotDelete
    BY <1>1, <1>2, <2>2, BondsStay
       DEF NothingToDelete, DeleteFromMinio, MinioDoesNotDelete, OnlyFiles
  <2> QED
    BY <2>1, <2>2
<1> QED
  BY <1>1, <1>2, <1>3, <1>4, <1>5 DEF AssetInv

\* The row of a file goes with its bonds.
LEMMA RowGoes ==
    ASSUME AssetInv, DeleteRow
    PROVE  /\ AssetInv' /\ DeleteOK(assetRequest) /\ Deleted \in Rows
           /\ Rows' = Rows \ {Deleted}
           /\ \A g \in FileId \ {Deleted} : files'[g] = files[g]
           /\ assetRequest' = Idle
              \/ (assetRequest'.op = "delete" /\ assetRequest'.step = "objects")
           /\ UNCHANGED <<datasets, objects, damaged, assetFaults>>
           /\ bonds' = {b \in bonds : b[2] # Deleted}
<1>1. /\ FilesOK /\ RequestOK /\ HistoryOK /\ BondsOK
      /\ assetRequest.op = "delete" /\ assetRequest.step = "row"
      /\ files' = [files EXCEPT ![Deleted] = NoFile] /\ NextDeleted
      /\ UNCHANGED <<datasets, objects, damaged, assetFaults>>
      /\ bonds' = {b \in bonds : b[2] # Deleted}
  BY DEF AssetInv, DeleteRow, Deleting, Fine
<1>2. DeleteOK(assetRequest) /\ Deleted \in Rows
  BY <1>1, RequestIs DEF DeleteOK, Deleted
<1>3. /\ DOMAIN files' = FileId /\ files'[Deleted] = NoFile
      /\ \A g \in FileId \ {Deleted} : files'[g] = files[g]
  BY <1>1, <1>2 DEF FilesOK, Rows
<1>4. Rows' = Rows \ {Deleted}
  BY <1>3 DEF Rows
<1>5. IsFiniteSet(Rows \ {Deleted}) /\ RowOK(NoFile)
  BY <1>1, FS_RemoveElement DEF FilesOK, RowOK, NoFile
<1>6. FilesOK'
  BY <1>1, <1>3, <1>4, <1>5 DEF FilesOK
<1>7. BondsOK'
  BY <1>1, <1>4 DEF BondsOK
<1>8. RequestOK' /\ (assetRequest' = Idle
                     \/ (assetRequest'.op = "delete" /\ assetRequest'.step = "objects"))
  BY <1>1, <1>2, DeleteGoes
<1> QED
  BY <1>1, <1>2, <1>3, <1>4, <1>6, <1>7, <1>8 DEF AssetInv, HistoryOK

\* Files of a dataset are finitely many.
LEMMA FilesFinite ==
    ASSUME FilesOK, NEW fs \in SUBSET Rows
    PROVE  IsFiniteSet(fs) /\ Cardinality(fs) \in Nat
BY FS_Subset, FS_CardinalityType DEF FilesOK

\* Datasets and bonds, by their handlers.
LEMMA DatasetStep ==
    ASSUME AssetInv, NEW d \in DatasetName, NEW ids \in SUBSET FileId,
           CreateDataset(d) \/ DeleteDataset(d) \/ BoundFiles(ids, d) \/ UnboundFiles(ids, d)
    PROVE  /\ AssetInv' /\ assetRequest = Idle /\ assetRequest' = Idle
           /\ UNCHANGED <<files, objects, assetFaults>> /\ Rows' = Rows
           /\ damaged'.files = damaged.files
<1>1. /\ FilesOK /\ RequestOK /\ HistoryOK /\ BondsOK /\ assetRequest = Idle
      /\ UNCHANGED <<files, objects, assetFaults, assetRequest>>
  BY DEF AssetInv, CreateDataset, DeleteDataset, BoundFiles, UnboundFiles, Fine
<1>2. RequestOK' /\ FilesOK' /\ Rows' = Rows
  BY <1>1, RowsStay DEF RequestOK
<1>3. CASE CreateDataset(d)
  <2>1. datasets' = Put(datasets, d, 0) /\ UNCHANGED <<bonds, damaged>>
    BY <1>3 DEF CreateDataset, Fine
  <2>2. /\ DOMAIN datasets' = DOMAIN datasets \cup {d}
        /\ \A e \in DOMAIN datasets' : datasets'[e] \in Int
    BY <1>1, <2>1 DEF Put, BondsOK
  <2>3. BondsOK'
    BY <1>1, <1>2, <2>1, <2>2 DEF BondsOK
  <2> QED
    BY <1>1, <1>2, <2>1, <2>3 DEF AssetInv, HistoryOK
<1>4. CASE DeleteDataset(d)
  <2>1. /\ datasets' = [e \in DOMAIN datasets \ {d} |-> datasets[e]]
        /\ bonds' = {b \in bonds : b[1] # d}
        /\ damaged' = [damaged EXCEPT !.datasets = @ \ {d}]
    BY <1>4 DEF DeleteDataset
  <2>2. damaged' = [files |-> damaged.files, datasets |-> damaged.datasets \ {d}]
    BY <1>1, <2>1 DEF HistoryOK
  <2>3. BondsOK'
    BY <1>1, <1>2, <2>1 DEF BondsOK
  <2> QED
    BY <1>1, <1>2, <2>2, <2>3 DEF AssetInv, HistoryOK
<1>5. CASE BoundFiles(ids, d) \/ UnboundFiles(ids, d)
  <2>1. /\ d \in DOMAIN datasets /\ UNCHANGED damaged
        /\ \E fs \in SUBSET Rows :
               \/ /\ bonds' = bonds \cup {<<d, f>> : f \in fs}
                  /\ datasets' = [datasets EXCEPT ![d] = @ + Cardinality(fs)]
               \/ /\ bonds' \subseteq bonds
                  /\ datasets' = [datasets EXCEPT ![d] = @ - Cardinality(fs)]
    BY <1>5 DEF BoundFiles, UnboundFiles, Fine
  <2>2. PICK n \in Nat : \/ datasets' = [datasets EXCEPT ![d] = @ + n]
                         \/ datasets' = [datasets EXCEPT ![d] = @ - n]
    BY <1>1, <2>1, FilesFinite
  <2>3. /\ DOMAIN datasets' = DOMAIN datasets
        /\ \A e \in DOMAIN datasets' : datasets'[e] \in Int
    BY <1>1, <2>1, <2>2 DEF BondsOK
  <2>4. bonds' \subseteq (DOMAIN datasets) \X Rows
    BY <1>1, <2>1 DEF BondsOK
  <2>5. BondsOK'
    BY <1>1, <1>2, <2>3, <2>4 DEF BondsOK
  <2> QED
    BY <1>1, <1>2, <2>1, <2>5 DEF AssetInv, HistoryOK
<1> QED
  BY <1>3, <1>4, <1>5

\* The process ends.
LEMMA CrashStep ==
    ASSUME AssetInv, CrashAssets
    PROVE  /\ AssetInv' /\ assetRequest' = Idle /\ assetFaults' # 0
           /\ UNCHANGED <<files, datasets, bonds, objects>>
           /\ damaged'.files = damaged.files
                  \cup (IF Deleting("counts") \/ Deleting("row") THEN {Deleted} ELSE {})
           /\ damaged'.datasets = damaged.datasets
                  \cup (IF Deleting("row") THEN DatasetsOf(Deleted) ELSE {})
<1>1. /\ FilesOK /\ HistoryOK /\ BondsOK /\ AssetFault("crash") /\ assetRequest' = Idle
      /\ UNCHANGED <<files, datasets, bonds, objects>>
      /\ damaged' =
             [files |-> damaged.files \cup
                            IF Deleting("counts") \/ Deleting("row") THEN {Deleted} ELSE {},
              datasets |-> damaged.datasets \cup
                               IF Deleting("row") THEN DatasetsOf(Deleted) ELSE {}]
  BY DEF AssetInv, CrashAssets
<1>2. /\ damaged'.files = damaged.files
             \cup (IF Deleting("counts") \/ Deleting("row") THEN {Deleted} ELSE {})
      /\ damaged'.datasets = damaged.datasets
             \cup (IF Deleting("row") THEN DatasetsOf(Deleted) ELSE {})
      /\ damaged' = [files |-> damaged'.files, datasets |-> damaged'.datasets]
  BY <1>1
<1>3. HistoryOK' /\ assetFaults' # 0
  BY <1>1, <1>2, HistoryStays DEF HistoryOK
<1>4. FilesOK' /\ BondsOK' /\ RequestOK'
  BY <1>1, RowsStay, BondsStay DEF RequestOK
<1> QED
  BY <1>1, <1>2, <1>3, <1>4 DEF AssetInv

-----------------------------------------------------------------------------
(* What every step keeps *)

\* Nothing is there at first, and nothing is owed.
LEMMA AssetInit == InitAssets => AssetInv /\ CountInv /\ SettleInv /\ ServedInv
<1> SUFFICES ASSUME InitAssets PROVE AssetInv /\ CountInv /\ SettleInv /\ ServedInv
  OBVIOUS
<1>1. DOMAIN datasets = {} /\ bonds = {} /\ assetRequest = Idle /\ assetRequest.op = "none"
  BY DEF InitAssets, Idle
<1>2. /\ DOMAIN files = FileId /\ Rows = {} /\ \A f \in FileId : files[f] = NoFile
      /\ RowOK(NoFile)
  BY DEF InitAssets, Rows, RowOK, NoFile
<1>3. FilesOK
  BY <1>2, FS_EmptySet DEF FilesOK
<1>4. HistoryOK /\ BondsOK /\ RequestOK
  BY <1>1 DEF InitAssets, HistoryOK, BondsOK, RequestOK
<1>5. CountInv /\ SettleInv
  BY <1>1, <1>2 DEF CountInv, SettleInv
<1>6. ServedInv
  BY <1>1, <1>2 DEF ServedInv, ConvertedOK, WrittenOK, Uploading
<1> QED
  BY <1>3, <1>4, <1>5, <1>6 DEF AssetInv

\* The actions of the specification, in the groups the step lemmas are about.
LEMMA AssetSteps ==
    ASSUME [NextAssets]_assetsVars
    PROVE  \/ CreateBucket \/ UploadFiles \/ DownloadS3Files \/ DeleteFiles
           \/ NoExtension \/ BlankIsCreated \/ BlankIsNotStored \/ BlankFails
           \/ HtmlIsConverted \/ PdfIsConverted \/ DocumentIsConverted
           \/ ImageIsConverted \/ IsNotConverted
           \/ HtmlConversionFails \/ DocumentConversionFails
           \/ ImageConversionFails \/ TokensFail
           \/ IsInsertedToDatabase \/ RowIsNotUpdated
           \/ IsUploadedToStorage \/ ThumbnailFails \/ StorageFails
           \/ IsOriginalUploaded \/ OriginalFails \/ IsFileUpdated \/ FileIsNotUpdated
           \/ NothingToDelete \/ DeleteFromMinio \/ MinioDoesNotDelete \/ DecreaseCount
           \/ DeleteRow
           \/ \E f \in FileId : Answered(f)
           \/ \E d \in DatasetName, ids \in SUBSET FileId :
                  CreateDataset(d) \/ DeleteDataset(d) \/ BoundFiles(ids, d) \/ UnboundFiles(ids, d)
           \/ CrashAssets
           \/ UNCHANGED assetsVars
<1>1. {} \in SUBSET FileId
  OBVIOUS
<1> QED
  BY <1>1 DEF NextAssets, Answered

\* A step in which nothing happens.
LEMMA AssetsRest ==
    ASSUME UNCHANGED assetsVars
    PROVE  /\ AssetInv => AssetInv'
           /\ CountInv => CountInv'
           /\ SettleInv => SettleInv'
           /\ ServedInv => ServedInv'
<1>1. /\ files' = files /\ datasets' = datasets /\ bonds' = bonds /\ objects' = objects
      /\ assetRequest' = assetRequest /\ damaged' = damaged /\ assetFaults' = assetFaults
  BY DEF assetsVars
<1>2. Rows' = Rows
  BY <1>1 DEF Rows
<1>3. AssetInv => AssetInv'
  BY <1>1, <1>2 DEF AssetInv, FilesOK, RequestOK, UploadOK, DeleteOK, HistoryOK, BondsOK
<1>4. CountInv => CountInv'
  BY <1>1, <1>2 DEF CountInv, Early, Deleting, Deleted, FilesInDataset, IsBounded
<1>5. SettleInv => SettleInv'
  BY <1>1, <1>2 DEF SettleInv, TheFile
<1>6. ServedInv => ServedInv'
  BY <1>1, <1>2 DEF ServedInv, ConvertedOK, WrittenOK, Served, Going, Uploading, Deleting,
                    Deleted, Held, Path, OriginPath, Content, Ext, TheFile
<1> QED
  BY <1>3, <1>4, <1>5, <1>6

\* A step of the specification keeps the rows, the request and the bonds sound.
LEMMA AssetNext == AssetInv /\ [NextAssets]_assetsVars => AssetInv'
BY AssetSteps, AssetsRest, BeginStep, BlankStep, ConvertStep, RowStep, StoreStep, ObjectsStep,
   RowGoes, FileAnswered, DatasetStep, CrashStep

\* A file has a row from the first step of its upload to the last of its delete,
\* and bonds are between datasets and files that have theirs: no handler relies
\* on the database to say so (db/service.py).
THEOREM AssetsAreBound == AssetsSpec => []AssetInv
<1>1. InitAssets => AssetInv
  BY AssetInit
<1> QED
  BY <1>1, AssetNext, PTL DEF AssetsSpec

-----------------------------------------------------------------------------
(* Counts *)

\* A step that leaves counts, bonds and rows with a bond, and no row to be deleted.
LEMMA CountsStay ==
    ASSUME BondsOK, CountInv, UNCHANGED <<datasets, bonds>>, Rows \subseteq Rows',
           damaged'.datasets = damaged.datasets, ~Deleting("row"), ~Deleting("row")'
    PROVE  CountInv'
<1>1. \A d : FilesInDataset(d)' = FilesInDataset(d)
  BY DEF BondsOK, FilesInDataset, IsBounded
<1>2. \A d : Early(d) = 0 /\ Early(d)' = 0
  BY DEF Early
<1> QED
  BY <1>1, <1>2 DEF CountInv

\* The count goes down before the bonds do.
LEMMA DecreaseKeeps ==
    ASSUME AssetInv, CountInv, DecreaseCount
    PROVE  CountInv'
<1>1. /\ Deleting("counts") /\ Goes("row") /\ bonds' = bonds /\ files' = files
      /\ damaged' = damaged
      /\ datasets' = [d \in DOMAIN datasets |-> IF d \in DatasetsOf(Deleted)
                                                THEN datasets[d] - 1 ELSE datasets[d]]
  BY DEF DecreaseCount, Fine
<1>2. DeleteOK(assetRequest) /\ BondsOK
  BY <1>1, RequestIs DEF AssetInv, Deleting
<1>3. assetRequest' = [op |-> "delete", todo |-> assetRequest.todo, step |-> "row"]
  BY <1>1, <1>2, DeleteGoes
<1>4. Deleting("row")' /\ Deleted' = Deleted /\ ~Deleting("row")
  BY <1>1, <1>3 DEF Deleting, Deleted
<1>5. \A d : FilesInDataset(d)' = FilesInDataset(d)
  BY <1>1 DEF FilesInDataset, IsBounded, Rows
<1> SUFFICES ASSUME NEW d \in DOMAIN datasets', d \notin damaged'.datasets
             PROVE  datasets'[d] + Early(d)' = Cardinality(FilesInDataset(d)')
  BY DEF CountInv
<1>6. d \in DOMAIN datasets /\ d \in DatasetName /\ datasets[d] \in Int
  BY <1>1, <1>2 DEF BondsOK
<1>7. datasets[d] = Cardinality(FilesInDataset(d))
  BY <1>1, <1>4, <1>6 DEF CountInv, Early
<1>8. Early(d)' = IF d \in DatasetsOf(Deleted) THEN 1 ELSE 0
  BY <1>1, <1>4, <1>6 DEF Early, DatasetsOf
<1>9. datasets'[d] + Early(d)' = datasets[d]
  BY <1>1, <1>6, <1>8
<1> QED
  BY <1>5, <1>7, <1>9

\* The bonds follow.
LEMMA RowKeepsCounts ==
    ASSUME AssetInv, CountInv, DeleteRow
    PROVE  CountInv'
<1>1. /\ Deleted \in Rows /\ Rows' = Rows \ {Deleted} /\ UNCHANGED <<datasets, damaged>>
      /\ bonds' = {b \in bonds : b[2] # Deleted}
      /\ \/ assetRequest' = Idle
         \/ assetRequest'.op = "delete" /\ assetRequest'.step = "objects"
      /\ Deleting("row")
  BY RowGoes DEF DeleteRow
<1> SUFFICES ASSUME NEW d \in DOMAIN datasets, d \notin damaged.datasets
             PROVE  datasets[d] + Early(d)' = Cardinality(FilesInDataset(d)')
  BY <1>1 DEF CountInv
<1>2. Early(d)' = 0
  BY <1>1 DEF Early, Deleting, Idle
<1>3. FilesInDataset(d)' = FilesInDataset(d) \ {Deleted}
  BY <1>1 DEF FilesInDataset, IsBounded
<1>4. IsFiniteSet(FilesInDataset(d)) /\ Cardinality(FilesInDataset(d)) \in Nat
  BY FilesFinite DEF AssetInv, FilesInDataset
<1>5. Cardinality(FilesInDataset(d) \ {Deleted}) =
          IF Deleted \in FilesInDataset(d) THEN Cardinality(FilesInDataset(d)) - 1
          ELSE Cardinality(FilesInDataset(d))
  BY <1>4, FS_RemoveElement
<1>6. Deleted \in FilesInDataset(d) <=> <<d, Deleted>> \in bonds
  BY <1>1 DEF FilesInDataset, IsBounded
<1>7. datasets[d] + (IF <<d, Deleted>> \in bonds THEN 1 ELSE 0) = Cardinality(FilesInDataset(d))
      /\ datasets[d] \in Int
  BY <1>1 DEF CountInv, Early, AssetInv, BondsOK
<1> QED
  BY <1>2, <1>3, <1>4, <1>5, <1>6, <1>7

\* The files of a dataset to which some are added, or from which some are taken.
LEMMA FilesCounted ==
    ASSUME FilesOK, NEW old \in SUBSET Rows, NEW fs \in SUBSET Rows
    PROVE  /\ Cardinality(old) \in Nat /\ Cardinality(fs) \in Nat
           /\ old \cap fs = {} => Cardinality(old \cup fs) = Cardinality(old) + Cardinality(fs)
           /\ fs \subseteq old => Cardinality(old \ fs) = Cardinality(old) - Cardinality(fs)
<1>1. /\ IsFiniteSet(old) /\ IsFiniteSet(fs)
      /\ Cardinality(old) \in Nat /\ Cardinality(fs) \in Nat
  BY FilesFinite
<1>2. ASSUME old \cap fs = {}
      PROVE  Cardinality(old \cup fs) = Cardinality(old) + Cardinality(fs)
  <2>1. Cardinality(old \cup fs) = Cardinality(old) + Cardinality(fs) - Cardinality(old \cap fs)
    BY <1>1, FS_Union
  <2>2. Cardinality(old \cap fs) = 0
    BY <1>2, FS_EmptySet
  <2> QED
    BY <1>1, <2>1, <2>2
<1>3. ASSUME fs \subseteq old
      PROVE  Cardinality(old \ fs) = Cardinality(old) - Cardinality(fs)
  <2>1. Cardinality(old \ fs) = Cardinality(old) - Cardinality(old \cap fs)
    BY <1>1, FS_Difference
  <2>2. old \cap fs = fs
    BY <1>3
  <2> QED
    BY <2>1, <2>2
<1> QED
  BY <1>1, <1>2, <1>3

\* The handlers of datasets and bonds count what they bind.
LEMMA DatasetKeepsCounts ==
    ASSUME AssetInv, CountInv, NEW d \in DatasetName, NEW ids \in SUBSET FileId,
           CreateDataset(d) \/ DeleteDataset(d) \/ BoundFiles(ids, d) \/ UnboundFiles(ids, d)
    PROVE  CountInv'
<1>1. /\ FilesOK /\ BondsOK /\ assetRequest = Idle /\ assetRequest' = Idle /\ Rows' = Rows
  BY DatasetStep DEF AssetInv
<1>2. \A e : Early(e) = 0 /\ Early(e)' = 0
  BY <1>1 DEF Early, Deleting, Idle
<1>3. \A e \in DOMAIN datasets \ damaged.datasets :
          datasets[e] = Cardinality(FilesInDataset(e))
  BY <1>2 DEF CountInv, BondsOK, AssetInv
<1>4. \A e \in DOMAIN datasets : datasets[e] \in Int
  BY <1>1 DEF BondsOK
<1> SUFFICES ASSUME NEW e \in DOMAIN datasets', e \notin damaged'.datasets
             PROVE  datasets'[e] = Cardinality(FilesInDataset(e)') /\ datasets'[e] \in Int
  BY <1>2 DEF CountInv
<1>5. CASE CreateDataset(d)
  <2>1. datasets' = Put(datasets, d, 0) /\ UNCHANGED <<bonds, damaged>> /\ d \notin DOMAIN datasets
    BY <1>5 DEF CreateDataset, Fine
  <2>2. FilesInDataset(e)' = FilesInDataset(e)
    BY <1>1, <2>1 DEF FilesInDataset, IsBounded
  <2>3. CASE e = d
    <3>1. FilesInDataset(e) = {} /\ datasets'[e] = 0
      BY <1>1, <2>1, <2>3 DEF FilesInDataset, IsBounded, BondsOK, Put
    <3> QED
      BY <2>2, <3>1, FS_EmptySet
  <2>4. CASE e # d
    <3>1. e \in DOMAIN datasets /\ datasets'[e] = datasets[e] /\ e \notin damaged.datasets
      BY <2>1, <2>4 DEF Put
    <3> QED
      BY <1>3, <1>4, <2>2, <3>1
  <2> QED
    BY <2>3, <2>4
<1>6. CASE DeleteDataset(d)
  <2>1. /\ datasets' = [c \in DOMAIN datasets \ {d} |-> datasets[c]]
        /\ bonds' = {b \in bonds : b[1] # d}
        /\ damaged' = [damaged EXCEPT !.datasets = @ \ {d}]
    BY <1>6 DEF DeleteDataset
  <2>2. damaged' = [files |-> damaged.files, datasets |-> damaged.datasets \ {d}]
    BY <2>1 DEF AssetInv, HistoryOK
  <2>3. e \in DOMAIN datasets /\ e # d /\ e \notin damaged.datasets /\ datasets'[e] = datasets[e]
    BY <2>1, <2>2
  <2>4. FilesInDataset(e)' = FilesInDataset(e)
    BY <1>1, <2>1, <2>3 DEF FilesInDataset, IsBounded
  <2> QED
    BY <1>3, <1>4, <2>3, <2>4
<1>7. CASE BoundFiles(ids, d)
  <2> DEFINE fs == {f \in ids \cap Rows : ~IsBounded(f, d)}
  <2>1. /\ d \in DOMAIN datasets /\ damaged' = damaged
        /\ bonds' = bonds \cup {<<d, f>> : f \in fs}
        /\ datasets' = [datasets EXCEPT ![d] = @ + Cardinality(fs)]
    BY <1>7 DEF BoundFiles, Fine
  <2>2. fs \in SUBSET Rows /\ FilesInDataset(d) \in SUBSET Rows /\ FilesInDataset(d) \cap fs = {}
    BY DEF FilesInDataset
  <2>3. FilesInDataset(d)' = FilesInDataset(d) \cup fs
        /\ (e # d => FilesInDataset(e)' = FilesInDataset(e))
    <3>1. \A c, f : <<c, f>> \in bonds' <=> <<c, f>> \in bonds \/ (c = d /\ f \in fs)
      BY <2>1
    <3> HIDE DEF fs
    <3>2. \A c : FilesInDataset(c)' = {f \in Rows : <<c, f>> \in bonds'}
      BY <1>1 DEF FilesInDataset, IsBounded
    <3>3. \A c : FilesInDataset(c) = {f \in Rows : <<c, f>> \in bonds}
      BY DEF FilesInDataset, IsBounded
    <3> QED
      BY <2>2, <3>1, <3>2, <3>3
  <2> HIDE DEF fs
  <2>4. Cardinality(FilesInDataset(d) \cup fs) = Cardinality(FilesInDataset(d)) + Cardinality(fs)
        /\ Cardinality(fs) \in Nat
    BY <1>1, <2>2, FilesCounted
  <2>5. e \in DOMAIN datasets /\ e \notin damaged.datasets
    BY <2>1
  <2>6. CASE e = d
    <3>1. datasets'[e] = datasets[e] + Cardinality(fs)
      BY <2>1, <2>6
    <3>2. Cardinality(FilesInDataset(e)') = Cardinality(FilesInDataset(e)) + Cardinality(fs)
      BY <2>3, <2>4, <2>6
    <3> QED
      BY <1>3, <1>4, <2>4, <2>5, <3>1, <3>2
  <2>7. CASE e # d
    BY <1>3, <1>4, <2>1, <2>3, <2>5, <2>7
  <2> QED
    BY <2>6, <2>7
<1>8. CASE UnboundFiles(ids, d)
  <2> DEFINE fs == {f \in ids \cap Rows : IsBounded(f, d)}
  <2>1. /\ d \in DOMAIN datasets /\ damaged' = damaged
        /\ bonds' = bonds \ {<<d, f>> : f \in fs}
        /\ datasets' = [datasets EXCEPT ![d] = @ - Cardinality(fs)]
    BY <1>8 DEF UnboundFiles, Fine
  <2>2. fs \in SUBSET Rows /\ FilesInDataset(d) \in SUBSET Rows /\ fs \subseteq FilesInDataset(d)
    BY DEF FilesInDataset
  <2>3. FilesInDataset(d)' = FilesInDataset(d) \ fs
        /\ (e # d => FilesInDataset(e)' = FilesInDataset(e))
    <3>1. \A c, f : <<c, f>> \in bonds' <=> <<c, f>> \in bonds /\ ~(c = d /\ f \in fs)
      BY <2>1
    <3> HIDE DEF fs
    <3>2. \A c : FilesInDataset(c)' = {f \in Rows : <<c, f>> \in bonds'}
      BY <1>1 DEF FilesInDataset, IsBounded
    <3>3. \A c : FilesInDataset(c) = {f \in Rows : <<c, f>> \in bonds}
      BY DEF FilesInDataset, IsBounded
    <3> QED
      BY <2>2, <3>1, <3>2, <3>3
  <2> HIDE DEF fs
  <2>4. Cardinality(FilesInDataset(d) \ fs) = Cardinality(FilesInDataset(d)) - Cardinality(fs)
        /\ Cardinality(fs) \in Nat
    BY <1>1, <2>2, FilesCounted
  <2>5. e \in DOMAIN datasets /\ e \notin damaged.datasets
    BY <2>1
  <2>6. CASE e = d
    BY <1>3, <1>4, <2>1, <2>3, <2>4, <2>5, <2>6
  <2>7. CASE e # d
    BY <1>3, <1>4, <2>1, <2>3, <2>5, <2>7
  <2> QED
    BY <2>6, <2>7
<1> QED
  BY <1>5, <1>6, <1>7, <1>8

\* The dataset a crash leaves with a count that is ahead is one it damages.
LEMMA CrashKeepsCounts ==
    ASSUME AssetInv, CountInv, CrashAssets
    PROVE  CountInv'
<1>1. /\ assetRequest' = Idle /\ UNCHANGED <<files, datasets, bonds>>
      /\ damaged'.datasets = damaged.datasets
             \cup (IF Deleting("row") THEN DatasetsOf(Deleted) ELSE {})
  BY CrashStep
<1> SUFFICES ASSUME NEW d \in DOMAIN datasets, d \notin damaged'.datasets
             PROVE  datasets[d] + Early(d)' = Cardinality(FilesInDataset(d)')
  BY <1>1 DEF CountInv
<1>2. d \in DatasetName /\ d \notin damaged.datasets
  BY <1>1 DEF AssetInv, BondsOK
<1>3. Early(d)' = 0
  BY <1>1 DEF Early, Deleting, Idle
<1>4. Early(d) = 0
  BY <1>1, <1>2 DEF Early, DatasetsOf
<1>5. FilesInDataset(d)' = FilesInDataset(d)
  BY <1>1 DEF FilesInDataset, IsBounded, Rows
<1> QED
  BY <1>2, <1>3, <1>4, <1>5 DEF CountInv

\* Every step keeps the counts to the bonds.
LEMMA CountNext == AssetInv /\ CountInv /\ [NextAssets]_assetsVars => CountInv'
<1> SUFFICES ASSUME AssetInv, CountInv, [NextAssets]_assetsVars PROVE CountInv'
  OBVIOUS
<1>1. BondsOK
  BY DEF AssetInv
<1>2. ASSUME PassesOver \/ \E f \in FileId : UploadsFile(f) /\ (GoesOn(f) \/ IsOver(f))
      PROVE  CountInv'
  <2>1. /\ UNCHANGED <<datasets, bonds>> /\ Rows \subseteq Rows'
        /\ damaged'.datasets = damaged.datasets /\ ~Deleting("row") /\ ~Deleting("row")'
    BY <1>2 DEF PassesOver, UploadsFile, Uploading, Deleting, Rows, Idle
  <2> QED
    BY <1>1, <2>1, CountsStay
<1>3. ASSUME RequestBegins
      PROVE  CountInv'
  <2>1. /\ UNCHANGED <<datasets, bonds>> /\ Rows \subseteq Rows'
        /\ damaged'.datasets = damaged.datasets /\ ~Deleting("row") /\ ~Deleting("row")'
    BY <1>3 DEF RequestBegins, Deleting, Rows, Idle
  <2> QED
    BY <1>1, <2>1, CountsStay
<1>4. ASSUME assetRequest = Idle, assetRequest' = Idle, Rows' = Rows,
             UNCHANGED <<datasets, bonds, damaged>>
      PROVE  CountInv'
  <2>1. ~Deleting("row") /\ ~Deleting("row")'
    BY <1>4 DEF Deleting, Idle
  <2> QED
    BY <1>1, <1>4, <2>1, CountsStay
<1>5. ASSUME NothingToDelete \/ DeleteFromMinio \/ MinioDoesNotDelete
      PROVE  CountInv'
  <2>1. /\ UNCHANGED <<files, datasets, bonds>> /\ Deleting("objects") /\ DeleteOK(assetRequest)
        /\ (NextDeleted \/ Goes("counts")) /\ damaged'.datasets = damaged.datasets
    BY <1>5, ObjectsStep DEF NothingToDelete, DeleteFromMinio, MinioDoesNotDelete, OnlyFiles
  <2>2. ~Deleting("row") /\ ~Deleting("row")'
    BY <2>1, DeleteGoes DEF Deleting, Idle
  <2>3. damaged'.datasets = damaged.datasets /\ Rows' = Rows
    BY <1>5, <2>1, ObjectsStep DEF Rows
  <2> QED
    BY <1>1, <2>1, <2>2, <2>3, CountsStay
<1>6. ASSUME \E f \in FileId : Answered(f)
      PROVE  CountInv'
  BY <1>4, <1>6, FileAnswered
<1>7. ASSUME CreateBucket \/ UploadFiles \/ DownloadS3Files \/ DeleteFiles
      PROVE  CountInv'
  BY <1>3, <1>7, BeginStep
<1>8. ASSUME NoExtension \/ BlankIsCreated \/ BlankIsNotStored \/ BlankFails
      PROVE  CountInv'
  BY <1>2, <1>8, BlankStep
<1>9. ASSUME \/ HtmlIsConverted \/ PdfIsConverted \/ DocumentIsConverted
             \/ ImageIsConverted \/ IsNotConverted
             \/ HtmlConversionFails \/ DocumentConversionFails
             \/ ImageConversionFails \/ TokensFail
      PROVE  CountInv'
  BY <1>2, <1>9, ConvertStep
<1>10. ASSUME \/ IsInsertedToDatabase \/ RowIsNotUpdated
              \/ IsUploadedToStorage \/ ThumbnailFails \/ StorageFails
              \/ IsOriginalUploaded \/ OriginalFails \/ IsFileUpdated \/ FileIsNotUpdated
       PROVE  CountInv'
  BY <1>2, <1>10, RowStep, StoreStep
<1>11. ASSUME \E d \in DatasetName, ids \in SUBSET FileId :
                  CreateDataset(d) \/ DeleteDataset(d) \/ BoundFiles(ids, d) \/ UnboundFiles(ids, d)
       PROVE  CountInv'
  BY <1>11, DatasetKeepsCounts
<1>12. ASSUME DecreaseCount \/ DeleteRow \/ CrashAssets \/ UNCHANGED assetsVars
       PROVE  CountInv'
  BY <1>12, DecreaseKeeps, RowKeepsCounts, CrashKeepsCounts, AssetsRest
<1> QED
  BY <1>5, <1>6, <1>7, <1>8, <1>9, <1>10, <1>11, <1>12, AssetSteps

\* The bonds of a dataset are its files, each once.
LEMMA BondsCounted ==
    ASSUME AssetInv, NEW d \in DOMAIN datasets
    PROVE  Cardinality({b \in SearchBonds : b[1] = d}) = Cardinality(FilesInDataset(d))
<1> DEFINE fs == FilesInDataset(d)
           bs == {b \in SearchBonds : b[1] = d}
           pair == [f \in fs |-> <<d, f>>]
<1>1. IsFiniteSet(fs)
  BY FilesFinite DEF AssetInv, FilesInDataset
<1>2. bs = {<<d, f>> : f \in fs}
  <2>1. bonds \subseteq (DOMAIN datasets) \X Rows
    BY DEF AssetInv, BondsOK
  <2>2. \A b \in bs : b[2] \in fs /\ b = <<d, b[2]>>
    BY <2>1 DEF SearchBonds, FilesInDataset, IsBounded
  <2>3. \A f \in fs : <<d, f>> \in bs
    BY <2>1 DEF SearchBonds, FilesInDataset, IsBounded
  <2> HIDE DEF fs, bs
  <2> QED
    BY <2>2, <2>3
<1>3. pair \in Bijection(fs, bs)
  BY <1>2 DEF Bijection, Injection, Surjection, IsInjective
<1> QED
  BY <1>1, <1>3, FS_Bijection DEF ExistsBijection

\* The count of a dataset is that of its bonds and of its files, whatever is
\* bound, unbound, uploaded and deleted, and in whatever order, unless the
\* process ends between the two commits of a delete (db/service.py, main.py).
THEOREM CountsMatch == AssetsSpec => []CountsAreBonds
<1>1. InitAssets => AssetInv /\ CountInv
  BY AssetInit
<1>2. AssetInv /\ CountInv => CountsAreBonds
  <2> SUFFICES ASSUME AssetInv, CountInv, NEW d \in DOMAIN datasets \ damaged.datasets,
                      ~Deleting("row")
               PROVE  /\ datasets[d] = Cardinality(GetFilesByDataset(d))
                      /\ datasets[d] = Cardinality({b \in SearchBonds : b[1] = d})
    BY DEF CountsAreBonds
  <2>1. GetFilesByDataset(d) = FilesInDataset(d)
    BY DEF GetFilesByDataset
  <2>2. datasets[d] = Cardinality(FilesInDataset(d))
    BY DEF CountInv, Early, AssetInv, BondsOK
  <2> QED
    BY <2>1, <2>2, BondsCounted
<1>3. AssetInv /\ CountInv /\ [NextAssets]_assetsVars => (AssetInv /\ CountInv)'
  BY AssetNext, CountNext
<1> QED
  BY <1>1, <1>2, <1>3, PTL DEF AssetsSpec

-----------------------------------------------------------------------------
(* The end of an upload *)

\* Every step leaves no file behind that is said to be uploading, but by a fault.
LEMMA SettleNext == AssetInv /\ SettleInv /\ [NextAssets]_assetsVars => SettleInv'
<1> SUFFICES ASSUME AssetInv, SettleInv, [NextAssets]_assetsVars, assetFaults' = 0,
                    NEW g \in Rows', files'[g].status = "uploading"
             PROVE  /\ assetRequest'.op = "upload" /\ assetRequest'.step # "blank"
                    /\ g = assetRequest'.file
  BY DEF SettleInv, TheFile
<1> DEFINE Here == /\ assetRequest'.op = "upload" /\ assetRequest'.step # "blank"
                   /\ g = assetRequest'.file
<1>1. g \in FileId
  BY DEF Rows
<1>2. \A f \in Rows : assetFaults = 0 /\ files[f].status = "uploading" =>
          /\ assetRequest.op = "upload" /\ assetRequest.step # "blank" /\ f = TheFile
  BY DEF SettleInv
<1>3. ASSUME NEW f \in FileId, UploadsFile(f), GoesOn(f) \/ IsOver(f)
      PROVE  Here
  <2>1. CASE g = f
    BY <1>3, <2>1 DEF GoesOn, IsOver
  <2>2. CASE g # f
    BY <1>1, <1>2, <1>3, <2>2 DEF UploadsFile
  <2> QED
    BY <2>1, <2>2
<1>4. ASSUME files' = files \/ (\A f \in Rows' : f \in Rows /\ files'[f] = files[f]),
             assetFaults = 0,
             Uploading("blank") \/ assetRequest.op # "upload"
      PROVE  Here
  BY <1>1, <1>2, <1>4 DEF Uploading, Rows
<1>5. ASSUME PassesOver \/ RequestBegins
      PROVE  Here
  BY <1>4, <1>5 DEF PassesOver, RequestBegins, Idle
<1>6. ASSUME NEW f \in FileId, Answered(f)
      PROVE  Here
  <2>1. /\ assetRequest = Idle /\ Rows' = Rows /\ assetFaults = 0
        /\ \A h \in FileId \ {f} : files'[h] = files[h]
        /\ files' = files \/ files'[f].status # "uploading"
    BY <1>6, FileAnswered
  <2>2. files[g].status = "uploading" /\ g \in Rows
    BY <1>1, <2>1
  <2> QED
    BY <1>2, <2>1, <2>2 DEF Idle
<1>7. ASSUME NothingToDelete \/ DeleteFromMinio \/ MinioDoesNotDelete \/ DecreaseCount
      PROVE  Here
  BY <1>4, <1>7, ObjectsStep
<1>8. ASSUME DeleteRow
      PROVE  Here
  <2>1. /\ assetRequest.op = "delete" /\ Rows' = Rows \ {Deleted} /\ assetFaults = 0
        /\ \A h \in FileId \ {Deleted} : files'[h] = files[h]
    BY <1>8, RowGoes DEF DeleteOK
  <2> QED
    BY <1>1, <1>2, <2>1
<1>9. ASSUME NEW d \in DatasetName, NEW ids \in SUBSET FileId,
             CreateDataset(d) \/ DeleteDataset(d) \/ BoundFiles(ids, d) \/ UnboundFiles(ids, d)
      PROVE  Here
  <2>1. assetRequest = Idle /\ files' = files /\ assetFaults' = assetFaults
    BY <1>9, DatasetStep
  <2> QED
    BY <1>4, <2>1 DEF Idle
<1>10. ASSUME CreateBucket \/ UploadFiles \/ DownloadS3Files \/ DeleteFiles
       PROVE  Here
  BY <1>5, <1>10, BeginStep
<1>11. ASSUME NoExtension \/ BlankIsCreated \/ BlankIsNotStored \/ BlankFails
       PROVE  Here
  BY <1>3, <1>5, <1>11, BlankStep
<1>12. ASSUME \/ HtmlIsConverted \/ PdfIsConverted \/ DocumentIsConverted
              \/ ImageIsConverted \/ IsNotConverted
              \/ HtmlConversionFails \/ DocumentConversionFails
              \/ ImageConversionFails \/ TokensFail
       PROVE  Here
  BY <1>3, <1>12, ConvertStep
<1>13. ASSUME \/ IsInsertedToDatabase \/ RowIsNotUpdated
              \/ IsUploadedToStorage \/ ThumbnailFails \/ StorageFails
              \/ IsOriginalUploaded \/ OriginalFails \/ IsFileUpdated \/ FileIsNotUpdated
       PROVE  Here
  BY <1>3, <1>13, RowStep, StoreStep
<1>14. ASSUME CrashAssets
       PROVE  Here
  BY <1>14, CrashStep
<1>15. ASSUME UNCHANGED assetsVars
       PROVE  Here
  BY <1>2, <1>15 DEF assetsVars, Rows, TheFile
<1> HIDE DEF Here
<1>16. Here
  BY <1>6, <1>7, <1>8, <1>9, <1>10, <1>11, <1>12, <1>13, <1>14, <1>15, AssetSteps
<1> QED
  BY <1>16 DEF Here

\* While nothing fails, every file is uploaded once its request is over: only a
\* storage, a converter or a database that does not answer, or the end of the
\* process, leaves one that is said to be uploading (FileProcessor.run).
THEOREM UploadsEnd == AssetsSpec => []UploadsSettle
<1>1. InitAssets => AssetInv /\ SettleInv
  BY AssetInit
<1>2. AssetInv /\ SettleInv => UploadsSettle
  BY DEF UploadsSettle, SettleInv, Idle
<1>3. AssetInv /\ SettleInv /\ [NextAssets]_assetsVars => (AssetInv /\ SettleInv)'
  BY AssetNext, SettleNext
<1> QED
  BY <1>1, <1>2, <1>3, PTL DEF AssetsSpec

-----------------------------------------------------------------------------
(* What is served *)

\* Where no file is uploaded the invariant says nothing of the request.
LEMMA NothingUploaded ==
    ASSUME assetRequest'.op # "upload" \/ assetRequest'.step = "blank"
    PROVE  ConvertedOK' /\ WrittenOK'
BY DEF ConvertedOK, WrittenOK, Uploading

\* A file that is served still is when its row and its objects stay.
LEMMA ServedStays ==
    ASSUME NEW g, Served(g), files'[g] = files[g],
           Held(objects', Path(g)) = Held(objects, Path(g)),
           Held(objects', OriginPath(g)) = Held(objects, OriginPath(g))
    PROVE  Served(g)'
<1>1. Path(g)' = Path(g) /\ OriginPath(g)' = OriginPath(g)
  BY DEF Path, OriginPath
<1>2. \A o : Held(objects, o)' = Held(objects', o')
  BY DEF Held
<1> QED
  BY <1>1, <1>2 DEF Served

\* The request after a step that goes on, as the invariant sees it.
LEMMA GoneOn ==
    ASSUME NEW todo, NEW step, NEW f, NEW c,
           assetRequest' = [op |-> "upload", todo |-> todo, step |-> step, file |-> f,
                            converted |-> c],
           todo = assetRequest.todo
    PROVE  /\ assetRequest'.op = "upload" /\ assetRequest'.step = step
           /\ assetRequest'.converted = c
           /\ Ext' = Ext /\ TheFile' = f /\ ConvertsToPdf(Ext)' = ConvertsToPdf(Ext)
           /\ Content' = IF c = "none" THEN Ext ELSE c
           /\ \A s : Uploading(s)' <=> s = step
BY DEF Ext, TheFile, Content, Uploading, ConvertsToPdf

\* A file that has just been given its row, or been converted.
LEMMA ConvertedKept ==
    ASSUME AssetInv, ConvertedOK,
           \/ BlankIsCreated \/ BlankIsNotStored
           \/ HtmlIsConverted \/ PdfIsConverted \/ DocumentIsConverted
           \/ ImageIsConverted \/ IsNotConverted,
           assetRequest'.op = "upload", assetRequest'.step # "blank"
    PROVE  ConvertedOK' /\ WrittenOK'
<1>1. assetRequest.op = "upload" /\ UploadOK(assetRequest)
  BY RequestIs DEF AssetInv, BlankIsCreated, BlankIsNotStored, HtmlIsConverted,
         PdfIsConverted, DocumentIsConverted, ImageIsConverted, IsNotConverted, ToJpg, Uploading
<1>2. CASE BlankIsCreated \/ BlankIsNotStored
  <2>0. assetRequest' # Idle
    BY DEF Idle
  <2>1. PICK f : assetRequest' = [assetRequest EXCEPT !.step = "convert", !.file = f,
                                                      !.converted = "none"]
    BY <1>2, <2>0 DEF BlankIsCreated, BlankIsNotStored, Aborts
  <2>2. assetRequest' = [op |-> "upload", todo |-> assetRequest.todo, step |-> "convert",
                         file |-> f, converted |-> "none"]
    BY <1>1, <2>1 DEF UploadOK
  <2> QED
    BY <2>2, GoneOn DEF ConvertedOK, WrittenOK
<1>3. CASE HtmlIsConverted \/ PdfIsConverted \/ DocumentIsConverted \/ ImageIsConverted
  <2>1. PICK c \in {"pdf", "jpg"}, step \in {"image", "row"} : Converted(c, step)
    BY <1>3 DEF HtmlIsConverted, PdfIsConverted, DocumentIsConverted, ImageIsConverted
  <2>2. assetRequest' = [op |-> "upload", todo |-> assetRequest.todo, step |-> step,
                         file |-> TheFile, converted |-> c]
    BY <1>1, <2>1, UploadGoes
  <2> QED
    BY <2>2, GoneOn DEF ConvertedOK, WrittenOK
<1>4. CASE IsNotConverted
  <2>1. /\ Goes("row") /\ Uploading("convert")
        /\ ~ConvertsToPdf(Ext) /\ Ext \notin ImageFormats
    BY <1>4 DEF IsNotConverted
  <2>2. assetRequest.converted = "none"
    BY <2>1 DEF ConvertedOK
  <2>3. assetRequest' = [op |-> "upload", todo |-> assetRequest.todo, step |-> "row",
                         file |-> TheFile, converted |-> "none"]
    BY <1>1, <2>1, <2>2, UploadGoes
  <2> QED
    BY <2>1, <2>3, GoneOn DEF ConvertedOK, WrittenOK
<1> QED
  BY <1>2, <1>3, <1>4

\* The row says what is going to be stored, unless it could not be updated.
LEMMA RowKept ==
    ASSUME AssetInv, ConvertedOK, IsInsertedToDatabase \/ RowIsNotUpdated
    PROVE  ConvertedOK' /\ WrittenOK'
<1>0. PICK f, c : f = TheFile /\ c = assetRequest.converted
  OBVIOUS
<1>1. UploadOK(assetRequest) /\ Uploading("row") /\ Goes("store")
  BY RequestIs DEF AssetInv, IsInsertedToDatabase, RowIsNotUpdated, Uploading
<1>2. /\ c \in {"none", "pdf", "jpg"}
      /\ c = "none" => ~ConvertsToPdf(Ext) /\ Ext \notin ImageFormats
  BY <1>0, <1>1 DEF ConvertedOK
<1>3. f \in FileId /\ DOMAIN files = FileId
  BY <1>0, <1>1 DEF AssetInv, UploadOK, Uploading, TheFile, Rows, FilesOK
<1>4. assetRequest' = [op |-> "upload", todo |-> assetRequest.todo, step |-> "store",
                       file |-> f, converted |-> c]
  BY <1>0, <1>1, UploadGoes
<1>5. /\ assetRequest'.op = "upload" /\ assetRequest'.converted = c
      /\ Ext' = Ext /\ TheFile' = f /\ ConvertsToPdf(Ext)' = ConvertsToPdf(Ext)
      /\ Content' = IF c = "none" THEN Ext ELSE c
      /\ \A s : Uploading(s)' <=> s = "store"
  BY <1>4, GoneOn
<1>6. ConvertedOK'
  BY <1>2, <1>5 DEF ConvertedOK
<1>7. CASE IsInsertedToDatabase
  <2>1. /\ c = "none" => files' = [files EXCEPT ![f] = [status |-> "uploading", ext |-> Ext,
                                                        original |-> "none"]]
        /\ c # "none" => files' = [files EXCEPT ![f] = [status |-> "uploading", ext |-> c,
                                                        original |-> Ext]]
    BY <1>0, <1>7 DEF IsInsertedToDatabase, UpdateFile
  <2>2. files'[f].ext = Content' /\ files'[f].original = IF c = "none" THEN "none" ELSE Ext
    BY <1>3, <1>5, <2>1
  <2> QED
    BY <1>5, <1>6, <2>2 DEF WrittenOK
<1>8. CASE RowIsNotUpdated
  <2>1. damaged' = [damaged EXCEPT !.files = @ \cup {f}]
    BY <1>0, <1>8 DEF RowIsNotUpdated
  <2>2. f \in damaged'.files
    BY <2>1 DEF AssetInv, HistoryOK
  <2> QED
    BY <1>5, <1>6, <2>2 DEF WrittenOK
<1> QED
  BY <1>7, <1>8

\* The file is where its row says, and no thumbnail is put in its place.
LEMMA FileKept ==
    ASSUME AssetInv, ConvertedOK, WrittenOK, IsUploadedToStorage \/ ThumbnailFails
    PROVE  ConvertedOK' /\ WrittenOK'
<1>0. PICK f, c, content : f = TheFile /\ c = assetRequest.converted /\ content = Content
  OBVIOUS
<1>1. UploadOK(assetRequest) /\ Uploading("store")
  BY RequestIs DEF AssetInv, IsUploadedToStorage, ThumbnailFails, Uploading
<1>2. /\ files' = files /\ damaged' = damaged
      /\ Goes(IF c = "none" THEN "done" ELSE "origin")
      /\ \/ objects' = MakesThumbnail(f, content, Stored(Path(f), content))
         \/ objects' = Stored(Path(f), content)
  BY <1>0 DEF IsUploadedToStorage, ThumbnailFails, Fine
<1>3. /\ c \in {"none", "pdf", "jpg"}
      /\ c = "none" => ~ConvertsToPdf(Ext) /\ Ext \notin ImageFormats
      /\ content = IF c = "none" THEN Ext ELSE c
  BY <1>0, <1>1 DEF ConvertedOK, Content
<1>4. /\ f \notin damaged.files =>
             /\ files[f].ext = content
             /\ files[f].original = IF c = "none" THEN "none" ELSE Ext
  BY <1>0, <1>1 DEF WrittenOK
<1>5. PICK step : /\ step = IF c = "none" THEN "done" ELSE "origin"
                  /\ assetRequest' = [op |-> "upload", todo |-> assetRequest.todo,
                                      step |-> step, file |-> f, converted |-> c]
  BY <1>0, <1>1, <1>2, UploadGoes
<1>6. /\ assetRequest'.op = "upload" /\ assetRequest'.converted = c
      /\ Ext' = Ext /\ TheFile' = f /\ ConvertsToPdf(Ext)' = ConvertsToPdf(Ext)
      /\ Content' = content
      /\ \A s : Uploading(s)' <=> s = step
  BY <1>3, <1>5, GoneOn
<1>7. ConvertedOK'
  BY <1>3, <1>5, <1>6 DEF ConvertedOK
<1>8. SUFFICES ASSUME f \notin damaged.files
               PROVE  WrittenOK'
  BY <1>2, <1>6, <1>7 DEF WrittenOK
<1>9. Path(f)' = Path(f) /\ Path(f) = <<"files", f, content>>
  BY <1>2, <1>4, <1>8 DEF Path
<1>10. Held(objects', Path(f)) = content
  <2>1. Pictured(content) => Path(f) # Thumb(f)
    <3>1. Pictured(content) => content \in {"pdf", "jpg"}
      BY <1>3 DEF Pictured, ConvertsToPdf
    <3>2. content \in {"pdf", "jpg"} => content # "thumbnail"
      OBVIOUS
    <3> QED
      BY <1>9, <3>1, <3>2 DEF Thumb
  <2> QED
    BY <1>2, <2>1, PutHeld DEF MakesThumbnail, Stored
<1>11. Held(objects, Path(f))' = content
  BY <1>9, <1>10 DEF Held
<1>12. c = "none" => Served(f)'
  BY <1>2, <1>4, <1>8, <1>11 DEF Served
<1> QED
  BY <1>2, <1>4, <1>5, <1>6, <1>8, <1>11, <1>12 DEF WrittenOK

\* And so is its original.
LEMMA OriginalKept ==
    ASSUME AssetInv, ConvertedOK, WrittenOK, IsOriginalUploaded
    PROVE  ConvertedOK' /\ WrittenOK'
<1>0. PICK f, c : f = TheFile /\ c = assetRequest.converted
  OBVIOUS
<1>1. /\ UploadOK(assetRequest) /\ Uploading("origin") /\ files' = files /\ damaged' = damaged
      /\ Goes("done") /\ objects' = Put(objects, OriginPath(f), Ext)
  BY <1>0, RequestIs DEF AssetInv, IsOriginalUploaded, Uploading, Fine, Stored
<1>2. c \in {"pdf", "jpg"}
  BY <1>0, <1>1 DEF ConvertedOK
<1>3. f \notin damaged.files =>
          /\ files[f].ext = c /\ files[f].original = Ext
          /\ Held(objects, Path(f)) = c
  BY <1>0, <1>1, <1>2 DEF WrittenOK, Content
<1>4. assetRequest' = [op |-> "upload", todo |-> assetRequest.todo, step |-> "done",
                       file |-> f, converted |-> c]
  BY <1>0, <1>1, UploadGoes
<1>5. /\ assetRequest'.op = "upload" /\ assetRequest'.converted = c
      /\ Ext' = Ext /\ TheFile' = f /\ ConvertsToPdf(Ext)' = ConvertsToPdf(Ext)
      /\ Content' = IF c = "none" THEN Ext ELSE c
      /\ \A s : Uploading(s)' <=> s = "done"
  BY <1>4, GoneOn
<1>6. ConvertedOK'
  BY <1>2, <1>5 DEF ConvertedOK
<1>7. SUFFICES ASSUME f \notin damaged.files
               PROVE  WrittenOK'
  BY <1>1, <1>5, <1>6 DEF WrittenOK
<1>8. Path(f) # OriginPath(f)
  BY DEF Path, OriginPath
<1>9. Held(objects', Path(f)) = c /\ Held(objects', OriginPath(f)) = Ext
  BY <1>1, <1>3, <1>7, <1>8, PutHeld
<1>10. Path(f)' = Path(f) /\ OriginPath(f)' = OriginPath(f)
  BY <1>1 DEF Path, OriginPath
<1>11. Served(f)'
  BY <1>1, <1>2, <1>3, <1>7, <1>9, <1>10 DEF Served, Held
<1> QED
  BY <1>1, <1>2, <1>3, <1>5, <1>7, <1>11 DEF WrittenOK

\* A step of an upload: the files of the others are left alone, and the one that
\* is uploaded has been written whole.
LEMMA UploadServed ==
    ASSUME AssetInv, ServedInv, NEW f \in FileId, UploadsFile(f), GoesOn(f) \/ IsOver(f),
           GoesOn(f) => ConvertedOK' /\ WrittenOK'
    PROVE  ServedInv'
<1>1. ConvertedOK' /\ WrittenOK'
  <2>1. CASE GoesOn(f)
    BY <2>1
  <2>2. CASE IsOver(f)
    <3>1. assetRequest'.op # "upload" \/ assetRequest'.step = "blank"
      BY <2>2 DEF IsOver, Idle
    <3> QED
      BY <3>1, NothingUploaded
  <2> QED
    BY <2>1, <2>2
<1> SUFFICES ASSUME NEW g \in Rows', g \notin damaged'.files, files'[g].status = "uploaded"
             PROVE  Served(g)'
  BY <1>1 DEF ServedInv
<1>2. g \in FileId /\ g \notin damaged.files
  BY DEF Rows, UploadsFile
<1>3. CASE g # f
  <2>1. g \in Rows /\ files'[g] = files[g] /\ ~Going(g)
    BY <1>2, <1>3 DEF UploadsFile, Going, Deleting
  <2>2. Served(g)
    BY <1>2, <2>1 DEF ServedInv
  <2>3. Path(g)[2] # f /\ OriginPath(g)[2] # f
    BY <1>3 DEF Path, OriginPath
  <2>4. /\ Held(objects', Path(g)) = Held(objects, Path(g))
        /\ Held(objects', OriginPath(g)) = Held(objects, OriginPath(g))
    BY <2>3 DEF UploadsFile
  <2> QED
    BY <2>1, <2>2, <2>4, ServedStays
<1>4. CASE g = f
  <2>1. /\ Uploading("done") /\ TheFile = f /\ objects' = objects
        /\ files'[f].ext = files[f].ext /\ files'[f].original = files[f].original
    BY <1>4 DEF GoesOn, IsOver
  <2>2. Served(f)
    BY <1>2, <1>4, <2>1 DEF ServedInv, WrittenOK
  <2>3. Path(f)' = Path(f) /\ OriginPath(f)' = OriginPath(f)
    BY <2>1 DEF Path, OriginPath
  <2>4. Served(f)'
    BY <2>1, <2>2, <2>3 DEF Served, Held
  <2> QED
    BY <1>4, <2>4
<1> QED
  BY <1>3, <1>4

\* The steps of an upload that go on or end.
LEMMA UploadStepServed ==
    ASSUME AssetInv, ServedInv,
           \/ NoExtension \/ BlankIsCreated \/ BlankIsNotStored \/ BlankFails
           \/ HtmlIsConverted \/ PdfIsConverted \/ DocumentIsConverted
           \/ ImageIsConverted \/ IsNotConverted
           \/ HtmlConversionFails \/ DocumentConversionFails
           \/ ImageConversionFails \/ TokensFail
           \/ IsInsertedToDatabase \/ RowIsNotUpdated
           \/ IsUploadedToStorage \/ ThumbnailFails \/ StorageFails
           \/ IsOriginalUploaded \/ OriginalFails \/ IsFileUpdated \/ FileIsNotUpdated
    PROVE  PassesOver \/ ServedInv'
<1>1. UploadOK(assetRequest) /\ ConvertedOK /\ WrittenOK
  BY RequestIs DEF AssetInv, ServedInv, NoExtension, BlankIsCreated, BlankIsNotStored,
         BlankFails, HtmlIsConverted, PdfIsConverted, DocumentIsConverted, ImageIsConverted,
         IsNotConverted, HtmlConversionFails, DocumentConversionFails, ImageConversionFails,
         TokensFail, IsInsertedToDatabase, RowIsNotUpdated, IsUploadedToStorage,
         ThumbnailFails, StorageFails, IsOriginalUploaded, OriginalFails, IsFileUpdated,
         FileIsNotUpdated, ToJpg, Uploading
<1>2. PassesOver \/ \E f \in FileId : UploadsFile(f) /\ (GoesOn(f) \/ IsOver(f))
  BY BlankStep, ConvertStep, RowStep, StoreStep
<1>3. ASSUME NextFile \/ Aborts
      PROVE  ~(assetRequest'.op = "upload" /\ assetRequest'.step # "blank")
  BY <1>1, <1>3, RequestIsOver DEF Idle
<1>4. ASSUME assetRequest'.op = "upload" /\ assetRequest'.step # "blank"
      PROVE  ConvertedOK' /\ WrittenOK'
  <2>1. ~NextFile /\ ~Aborts
    BY <1>3, <1>4
  <2>2. \/ BlankIsCreated \/ BlankIsNotStored
        \/ HtmlIsConverted \/ PdfIsConverted \/ DocumentIsConverted
        \/ ImageIsConverted \/ IsNotConverted
        \/ IsInsertedToDatabase \/ RowIsNotUpdated
        \/ IsUploadedToStorage \/ ThumbnailFails \/ IsOriginalUploaded
    BY <2>1 DEF NoExtension, BlankFails, HtmlConversionFails, DocumentConversionFails,
           ImageConversionFails, IsNoConvertedFile, TokensFail, StorageFails, OriginalFails,
           IsFileUpdated, FileIsNotUpdated
  <2> QED
    BY <1>1, <1>4, <2>2, ConvertedKept, RowKept, FileKept, OriginalKept
<1>5. ASSUME NEW f \in FileId, UploadsFile(f), GoesOn(f) \/ IsOver(f)
      PROVE  ServedInv'
  <2>1. GoesOn(f) => ConvertedOK' /\ WrittenOK'
    BY <1>4 DEF GoesOn
  <2> QED
    BY <1>5, <2>1, UploadServed
<1> QED
  BY <1>2, <1>5

\* A step of another request: what has to be known of the files that stay.
LEMMA OthersServed ==
    ASSUME ServedInv, assetRequest'.op # "upload" \/ assetRequest'.step = "blank",
           \A g \in Rows' \ damaged'.files : files'[g].status = "uploaded" /\ ~Going(g)' =>
               /\ g \in Rows /\ g \notin damaged.files /\ files'[g] = files[g] /\ ~Going(g)
               /\ Held(objects', Path(g)) = Held(objects, Path(g))
               /\ Held(objects', OriginPath(g)) = Held(objects, OriginPath(g))
    PROVE  ServedInv'
<1> SUFFICES ASSUME NEW g \in Rows' \ damaged'.files,
                    files'[g].status = "uploaded", ~Going(g)'
             PROVE  Served(g)'
  BY NothingUploaded DEF ServedInv
<1>1. Served(g)
  BY DEF ServedInv
<1> QED
  BY <1>1, ServedStays

\* What is answered of a file adds at most a thumbnail or a piece that is not there.
LEMMA AnsweredServed ==
    ASSUME AssetInv, ServedInv, NEW f \in FileId, Answered(f)
    PROVE  ServedInv'
<1>1. /\ assetRequest = Idle /\ assetRequest' = Idle /\ Rows' = Rows /\ damaged' = damaged
      /\ \A g \in FileId \ {f} : files'[g] = files[g]
      /\ files' = files \/ files'[f].status # "uploaded"
  BY FileAnswered
<1>2. ASSUME NEW g \in FileId
      PROVE  /\ Held(objects', Path(g)) = Held(objects, Path(g))
             /\ Held(objects', OriginPath(g)) = Held(objects, OriginPath(g))
  <2>1. CASE \E status \in {"preprocessing in progress", "preprocessed", "failed"} :
                 PutStatus(f, status)
    <3>1. objects' = objects
      BY <2>1 DEF PutStatus
    <3> QED
      BY <3>1
  <2>2. CASE GetPreview(f)
    <3>1. /\ objects' = Put(objects, Thumb(f), "jpg")
          /\ Thumb(f) \notin DOMAIN objects /\ Path(f) \in DOMAIN objects
      BY <2>2 DEF GetPreview, Stored
    <3>2. Path(g) # Thumb(f) /\ OriginPath(g) # Thumb(f)
      BY <3>1 DEF Path, OriginPath, Thumb
    <3> QED
      BY <3>1, <3>2, PutHeld
  <2>3. CASE GetImagePiece(f)
    <3>1. objects' = Put(objects, Piece(f), "jpg")
      BY <2>3 DEF GetImagePiece, Stored
    <3>2. Path(g) # Piece(f) /\ OriginPath(g) # Piece(f)
      BY DEF Path, OriginPath, Piece
    <3> QED
      BY <3>1, <3>2, PutHeld
  <2> QED
    BY <2>1, <2>2, <2>3 DEF Answered
<1>3. \A g \in Rows' : g \in FileId /\ g \in Rows /\ ~Going(g)
                       /\ (files'[g].status = "uploaded" => files'[g] = files[g])
  BY <1>1 DEF Rows, Going, Deleting, Idle
<1>4. assetRequest'.op # "upload"
  BY <1>1 DEF Idle
<1> QED
  BY <1>1, <1>2, <1>3, <1>4, OthersServed

\* The objects of a file go, and those of its neighbours: these are damaged.
LEMMA DeletedServed ==
    ASSUME AssetInv, ServedInv,
           NothingToDelete \/ DeleteFromMinio \/ MinioDoesNotDelete \/ DecreaseCount
    PROVE  ServedInv'
<1>1. /\ files' = files /\ Rows' = Rows /\ DeleteOK(assetRequest)
      /\ assetRequest'.op # "upload" /\ damaged.files \subseteq damaged'.files
  BY ObjectsStep DEF Rows
<1>2. CASE NothingToDelete
  <2>1. objects' = objects /\ \A g : ~Going(g)
    BY <1>2 DEF NothingToDelete, Going, Deleting
  <2> QED
    BY <1>1, <2>1, OthersServed
<1>3. CASE MinioDoesNotDelete
  <2>1. objects' = objects /\ \A g : ~Going(g)
    BY <1>3 DEF MinioDoesNotDelete, Going, Deleting
  <2> QED
    BY <1>1, <2>1, OthersServed
<1>4. CASE DecreaseCount
  <2>1. objects' = objects /\ Goes("row")
    BY <1>4 DEF DecreaseCount, Fine
  <2>2. assetRequest' = [op |-> "delete", todo |-> assetRequest.todo, step |-> "row"]
    BY <1>1, <2>1, DeleteGoes
  <2>3. \A g : Going(g) => Going(g)'
    BY <2>2 DEF Going, Deleting, Deleted
  <2> QED
    BY <1>1, <2>1, <2>3, OthersServed
<1>5. CASE DeleteFromMinio
  <2>1. PICK gone :
            /\ Deleting("objects") /\ Goes("counts")
            /\ objects' = [n \in DOMAIN objects \ gone |-> objects[n]]
            /\ damaged' = [damaged EXCEPT !.files = @ \cup ({n[2] : n \in gone} \ {Deleted})]
    BY <1>5 DEF DeleteFromMinio
  <2>2. \A n \in gone : n[2] = Deleted \/ n[2] \in damaged'.files
    <3>1. PICK hit : hit = {n[2] : n \in gone} \ {Deleted}
      OBVIOUS
    <3>2. damaged' = [files |-> damaged.files \cup hit, datasets |-> damaged.datasets]
      BY <2>1, <3>1 DEF AssetInv, HistoryOK
    <3> QED
      BY <3>1, <3>2
  <2>3. assetRequest' = [op |-> "delete", todo |-> assetRequest.todo, step |-> "counts"]
    BY <1>1, <2>1, DeleteGoes
  <2>4. Going(Deleted)' /\ \A g : ~Going(g)
    BY <2>1, <2>3 DEF Going, Deleting, Deleted
  <2>5. ASSUME NEW g, g \notin damaged'.files, g # Deleted
        PROVE  /\ Held(objects', Path(g)) = Held(objects, Path(g))
               /\ Held(objects', OriginPath(g)) = Held(objects, OriginPath(g))
    <3>1. Path(g)[2] = g /\ OriginPath(g)[2] = g
      BY DEF Path, OriginPath
    <3>2. Path(g) \notin gone /\ OriginPath(g) \notin gone
      BY <2>2, <2>5, <3>1
    <3> QED
      BY <2>1, <3>2 DEF Held
  <2>6. \A g : ~Going(g)' => g # Deleted
    BY <2>3 DEF Going, Deleting, Deleted
  <2> QED
    BY <1>1, <2>4, <2>5, <2>6, OthersServed
<1> QED
  BY <1>2, <1>3, <1>4, <1>5

\* Every step serves what is said to be uploaded.
LEMMA ServedNext == AssetInv /\ ServedInv /\ [NextAssets]_assetsVars => ServedInv'
<1> SUFFICES ASSUME AssetInv, ServedInv, [NextAssets]_assetsVars PROVE ServedInv'
  OBVIOUS
<1>1. ASSUME files' = files, objects' = objects, Rows' = Rows,
             damaged.files \subseteq damaged'.files,
             assetRequest'.op # "upload" \/ assetRequest'.step = "blank",
             \A g : Going(g) => g \in damaged'.files
      PROVE  ServedInv'
  BY <1>1, OthersServed
<1>2. ASSUME PassesOver \/ RequestBegins
      PROVE  ServedInv'
  <2>1. \A g : ~Going(g)
    BY <1>2 DEF PassesOver, RequestBegins, Uploading, Going, Deleting, Idle
  <2>2. assetRequest'.op # "upload" \/ assetRequest'.step = "blank"
    BY <1>2 DEF PassesOver, RequestBegins, Idle
  <2> QED
    BY <1>1, <1>2, <2>1, <2>2 DEF PassesOver, RequestBegins, Rows
<1>3. ASSUME DeleteRow
      PROVE  ServedInv'
  <2>1. /\ Rows' = Rows \ {Deleted} /\ objects' = objects /\ damaged' = damaged
        /\ \A g \in FileId \ {Deleted} : files'[g] = files[g]
        /\ assetRequest'.op # "upload"
    BY <1>3, RowGoes DEF Idle
  <2>2. \A g \in Rows' : g \in Rows /\ files'[g] = files[g] /\ ~Going(g)
    BY <2>1 DEF Rows, Going
  <2> QED
    BY <2>1, <2>2, OthersServed
<1>4. ASSUME NEW d \in DatasetName, NEW ids \in SUBSET FileId,
             CreateDataset(d) \/ DeleteDataset(d) \/ BoundFiles(ids, d) \/ UnboundFiles(ids, d)
      PROVE  ServedInv'
  <2>1. /\ files' = files /\ objects' = objects /\ Rows' = Rows
        /\ damaged'.files = damaged.files /\ assetRequest = Idle /\ assetRequest' = Idle
    BY <1>4, DatasetStep
  <2>2. assetRequest'.op # "upload" /\ \A g : ~Going(g)
    BY <2>1 DEF Going, Deleting, Idle
  <2> QED
    BY <1>1, <2>1, <2>2
<1>5. ASSUME CrashAssets
      PROVE  ServedInv'
  <2>1. /\ files' = files /\ objects' = objects /\ assetRequest' = Idle
        /\ damaged'.files = damaged.files
               \cup (IF Deleting("counts") \/ Deleting("row") THEN {Deleted} ELSE {})
    BY <1>5, CrashStep
  <2>2. Rows' = Rows /\ assetRequest'.op # "upload"
    BY <2>1 DEF Rows, Idle
  <2>3. \A g : Going(g) => g \in damaged'.files
    BY <2>1 DEF Going
  <2> QED
    BY <1>1, <2>1, <2>2, <2>3
<1>6. ASSUME CreateBucket \/ UploadFiles \/ DownloadS3Files \/ DeleteFiles
      PROVE  ServedInv'
  BY <1>2, <1>6, BeginStep
<1>7. ASSUME \E f \in FileId : Answered(f)
      PROVE  ServedInv'
  BY <1>7, AnsweredServed
<1>8. ASSUME NothingToDelete \/ DeleteFromMinio \/ MinioDoesNotDelete \/ DecreaseCount
      PROVE  ServedInv'
  BY <1>8, DeletedServed
<1>9. ASSUME UNCHANGED assetsVars
      PROVE  ServedInv'
  BY <1>9, AssetsRest
<1> QED
  BY <1>2, <1>3, <1>4, <1>5, <1>6, <1>7, <1>8, <1>9, AssetSteps, UploadStepServed

\* A file that is said to be uploaded is served in the format its row gives,
\* and in its original one when it was converted, whatever is uploaded and
\* deleted next to it, unless a delete of it was cut short, one of a file whose
\* number begins its own was made, or its row could not be updated
\* (FileProcessor.run, delete_file_from_minio, stream_minio).
THEOREM UploadedAreServed == AssetsSpec => []UploadedIsServed
<1>1. InitAssets => AssetInv /\ ServedInv
  BY AssetInit
<1>2. AssetInv /\ ServedInv => UploadedIsServed
  <2> SUFFICES ASSUME AssetInv, ServedInv, NEW f \in Rows \ damaged.files,
                      files[f].status = "uploaded", ~(assetRequest.op = "delete" /\ Deleted = f)
               PROVE  /\ GetFromMinio(f, FALSE) = files[f].ext
                      /\ files[f].original # "none" => GetFromMinio(f, TRUE) = files[f].original
    BY DEF UploadedIsServed
  <2>1. Served(f)
    BY DEF ServedInv, Going, Deleting
  <2>2. \A o : Streamed(o) = Held(objects, o)
    BY DEF Streamed, Held
  <2>3. {"pdf", "jpg"} \cap {"404"} = {}
    OBVIOUS
  <2> QED
    BY <2>1, <2>2, <2>3 DEF GetFromMinio, Served
<1>3. AssetInv /\ ServedInv /\ [NextAssets]_assetsVars => (AssetInv /\ ServedInv)'
  BY AssetNext, ServedNext
<1> QED
  BY <1>1, <1>2, <1>3, PTL DEF AssetsSpec

=============================================================================
