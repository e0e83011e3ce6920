-------------------------------- MODULE Assets --------------------------------
(***************************************************************************)
(* Files, datasets and the bonds between them (assets/assets): rows in a   *)
(* database and objects in one bucket of a storage, which no transaction   *)
(* joins.  The handlers are coroutines that never await, of one process:   *)
(* a request runs to its end before the next one starts, unless the        *)
(* process dies or a call fails on the way.  An extension stands for the   *)
(* format of what the object holds; rows in a database are numbered by it. *)
(***************************************************************************)
EXTENDS Naturals, Sequences, FiniteSets, SequencesExt

CONSTANTS
    FileId,            \* the numbers of the files to come
    DatasetName,
    GotenbergFormats,  \* extensions that become pdf (settings.gotenberg_formats)
    ImageFormats,      \* extensions that become jpg (settings.image_formats)
    Uploads,           \* sequences of extensions a form brings, "" for none
    Imports,           \* sequences of keys, and so of extensions, to take from S3
    S3Keys,            \* the keys there
    UploadingLimit,    \* settings.uploading_limit
    AssetFaults,       \* which faults happen: "storage", "convert", "database", "crash"
    MaxAssetFaults     \* bound on how many do

VARIABLES
    files,        \* rows of files: number to [status, ext, original], or NoFile
    lastId,       \* the last number given
    datasets,     \* count of each dataset that has a row
    bonds,        \* rows of association: <<dataset, file>>
    bucket,       \* whether the bucket of the tenant has been made
    objects,      \* name <<folder, file, what>> of an object to its format
    assetRequest, \* the request under way
    damaged,      \* history: files and datasets a fault or a neighbour has hit
    assetFaults   \* number of faults so far

assetsVars == <<files, lastId, datasets, bonds, bucket, objects, assetRequest,
                damaged, assetFaults>>

NoFile == [status |-> "none", ext |-> "", original |-> ""]
Rows == {f \in FileId : files[f] # NoFile}
Idle == [op |-> "none"]

Path(f) == <<"files", f, files[f].ext>>
OriginPath(f) == <<"origins", f, files[f].original>>
Thumb(f) == <<"files", f, "thumbnail">>
Piece(f) == <<"bbox", f, "piece">>
Tokens(f) == <<"files", f, "tokens">>

\* h with the value at name, in place of the one it has there.
Put(h, name, value) ==
    [n \in DOMAIN h \cup {name} |-> IF n = name THEN value ELSE h[n]]

Stored(name, format) == Put(objects, name, format)

\* The number of one file begins with that of another: 1 and 12.
Begins(f, g) == \E k \in 0 .. 9 : g \div (10 ^ k) = f

\* The names list_objects finds under the prefix <folder>/<number>, which ends
\* in no slash.
Listed(folder, f) == {n \in DOMAIN objects : n[1] = folder /\ Begins(f, n[2])}

\* Formats a thumbnail can be made of.
Pictured(format) == format \in {"pdf", "jpg"} \cup ImageFormats

\* upload_in_minio puts the thumbnail, if there can be one, before the file.
MakesThumbnail(f, format, stored) ==
    IF Pictured(format) THEN Put(stored, Thumb(f), "jpg") ELSE stored

ConvertsToPdf(ext) == ext \in {"html", "pdf"} \cup GotenbergFormats

-----------------------------------------------------------------------------
(* The pipeline of one file: FileProcessor.run *)

Uploading(step) == assetRequest.op = "upload" /\ assetRequest.step = step
Ext == Head(assetRequest.todo)
TheFile == assetRequest.file

\* On to the next file of the request, or to its answer.
NextFile ==
    assetRequest' = IF Len(assetRequest.todo) = 1 THEN Idle
                    ELSE [assetRequest EXCEPT !.todo = Tail(@), !.step = "blank"]

Goes(step) == assetRequest' = [assetRequest EXCEPT !.step = step]

\* The exception no one handles: the files that are left are not looked at.
Aborts == assetRequest' = Idle

AssetFault(kind) ==
    /\ kind \in AssetFaults /\ assetFaults < MaxAssetFaults
    /\ assetFaults' = assetFaults + 1

Fine == UNCHANGED <<damaged, assetFaults>>
OnlyFiles == UNCHANGED <<lastId, datasets, bonds, bucket>>

NoExtension ==
    /\ Uploading("blank") /\ Ext = ""
    /\ NextFile
    /\ Fine /\ OnlyFiles /\ UNCHANGED <<files, objects>>

InsertFile(ext) ==
    \E f \in FileId :
        /\ f > lastId /\ \A g \in FileId : g > lastId => f <= g
        /\ lastId' = f
        /\ files' = [files EXCEPT ![f] = [status |-> "uploading", ext |-> ext,
                                          original |-> ""]]
        /\ UNCHANGED <<datasets, bonds, bucket>>

\* The row is committed, then the file stored as it came, with a thumbnail.
BlankIsCreated ==
    LET f == lastId'
        file == Stored(<<"files", f, Ext>>, Ext)
    IN  /\ Uploading("blank") /\ Ext # ""
        /\ InsertFile(Ext)
        /\ objects' = MakesThumbnail(f, Ext, file)
        /\ assetRequest' = [assetRequest EXCEPT !.step = "convert", !.file = f,
                                                !.converted = "none"]
        /\ Fine

\* The storage does not answer: that goes unnoticed, but for a text or a page.
BlankIsNotStored ==
    /\ Uploading("blank") /\ Ext # ""
    /\ AssetFault("storage")
    /\ InsertFile(Ext)
    /\ IF Ext \in {"txt", "html"} THEN Aborts
       ELSE assetRequest' = [assetRequest EXCEPT !.step = "convert", !.file = lastId',
                                                 !.converted = "none"]
    /\ UNCHANGED <<objects, damaged>>

BlankFails ==
    /\ Uploading("blank") /\ Ext # ""
    /\ AssetFault("database")
    /\ Aborts
    /\ OnlyFiles /\ UNCHANGED <<files, objects, damaged>>

\* post_pdf_to_convert asks for the tokens of a pdf that is stored; that the
\* service cannot be reached goes unnoticed.
AsksForTokens ==
    \/ /\ objects' = Put(Stored(<<"files", TheFile, "pdf">>, "pdf"), Tokens(TheFile), "json")
       /\ Fine
    \/ /\ AssetFault("convert")
       /\ objects' = Stored(<<"files", TheFile, "pdf">>, "pdf")
       /\ UNCHANGED damaged

Converted(format, step) ==
    assetRequest' = [assetRequest EXCEPT !.step = step, !.converted = format]

HtmlIsConverted ==
    /\ Uploading("convert") /\ Ext = "html"
    /\ AsksForTokens /\ Converted("pdf", "row")
    /\ OnlyFiles /\ UNCHANGED files

PdfIsConverted ==
    /\ Uploading("convert") /\ Ext = "pdf"
    /\ AsksForTokens /\ Converted("pdf", "row")
    /\ OnlyFiles /\ UNCHANGED files

\* An image that is a document too is converted again.
DocumentIsConverted ==
    /\ Uploading("convert") /\ Ext \in GotenbergFormats
    /\ AsksForTokens /\ Converted("pdf", IF Ext \in ImageFormats THEN "image" ELSE "row")
    /\ OnlyFiles /\ UNCHANGED files

ToJpg ==
    \/ Uploading("convert") /\ ~ConvertsToPdf(Ext) /\ Ext \in ImageFormats
    \/ Uploading("image")

ImageIsConverted ==
    /\ ToJpg
    /\ Converted("jpg", "row")
    /\ Fine /\ OnlyFiles /\ UNCHANGED <<files, objects>>

IsNotConverted ==
    /\ Uploading("convert") /\ ~ConvertsToPdf(Ext) /\ Ext \notin ImageFormats
    /\ Goes("row")
    /\ Fine /\ OnlyFiles /\ UNCHANGED <<files, objects>>

\* The conversion error is answered, and the row stays as it is.
IsNoConvertedFile ==
    /\ AssetFault("convert")
    /\ NextFile
    /\ OnlyFiles /\ UNCHANGED <<files, objects, damaged>>

\* Gotenberg is down, or what it gives is no pdf.
HtmlConversionFails == Uploading("convert") /\ Ext = "html" /\ IsNoConvertedFile

DocumentConversionFails ==
    Uploading("convert") /\ Ext \in GotenbergFormats /\ IsNoConvertedFile

\* There is no image in the file.
ImageConversionFails == ToJpg /\ IsNoConvertedFile

\* The convert service refuses the pdf: UploadError, after the pdf is stored.
TokensFail ==
    /\ Uploading("convert") /\ ConvertsToPdf(Ext)
    /\ AssetFault("convert")
    /\ objects' = Stored(<<"files", TheFile, "pdf">>, "pdf")
    /\ Aborts
    /\ OnlyFiles /\ UNCHANGED <<files, damaged>>

UpdateFile(ext, original) ==
    files' = [files EXCEPT ![TheFile] = [status |-> "uploading", ext |-> ext,
                                         original |-> original]]

IsInsertedToDatabase ==
    /\ Uploading("row")
    /\ IF assetRequest.converted = "none" THEN UpdateFile(Ext, "none")
       ELSE UpdateFile(assetRequest.converted, Ext)
    /\ Goes("store")
    /\ Fine /\ OnlyFiles /\ UNCHANGED objects

\* The row is not updated; what is looked at is the row from before, so that
\* the work goes on and stores the new format under the old extension.
RowIsNotUpdated ==
    /\ Uploading("row")
    /\ AssetFault("database")
    /\ damaged' = [damaged EXCEPT !.files = @ \cup {TheFile}]
    /\ Goes("store")
    /\ OnlyFiles /\ UNCHANGED <<files, objects>>

Content == IF assetRequest.converted = "none" THEN Ext ELSE assetRequest.converted

IsUploadedToStorage ==
    LET file == Stored(Path(TheFile), Content)
    IN  /\ Uploading("store")
        /\ objects' = MakesThumbnail(TheFile, Content, file)
        /\ Goes(IF assetRequest.converted = "none" THEN "done" ELSE "origin")
        /\ Fine /\ OnlyFiles /\ UNCHANGED files

\* That the thumbnail is not put goes unnoticed.
ThumbnailFails ==
    /\ Uploading("store") /\ Pictured(Content)
    /\ AssetFault("storage")
    /\ objects' = Stored(Path(TheFile), Content)
    /\ Goes(IF assetRequest.converted = "none" THEN "done" ELSE "origin")
    /\ OnlyFiles /\ UNCHANGED <<files, damaged>>

SetFileStatus(f, status) == files' = [files EXCEPT ![f].status = status]

StorageFails ==
    /\ Uploading("store")
    /\ AssetFault("storage")
    /\ SetFileStatus(TheFile, "failed")
    /\ NextFile
    /\ OnlyFiles /\ UNCHANGED <<objects, damaged>>

IsOriginalUploaded_Skipped ==
    /\ Uploading("origin")
    /\ Goes("done")
    /\ Fine /\ OnlyFiles /\ UNCHANGED <<files, objects>>

IsOriginalUploaded ==
    /\ Uploading("origin")
    /\ objects' = Stored(OriginPath(TheFile), Ext)
    /\ Goes("done")
    /\ Fine /\ OnlyFiles /\ UNCHANGED files

\* The answer says the file is there; its row never says so.
OriginalFails ==
    /\ Uploading("origin")
    /\ AssetFault("storage")
    /\ NextFile
    /\ OnlyFiles /\ UNCHANGED <<files, objects, damaged>>

IsFileUpdated ==
    /\ Uploading("done")
    /\ SetFileStatus(TheFile, "uploaded")
    /\ NextFile
    /\ Fine /\ OnlyFiles /\ UNCHANGED objects

FileIsNotUpdated ==
    /\ Uploading("done")
    /\ AssetFault("database")
    /\ NextFile
    /\ OnlyFiles /\ UNCHANGED <<files, objects, damaged>>

-----------------------------------------------------------------------------
(* POST /bucket, POST /files and POST /s3_upload *)

CreateBucket ==
    /\ assetRequest = Idle /\ ~bucket
    /\ bucket' = TRUE
    /\ UNCHANGED <<files, lastId, datasets, bonds, objects, assetRequest,
                   damaged, assetFaults>>

CheckBucket == bucket

BeginsAssets(request) ==
    /\ assetRequest = Idle /\ CheckBucket
    /\ assetRequest' = request
    /\ UNCHANGED <<files, lastId, datasets, bonds, bucket, objects, damaged,
                   assetFaults>>

Processed(exts) == [op |-> "upload", todo |-> exts, step |-> "blank", file |-> 0,
                    converted |-> "none"]

\* A form has no limit.
UploadFiles == \E exts \in Uploads : BeginsAssets(Processed(exts))

CheckUploadingLimit(keys) == Len(keys) <= UploadingLimit

\* All keys have to be there, in the one page list_objects gives.
CheckS3(keys) == ToSet(keys) \subseteq S3Keys

\* get_files: a key that is asked for twice is downloaded once.
GetFiles(keys) ==
    FoldLeft(LAMBDA found, k : IF Contains(found, k) THEN found ELSE Append(found, k),
             <<>>, keys)

DownloadS3Files ==
    \E keys \in Imports :
        /\ CheckUploadingLimit(keys) /\ CheckS3(keys)
        /\ BeginsAssets(Processed(GetFiles(keys)))

-----------------------------------------------------------------------------
(* DELETE /files, one file after the other, and PUT /files *)

Deleting(step) == assetRequest.op = "delete" /\ assetRequest.step = step
Deleted == Head(assetRequest.todo)

DeleteFiles ==
    \E ids \in SetToSeqs(FileId) \cup {<<f>> : f \in FileId} :
        BeginsAssets([op |-> "delete", todo |-> ids, step |-> "objects"])

NextDeleted ==
    assetRequest' = IF Len(assetRequest.todo) = 1 THEN Idle
                    ELSE [assetRequest EXCEPT !.todo = Tail(@), !.step = "objects"]

NothingToDelete ==
    /\ Deleting("objects") /\ Deleted \notin Rows
    /\ NextDeleted
    /\ Fine /\ OnlyFiles /\ UNCHANGED <<files, objects>>

\* The objects of the file and, when it was converted, its original; those of
\* the files whose number begins with its number go with them.
DeleteFromMinio ==
    LET origins == IF files[Deleted].original \in {"", "none"} THEN {}
                   ELSE Listed("origins", Deleted)
        gone == Listed("files", Deleted) \cup origins
    IN  /\ Deleting("objects") /\ Deleted \in Rows
        /\ objects' = [n \in DOMAIN objects \ gone |-> objects[n]]
        /\ damaged' = [damaged EXCEPT !.files = @ \cup ({n[2] : n \in gone} \ {Deleted})]
        /\ Goes("counts")
        /\ OnlyFiles /\ UNCHANGED <<files, assetFaults>>

\* The row goes even so.
MinioDoesNotDelete ==
    /\ Deleting("objects") /\ Deleted \in Rows
    /\ AssetFault("storage")
    /\ Goes("counts")
    /\ OnlyFiles /\ UNCHANGED <<files, objects, damaged>>

DatasetsOf(f) == {d \in DatasetName : <<d, f>> \in bonds}

\* A commit of its own, which ends the lock on the row of the file.
DecreaseCount ==
    LET ds == DatasetsOf(Deleted)
    IN  /\ Deleting("counts")
        /\ datasets' = [d \in DOMAIN datasets |->
                            IF d \in ds THEN datasets[d] - 1 ELSE datasets[d]]
        /\ Goes("row")
        /\ Fine /\ UNCHANGED <<files, lastId, bonds, bucket, objects>>

DeleteRow ==
    /\ Deleting("row")
    /\ files' = [files EXCEPT ![Deleted] = NoFile]
    /\ bonds' = {b \in bonds : b[2] # Deleted}
    /\ NextDeleted
    /\ Fine /\ UNCHANGED <<lastId, datasets, bucket, objects>>

\* What preprocessing says of a file.
PutStatus(f, status) ==
    /\ assetRequest = Idle /\ f \in Rows
    /\ SetFileStatus(f, status)
    /\ Fine /\ OnlyFiles /\ UNCHANGED <<objects, assetRequest>>

-----------------------------------------------------------------------------
(* Datasets and bonds: /datasets and /datasets/bonds *)

\* InsertDataset and its answer: a name that exists is refused.
CreateDataset(d) ==
    /\ assetRequest = Idle /\ d \notin DOMAIN datasets
    /\ datasets' = Put(datasets, d, 0)
    /\ Fine /\ UNCHANGED <<files, lastId, bonds, bucket, objects, assetRequest>>

\* The bonds of a dataset go with its row.
DeleteDataset(d) ==
    /\ assetRequest = Idle /\ d \in DOMAIN datasets
    /\ datasets' = [e \in DOMAIN datasets \ {d} |-> datasets[e]]
    /\ bonds' = {b \in bonds : b[1] # d}
    /\ damaged' = [damaged EXCEPT !.datasets = @ \ {d}]
    /\ UNCHANGED <<files, lastId, bucket, objects, assetRequest, assetFaults>>

IsBounded(f, d) == <<d, f>> \in bonds

\* add_dataset_to_file of each file that is there and not yet bound.
BoundFiles_Again(ids, d) ==
    /\ assetRequest = Idle /\ d \in DOMAIN datasets
    /\ bonds' = bonds \cup {<<d, f>> : f \in ids \cap Rows}
    /\ datasets' = [datasets EXCEPT ![d] = @ + Cardinality(ids \cap Rows)]
    /\ Fine /\ UNCHANGED <<files, lastId, bucket, objects, assetRequest>>

BoundFiles(ids, d) ==
    LET new == {f \in ids \cap Rows : ~IsBounded(f, d)}
    IN  /\ assetRequest = Idle /\ d \in DOMAIN datasets
        /\ bonds' = bonds \cup {<<d, f>> : f \in new}
        /\ datasets' = [datasets EXCEPT ![d] = @ + Cardinality(new)]
        /\ Fine /\ UNCHANGED <<files, lastId, bucket, objects, assetRequest>>

\* remove_dataset_from_file of each file that is bound.
UnboundFiles(ids, d) ==
    LET old == {f \in ids \cap Rows : IsBounded(f, d)}
    IN  /\ assetRequest = Idle /\ d \in DOMAIN datasets
        /\ bonds' = bonds \ {<<d, f>> : f \in old}
        /\ datasets' = [datasets EXCEPT ![d] = @ - Cardinality(old)]
        /\ Fine /\ UNCHANGED <<files, lastId, bucket, objects, assetRequest>>

\* The files of a dataset as the two lists of them and the list of bonds show
\* them: by name, which has to exist, by number, which has not, and as pairs.
NoDataset == {"404"}

FilesInDataset(d) == {f \in Rows : IsBounded(f, d)}

GetFilesByDataset(d) == IF d \in DOMAIN datasets THEN FilesInDataset(d) ELSE NoDataset

SearchBonds == {b \in bonds : b[1] \in DOMAIN datasets /\ b[2] \in Rows}

-----------------------------------------------------------------------------
(* GET /download, /download/thumbnail and /download/piece *)

\* The format that is streamed, or why nothing is.  The converted file is asked
\* for first, also by who wants the original.
Streamed(name) == IF name \in DOMAIN objects THEN objects[name] ELSE "404"

GetFromMinio(f, original) ==
    IF f \notin Rows THEN "404"
    ELSE IF Streamed(Path(f)) = "404" \/ ~original THEN Streamed(Path(f))
    ELSE Streamed(OriginPath(f))

\* A thumbnail that is not there is made from the file, if the file is.
GetPreview(f) ==
    /\ assetRequest = Idle /\ f \in Rows
    /\ Thumb(f) \notin DOMAIN objects
    /\ Path(f) \in DOMAIN objects /\ Pictured(objects[Path(f)])
    /\ objects' = Stored(Thumb(f), "jpg")
    /\ Fine /\ OnlyFiles /\ UNCHANGED <<files, assetRequest>>

\* A piece of a page is cut once and kept, for longer than its file.
GetImagePiece(f) ==
    /\ assetRequest = Idle /\ f \in Rows
    /\ files[f].ext = "pdf" /\ Piece(f) \notin DOMAIN objects
    /\ Path(f) \in DOMAIN objects
    /\ objects' = Stored(Piece(f), "jpg")
    /\ Fine /\ OnlyFiles /\ UNCHANGED <<files, assetRequest>>

-----------------------------------------------------------------------------
(* The process ends, and what it has under way with it *)

CrashAssets ==
    /\ assetRequest # Idle
    /\ AssetFault("crash")
    /\ assetRequest' = Idle
    /\ damaged' =
           [files |-> damaged.files \cup
                          IF Deleting("counts") \/ Deleting("row") THEN {Deleted} ELSE {},
            datasets |-> damaged.datasets \cup
                             IF Deleting("row") THEN DatasetsOf(Deleted) ELSE {}]
    /\ UNCHANGED <<files, lastId, datasets, bonds, bucket, objects>>

-----------------------------------------------------------------------------
InitAssets ==
    /\ files = [f \in FileId |-> NoFile] /\ lastId = 0
    /\ datasets = << >> /\ bonds = {}
    /\ bucket = FALSE /\ objects = << >>
    /\ assetRequest = Idle
    /\ damaged = [files |-> {}, datasets |-> {}] /\ assetFaults = 0

NextAssets ==
    \/ CreateBucket \/ UploadFiles \/ DownloadS3Files \/ DeleteFiles
    \/ NoExtension \/ BlankIsCreated \/ BlankIsNotStored \/ BlankFails
    \/ HtmlIsConverted \/ PdfIsConverted \/ DocumentIsConverted \/ ImageIsConverted
    \/ IsNotConverted \/ HtmlConversionFails \/ DocumentConversionFails
    \/ ImageConversionFails \/ TokensFail
    \/ IsInsertedToDatabase \/ RowIsNotUpdated
    \/ IsUploadedToStorage \/ ThumbnailFails \/ StorageFails
    \/ IsOriginalUploaded \/ OriginalFails \/ IsFileUpdated \/ FileIsNotUpdated
    \/ NothingToDelete \/ DeleteFromMinio \/ MinioDoesNotDelete
    \/ DecreaseCount \/ DeleteRow
    \/ \E f \in FileId :
           \/ \E status \in {"preprocessing in progress", "preprocessed", "failed"} :
                  PutStatus(f, status)
           \/ GetPreview(f) \/ GetImagePiece(f)
    \/ \E d \in DatasetName :
           \/ CreateDataset(d) \/ DeleteDataset(d)
           \/ \E ids \in SUBSET FileId : BoundFiles(ids, d) \/ UnboundFiles(ids, d)
    \/ CrashAssets

AssetsSpec == InitAssets /\ [][NextAssets]_assetsVars

-----------------------------------------------------------------------------
(* Properties *)

\* The count of a dataset is the number of the files listed for it and of its
\* bonds, whatever is bound, unbound and deleted; only a crash between the two commits of a delete parts them.
CountsAreBonds ==
    \A d \in DOMAIN datasets \ damaged.datasets :
        Deleting("row") \/ /\ datasets[d] = Cardinality(GetFilesByDataset(d))
                           /\ datasets[d] = Cardinality({b \in SearchBonds : b[1] = d})

\* A file that is said to be uploaded can be downloaded in the format of its
\* extension, and in its original one when it was converted; the exceptions are
\* a file whose delete was cut short, one whose number begins with that of a
\* file deleted since, and one whose row could not be updated.
UploadedIsServed ==
    \A f \in Rows \ damaged.files :
        files[f].status = "uploaded" /\ ~(assetRequest.op = "delete" /\ Deleted = f)
            => /\ GetFromMinio(f, FALSE) = files[f].ext
               /\ files[f].original # "none" =>
                      GetFromMinio(f, TRUE) = files[f].original

\* When no fault has happened every file is uploaded once its request is over.
UploadsSettle ==
    assetRequest = Idle /\ assetFaults = 0
        => \A f \in Rows : files[f].status # "uploading"

=============================================================================
