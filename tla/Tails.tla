------------------------------- MODULE Tails -------------------------------
(***************************************************************************)
(* The tails server (tails/routers/tails.py): files that agents put into a *)
(* bucket under their hash, and that holders fetch by it. A put looks      *)
(* whether the object exists, reads and validates the upload, and stores   *)
(* it last; other uploads of the same hash go on meanwhile. A file stands  *)
(* for its hash, so that a key is the file it is the hash of.              *)
(***************************************************************************)
EXTENDS Requests

CONSTANTS
  File,
  WellFormed  \* files that begin with 00 02 and hold whole tails of 128 bytes

ASSUME WellFormedFiles == WellFormed \subseteq File /\ None \notin File

TailsCall == [op : {"put"}, key : File, body : File] \cup [op : {"get"}, key : File]

VARIABLES
  bucket,  \* the object of each key
  served   \* the file a get has answered with

tails == <<bucket, served>>

TailsTypeOK ==
  /\ bucket \in [File -> File \cup {None}]
  /\ served \in [Request -> File \cup {None}]

\* head_object before an upload
HeadOfPut(r) ==
  /\ pc[r] = "putHead"
  /\ IF bucket[call[r].key] # None THEN Answer(r, "conflict") ELSE Goto(r, "read")
  /\ UNCHANGED tails

\* Faulty variant: the hash of the upload is not compared.
AcceptableUnhashed(c) == c.body \in WellFormed

\* Prefix, hash and size, all of them 400. An empty upload has no first chunk and
\* fails the size.
Acceptable(c) == c.body \in WellFormed /\ c.body = c.key

\* The upload is read into a temporary file, with an await for each chunk.
ReadUpload(r) ==
  /\ pc[r] = "read"
  /\ IF Acceptable(call[r]) THEN Goto(r, "upload") ELSE Answer(r, "bad")
  /\ UNCHANGED tails

Stored(r) == bucket' = [bucket EXCEPT ![call[r].key] = call[r].body]

\* upload_fileobj, which overwrites what is there by now
Upload(r) ==
  /\ pc[r] = "upload"
  /\ Stored(r) /\ Answer(r, "ok")
  /\ UNCHANGED served

UploadAnswerLost(r) ==
  /\ pc[r] = "upload"
  /\ Stored(r) /\ GiveUp(r)
  /\ UNCHANGED served

HeadOfGet(r) ==
  /\ pc[r] = "getHead"
  /\ IF bucket[call[r].key] # None THEN Goto(r, "body") ELSE Answer(r, "missing")
  /\ UNCHANGED tails

\* get_object, and the stream of its body under the length the head has told. An object
\* that has gone since would be a 500 (its code is NoSuchKey, not 404); nothing removes one.
GetObject(r) ==
  /\ pc[r] = "body"
  /\ IF bucket[call[r].key] # None
       THEN /\ served' = [served EXCEPT ![r] = bucket[call[r].key]]
            /\ Answer(r, "ok")
       ELSE Answer(r, "error") /\ UNCHANGED served
  /\ UNCHANGED bucket

\* A ClientError other than a 404, or an upload that breaks off, is a 500.
TailsFails(r) ==
  /\ pc[r] \in {"putHead", "read", "upload", "getHead", "body"}
  /\ GiveUp(r)
  /\ UNCHANGED tails

TailsHandler(r) ==
  HeadOfPut(r) \/ ReadUpload(r) \/ Upload(r) \/ HeadOfGet(r) \/ GetObject(r)

TailsFault(r) == UploadAnswerLost(r) \/ TailsFails(r)
=============================================================================
