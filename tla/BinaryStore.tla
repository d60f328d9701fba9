------------------------------- MODULE BinaryStore -------------------------------
(* The upload operation of the binary store service, with its three stores    *)
(* (src/handywedge-binarystore/.../store/{aws,azure,gcs}/                      *)
(* BinaryStoreManagerImpl.java), when several requests write the same key of   *)
(* one bucket, any remote call may fail, and a delete request may come in      *)
(* between.                                                                    *)
(*                                                                             *)
(* A file shorter than one part (5 MB) is stored by one call.  A longer one is *)
(* sent in parts, numbered from 1, and a last call makes an object of them.    *)
(* What an object holds is the sequence of the pieces it was made of, each a   *)
(* part of somebody's file; the bytes of a part are not modelled, and sizes    *)
(* are counted in units of 1/Part of a part.                                   *)
EXTENDS Integers, Sequences, FiniteSets

CONSTANTS
    Uploads,    \* the upload requests; each sends one file to the one key
    Old,        \* a multipart upload of the bucket that nobody ends
    Absent,     \* no object; no uploader of a block
    Part,       \* units in a part (5 MB in the code)
    Limit,      \* parts in the largest size (1024 in the code)
    MaxIter,    \* rounds of the loop that waits for aborted uploads (20 in the code)
    MaxSize     \* bound on the size of a file, in units

ASSUME SizesAssumption ==
    /\ Part \in Nat \ {0} /\ Limit \in Nat \ {0, 1}
    /\ MaxIter \in Nat \ {0} /\ MaxSize \in Nat
    /\ Old \notin Uploads

VARIABLES
    vendor,     \* the store in use: the environment variable HW_STORAGE
    size,       \* the size of each request's file
    object,     \* the key's object: a sequence of pieces, or Absent
    pending,    \* S3: the multipart uploads begun and neither completed nor aborted
    blocks,     \* Azure: whose file each uncommitted block is of, by block id
    pc,         \* where each request is
    sent,       \* the parts each request has handled
    rounds,     \* timesIterated: rounds left to each request
    result      \* the answer to each request

vars == <<vendor, size, object, pending, blocks, pc, sent, rounds, result>>

-----------------------------------------------------------------------------------
(* Files and their pieces.                                                      *)

Pieces(u) == (size[u] + Part - 1) \div Part

(* The object that holds the first k pieces of u's file, and all of it.         *)
Prefix(u, k) == [i \in 1..k |-> [by |-> u, no |-> i]]
Whole(u) == Prefix(u, Pieces(u))

Small(u) == size[u] < Part

(* Fault: the end of the stream is not noticed when a part ends there.          *)
MoreAtTheEnd(u) == size[u] >= Part * (IF sent[u] = 0 THEN 1 ELSE sent[u])

(* The stream has another byte: the part already in memory was read from it     *)
(* before the loop, and the loop's first round does not read it again.          *)
More(u) == size[u] > Part * (IF sent[u] = 0 THEN 1 ELSE sent[u])

(* The next part would bring `written` over the limit; the part read before the *)
(* loop is counted a second time when the loop copies it from memory.           *)
OverSize(u) ==
    LET end == Part * (sent[u] + 1)
    IN  Part + (IF size[u] < end THEN size[u] ELSE end) > Part * Limit

-----------------------------------------------------------------------------------
(* How a request ends, and the step it goes on to.                              *)

Goto(u, step) == pc' = [pc EXCEPT ![u] = step]

(* "ok"; a StoreException: of a remote call ("fail", "getFail"), of reading or  *)
(* writing a stream ("ioFail"), of the size ("tooLarge"); or "runtime", any     *)
(* other exception, which the controller answers with RUNTIME_ERROR.            *)
Answer(u, r) == result' = [result EXCEPT ![u] = r] /\ Goto(u, "done")

(* Fault: the handlers do not abort the multipart upload.                       *)
FailWithoutAbort(u) == UNCHANGED pending /\ Answer(u, "fail")

(* Fault: the handlers do not throw after the abort.                            *)
AbortOnly(u) == pending' = pending \ {u} /\ Goto(u, "info") /\ UNCHANGED result

(* S3: the handlers of AmazonServiceException and AmazonClientException abort   *)
(* the multipart upload.  The abort may throw in turn, and does when there is   *)
(* no such upload any more, unless the service forgives that; the exception     *)
(* then leaves upload as it is.                                                 *)
AbortAndFail(u) ==
    \/ pending' = pending \ {u} /\ Answer(u, "fail")
    \/ UNCHANGED pending /\ Answer(u, "runtime")

(* The handler of a failed remote call.  Google's exception is caught by none.  *)
Failed(u) ==
    CASE vendor = "S3" -> AbortAndFail(u)
      [] vendor = "ABS" -> UNCHANGED pending /\ Answer(u, "fail")
      [] vendor = "GCS" -> UNCHANGED pending /\ Answer(u, "runtime")

-----------------------------------------------------------------------------------
Init ==
    /\ vendor \in {"S3", "ABS", "GCS"}
    /\ size \in [Uploads -> 0..MaxSize]
    /\ object = Absent
    /\ pending \in IF vendor = "S3" THEN {{}, {Old}} ELSE {{}}
    /\ blocks = [k \in 1..Limit |-> Absent]
    /\ pc = [u \in Uploads |-> "idle"]
    /\ sent = [u \in Uploads |-> 0]
    /\ rounds = [u \in Uploads |-> MaxIter]
    /\ result = [u \in Uploads |-> "none"]

(* The client of the store is made; S3's begins a multipart upload, whatever    *)
(* the size of the file, outside the try.                                       *)
Begin(u) ==
    /\ pc[u] = "idle"
    /\ \/ /\ pending' = IF vendor = "S3" THEN pending \cup {u} ELSE pending
          /\ Goto(u, "first")
          /\ UNCHANGED result
       \/ /\ \/ Answer(u, "fail")
             \/ vendor = "S3" /\ Answer(u, "runtime")
          /\ UNCHANGED pending
    /\ UNCHANGED <<vendor, size, object, blocks, sent, rounds>>

(* The first part of the stream is read into memory.                            *)
ReadFirst(u) ==
    /\ pc[u] = "first"
    /\ Goto(u, IF Small(u) THEN "put" ELSE "loop")
    /\ UNCHANGED <<vendor, size, object, pending, blocks, sent, rounds, result>>

(* Reading the request's stream, or writing a temporary file, fails.            *)
ReadFails(u) ==
    /\ pc[u] = "first" \/ (pc[u] = "loop" /\ More(u))
    /\ Answer(u, "ioFail")
    /\ UNCHANGED <<vendor, size, object, pending, blocks, sent, rounds>>

(* At Azure every commit of a block list drops the uncommitted blocks.          *)
Stored(content) ==
    /\ object' = content
    /\ blocks' = [k \in DOMAIN blocks |-> Absent]

(* A small file is stored by one call.  A call that fails may have been carried *)
(* out, its answer lost.                                                        *)
PutSmall(u) ==
    /\ pc[u] = "put"
    /\ \/ Stored(Whole(u)) /\ Goto(u, "info") /\ UNCHANGED <<pending, result>>
       \/ Stored(Whole(u)) /\ Failed(u)
       \/ Failed(u) /\ UNCHANGED <<object, blocks>>
    /\ UNCHANGED <<vendor, size, sent, rounds>>

(* One round of the loop: a part sent to S3, a block to Azure, whose id is the  *)
(* part's number only, or a part appended to Google's temporary file.           *)
SendPart(u) ==
    /\ pc[u] = "loop" /\ More(u) /\ ~OverSize(u)
    /\ sent' = [sent EXCEPT ![u] = @ + 1]
    /\ blocks' = IF vendor = "ABS" THEN [blocks EXCEPT ![sent[u] + 1] = u] ELSE blocks
    /\ UNCHANGED <<vendor, size, object, pending, pc, rounds, result>>

SendFails(u) ==
    /\ pc[u] = "loop" /\ More(u) /\ ~OverSize(u) /\ vendor # "GCS"
    /\ Failed(u)
    /\ UNCHANGED <<vendor, size, object, blocks, sent, rounds>>

(* Fault: at S3, too, the break goes on to the call that makes the object.      *)
LoopLeftEverywhere(u) == pc[u] = "loop" /\ (~More(u) \/ OverSize(u))

(* The loop is left: at the end of the stream, and at Azure and Google also     *)
(* when the file is too large, which only S3's code asks about afterwards.      *)
LoopLeft(u) == pc[u] = "loop" /\ (~More(u) \/ (OverSize(u) /\ vendor # "S3"))

(* S3: a multipart upload of no part at all cannot be completed.                *)
Complete(u) ==
    /\ LoopLeft(u) /\ vendor = "S3"
    /\ \/ /\ sent[u] > 0
          /\ Stored(Prefix(u, sent[u]))
          /\ pending' = pending \ {u}
          /\ Goto(u, "info") /\ UNCHANGED result
       \/ /\ sent[u] > 0                                 \* the answer is lost
          /\ Stored(Prefix(u, sent[u]))
          /\ pending' = pending \ {u}
          /\ \E r \in {"fail", "runtime"} : Answer(u, r)
       \/ AbortAndFail(u) /\ UNCHANGED <<object, blocks>>
    /\ UNCHANGED <<vendor, size, sent, rounds>>

(* Azure: each id of the list stands for the uncommitted block, or else for the *)
(* committed one.  The one block of a small file has an id of its own kind.     *)
Committed(k) ==
    /\ object # Absent /\ k \in DOMAIN object
    /\ ~Small(object[k].by)

Found(k) == blocks[k] # Absent \/ Committed(k)

Latest(k) == IF blocks[k] # Absent THEN [by |-> blocks[k], no |-> k] ELSE object[k]

CommitBlockList(u) ==
    /\ LoopLeft(u) /\ vendor = "ABS"
    /\ \/ /\ \A k \in 1..sent[u] : Found(k)
          /\ Stored([k \in 1..sent[u] |-> Latest(k)])
          /\ \/ Goto(u, "info") /\ UNCHANGED result
             \/ Answer(u, "fail")                        \* the answer is lost
       \/ Answer(u, "fail") /\ UNCHANGED <<object, blocks>>
    /\ UNCHANGED <<vendor, size, pending, sent, rounds>>

(* Google: the temporary file is written to a channel that is never closed, and *)
(* the object is made when it is closed.                                        *)
WriteChannel(u) ==
    /\ LoopLeft(u) /\ vendor = "GCS"
    /\ \/ Goto(u, "info") /\ UNCHANGED result
       \/ \E r \in {"ioFail", "runtime"} : Answer(u, r)
    /\ UNCHANGED <<vendor, size, object, pending, blocks, sent, rounds>>

-----------------------------------------------------------------------------------
(* S3, when the file is too large.                                              *)

GiveUp(u) ==
    /\ pc[u] = "loop" /\ More(u) /\ OverSize(u) /\ vendor = "S3"
    /\ Goto(u, "abort")
    /\ UNCHANGED <<vendor, size, object, pending, blocks, sent, rounds, result>>

(* A round of the loop: as long as the bucket has a multipart upload, anybody's *)
(* and of any key, abort one's own; one that is aborted already makes the       *)
(* service complain, or not.                                                    *)
AbortRound(u) ==
    /\ pc[u] = "abort" /\ pending # {} /\ rounds[u] > 0
    /\ \/ /\ pending' = pending \ {u}
          /\ rounds' = [rounds EXCEPT ![u] = @ - 1]
          /\ UNCHANGED <<pc, result>>
       \/ AbortAndFail(u) /\ UNCHANGED rounds
    /\ UNCHANGED <<vendor, size, object, blocks, sent>>

(* Fault: the rounds of the loop are not limited.                               *)
RefuseWhenNonePending(u) ==
    /\ pc[u] = "abort" /\ pending = {}
    /\ Answer(u, "tooLarge")
    /\ UNCHANGED <<vendor, size, object, pending, blocks, sent, rounds>>

Refuse(u) ==
    /\ pc[u] = "abort" /\ (pending = {} \/ rounds[u] = 0)
    /\ Answer(u, "tooLarge")
    /\ UNCHANGED <<vendor, size, object, pending, blocks, sent, rounds>>

-----------------------------------------------------------------------------------
(* The answer describes what the key holds by then.  Without an object S3's     *)
(* service reports an error, Azure's code answers with the request's own data,  *)
(* and Google's runs into a null.  Any of the calls may fail.                   *)
Info(u) ==
    /\ pc[u] = "info"
    /\ \/ object # Absent /\ Answer(u, "ok")
       \/ object = Absent /\ vendor = "ABS" /\ Answer(u, "ok")
       \/ vendor = "S3" /\ Answer(u, "getFail")
       \/ vendor = "ABS" /\ Answer(u, "fail")
       \/ vendor = "GCS" /\ \E r \in {"fail", "runtime"} : Answer(u, r)
    /\ UNCHANGED <<vendor, size, object, pending, blocks, sent, rounds>>

(* A delete request; the object may be gone already.                            *)
Delete ==
    /\ object # Absent
    /\ object' = Absent
    /\ UNCHANGED <<vendor, size, pending, blocks, pc, sent, rounds, result>>

-----------------------------------------------------------------------------------
Step(u) ==
    \/ Begin(u) \/ ReadFirst(u) \/ ReadFails(u) \/ PutSmall(u)
    \/ SendPart(u) \/ SendFails(u)
    \/ Complete(u) \/ CommitBlockList(u) \/ WriteChannel(u)
    \/ GiveUp(u) \/ AbortRound(u) \/ Refuse(u) \/ Info(u)

Next == (\E u \in Uploads : Step(u)) \/ Delete

(* A request's thread runs on, and each remote call returns or throws.          *)
Fairness == \A u \in Uploads : WF_vars(Step(u))

Spec == Init /\ [][Next]_vars /\ Fairness

-----------------------------------------------------------------------------------
(* Properties.                                                                  *)

Piece == [by : Uploads, no : 1..Limit]

(* Types; no request sends more parts than its file has, and what is sent stays *)
(* one part short of the limit, as the first part is counted twice              *)
(* (written += partSize in the three upload methods).                           *)
TypeOK ==
    /\ vendor \in {"S3", "ABS", "GCS"}
    /\ size \in [Uploads -> 0..MaxSize]
    /\ object = Absent
       \/ \E n \in 0..Limit : DOMAIN object = 1..n /\ \A k \in 1..n : object[k] \in Piece
    /\ pending \subseteq Uploads \cup {Old}
    /\ blocks \in [1..Limit -> Uploads \cup {Absent}]
    /\ pc \in [Uploads -> {"idle", "first", "put", "loop", "abort", "info", "done"}]
    /\ sent \in [Uploads -> 0..(Limit - 1)]
    /\ \A u \in Uploads : sent[u] <= Pieces(u)
    /\ rounds \in [Uploads -> 0..MaxIter]
    /\ result \in [Uploads ->
                    {"none", "ok", "fail", "ioFail", "getFail", "tooLarge", "runtime"}]

(* A file that the service takes for too large.                                 *)
TooLarge(u) == size[u] > Part * (Limit - 1)

(* Whoever writes the key, and whichever call fails, the object is one request's*)
(* whole file: parts are never missing, and never of two files (the S3 and GCS  *)
(* upload methods).  At Azure this leaves out a file of exactly one part, which *)
(* is stored empty, a file that is too large, which is cut off, and two         *)
(* requests that both send blocks, whose ids are the same.                      *)
ObjectIsWhole ==
    \/ object = Absent
    \/ \E u \in Uploads : object = Whole(u)
    \/ /\ vendor = "ABS"
       /\ \/ \E u \in Uploads : pc[u] # "idle" /\ (size[u] = Part \/ TooLarge(u))
          \/ Cardinality({u \in Uploads : sent[u] > 0}) > 1

(* S3: when the store has accepted a request's file, the key holds the whole of *)
(* it, and the file is not one that should have been refused as too large       *)
(* (putObject and completeMultipartUpload in upload).                           *)
AcceptedIsStored ==
    [][\A u \in Uploads :
          vendor = "S3" /\ pc[u] # "info" /\ pc'[u] = "info"
              => object' = Whole(u) /\ ~TooLarge(u)]_vars

(* S3: a request leaves its multipart upload behind, and the parts in it, only  *)
(* when reading failed or the abort itself threw; and, with no part, whenever   *)
(* its file is small, as nothing ends the multipart upload then (the handlers   *)
(* and the abort loop in upload).                                               *)
LeftPending ==
    \A u \in Uploads :
        pc[u] = "done" /\ u \in pending
            => \/ result[u] \in {"ioFail", "runtime"}
               \/ Small(u) /\ result[u] \in {"ok", "getFail"}

(* Every request is answered: the loop that waits for the aborted uploads ends, *)
(* although it watches the multipart uploads of the whole bucket (upload, 20    *)
(* rounds).                                                                     *)
UploadsEnd == \A u \in Uploads : <>(pc[u] = "done")

===================================================================================
