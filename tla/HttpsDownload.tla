---------------------------- MODULE HttpsDownload ----------------------------
(***************************************************************************)
(* The gateway's cache of one artifact (a header sector and a data area of *)
(* the partition stm32_cache, written by one writer at a time), and        *)
(* HttpsDownload_ToCache, which streams a file from a server into it, with *)
(* a gateway that may restart between any two steps.                       *)
(*                                                                         *)
(* A byte in flash is the body it belongs to and its position there,       *)
(* Blank, or Garbage.  A CRC is exact: it stands for the bytes themselves. *)
(* A flash operation that fails leaves any part of its effect behind; a    *)
(* power cut inside one is such a failure followed by a restart.           *)
(***************************************************************************)
EXTENDS Naturals, Sequences, SequenceTheorems, TLAPS

CONSTANTS
    Bodies,      \* the files that servers answer with
    SECTOR,      \* ARTIFACT_CACHE_ERASE_SIZE
    DATA_SIZE,   \* data area of the partition, bytes
    Blank,       \* an erased byte or sector
    Garbage      \* a byte or sector that an operation left undefined

(* A file: its length and the version it was made for.                     *)
Body == [length : Nat, target : Nat]

(* What the constants have to satisfy.                                     *)
CacheAssumption ==
    /\ SECTOR \in Nat \ {0} /\ DATA_SIZE \in Nat \ {0} /\ DATA_SIZE % SECTOR = 0
    /\ \A b \in Bodies : b \in Body

VARIABLES
    header,    \* header sector: a record, or Blank, or Garbage
    data,      \* data area
    writer     \* ArtifactCacheWriter_t

cacheVars == <<header, data, writer>>

Byte(b, i) == [of |-> b, at |-> i]
Bytes(b, n) == [i \in 1..n |-> Byte(b, i - 1)]
Offsets == 0..(DATA_SIZE - 1)

Header(id, version, size, crc) ==
    [update_id |-> id, target_version |-> version, size |-> size, crc |-> crc]

NoWriter == [active |-> FALSE, update_id |-> 0, target_version |-> 0,
             expected |-> 0, written |-> 0, crc |-> <<>>]

CacheInit ==
    /\ header = Blank
    /\ data = [o \in Offsets |-> Blank]
    /\ writer = NoWriter

-----------------------------------------------------------------------------
(* Flash operations.                                                       *)

EraseHeaderOk == header' = Blank
EraseHeaderFails == header' \in {header, Garbage, Blank}

Rounded(size) == ((size + SECTOR - 1) \div SECTOR) * SECTOR
Erased(size, value) ==
    [o \in Offsets |-> IF o < Rounded(size) THEN value ELSE data[o]]

(* NOR flash: a byte that is not erased does not take new data.            *)
Programmed(first, bytes) ==
    [o \in Offsets |->
       IF o \in first..(first + Len(bytes) - 1)
         THEN IF data[o] = Blank THEN bytes[o - first + 1] ELSE Garbage
         ELSE data[o]]

(* CalculateStoredImageCrc.                                                *)
StoredCrc(size) == [i \in 1..size |-> data[i - 1]]

-----------------------------------------------------------------------------
(* ArtifactCache_BeginWrite, in two durable steps.                         *)

BeginAccepted(size, id, version) == size \in 1..DATA_SIZE /\ id # 0 /\ version # 0

(* Mutant: the data area is erased while the old header still stands.      *)
BeginKeepsHeader(size, id, version) ==
    /\ writer' = [NoWriter EXCEPT !.update_id = id, !.target_version = version,
                                  !.expected = size]
    /\ UNCHANGED <<header, data>>

BeginEraseHeader(size, id, version) ==
    /\ writer' = [NoWriter EXCEPT !.update_id = id, !.target_version = version,
                                  !.expected = size]
    /\ EraseHeaderOk
    /\ UNCHANGED data

BeginHeaderFails == EraseHeaderFails /\ UNCHANGED <<data, writer>>

BeginEraseData ==
    /\ data' = Erased(writer.expected, Blank)
    /\ writer' = [writer EXCEPT !.active = TRUE]
    /\ UNCHANGED header

BeginDataFails ==
    /\ data' \in {data, Erased(writer.expected, Garbage), Erased(writer.expected, Blank)}
    /\ UNCHANGED <<header, writer>>

(* ArtifactCache_Write.                                                    *)
WriteAccepted(bytes) == writer.active /\ Len(bytes) <= writer.expected - writer.written

Write(bytes) ==
    /\ WriteAccepted(bytes)
    /\ data' = Programmed(writer.written, bytes)
    /\ writer' = [writer EXCEPT !.crc = @ \o bytes, !.written = @ + Len(bytes)]
    /\ UNCHANGED header

(* The flash takes the bytes without complaint and keeps them badly.       *)
WriteCorrupts(bytes) ==
    /\ WriteAccepted(bytes) /\ bytes # <<>>
    /\ data' = [Programmed(writer.written, bytes) EXCEPT ![writer.written] = Garbage]
    /\ writer' = [writer EXCEPT !.crc = @ \o bytes, !.written = @ + Len(bytes)]
    /\ UNCHANGED header

WriteFails(bytes) ==
    /\ \/ ~WriteAccepted(bytes) /\ UNCHANGED data
       \/ /\ WriteAccepted(bytes)
          /\ \E n \in 0..Len(bytes) : data' = Programmed(writer.written, SubSeq(bytes, 1, n))
    /\ UNCHANGED <<header, writer>>

-----------------------------------------------------------------------------
(* ArtifactCache_Commit.  The first step checks what was stored against    *)
(* what was streamed, the second publishes the header, the third opens it. *)

CommitVerified ==
    /\ writer.active /\ writer.written = writer.expected
    /\ StoredCrc(writer.expected) = writer.crc

CommitHeader ==
    /\ header' = Header(writer.update_id, writer.target_version, writer.expected,
                        StoredCrc(writer.expected))
    /\ UNCHANGED <<data, writer>>

CommitHeaderFails ==
    /\ \/ header' \in {header, Garbage}
       \/ header' = Header(writer.update_id, writer.target_version, writer.expected,
                           StoredCrc(writer.expected))
    /\ UNCHANGED <<data, writer>>

(* ArtifactCache_Open.                                                     *)
HeaderValid ==
    /\ header \notin {Blank, Garbage}
    /\ header.update_id # 0 /\ header.target_version # 0
    /\ header.size \in 1..DATA_SIZE

OpenAccepts == HeaderValid /\ StoredCrc(header.size) = header.crc

CommitOpen == OpenAccepts /\ writer' = [writer EXCEPT !.active = FALSE] /\ UNCHANGED <<header, data>>

CommitOpenFails ==
    /\ EraseHeaderFails
    /\ writer' = [writer EXCEPT !.active = FALSE]
    /\ UNCHANGED data

(* ArtifactCache_Abort.                                                    *)
Abort ==
    /\ IF writer.active THEN EraseHeaderFails ELSE UNCHANGED header
    /\ writer' = [writer EXCEPT !.active = FALSE]
    /\ UNCHANGED data

-----------------------------------------------------------------------------
(* HttpsDownload_ToCache.                                                  *)

CONSTANTS
    Requests,    \* HttpsDownloadConfig_t: [update_id, target_version, https]
    BUFFER,      \* HTTPS_DOWNLOAD_BUFFER_SIZE
    MAX_IMAGE    \* max_image_size

DownloadAssumption ==
    /\ BUFFER \in Nat \ {0} /\ MAX_IMAGE \in Nat \ {0}
    /\ \A r \in Requests : {r.update_id, r.target_version} \subseteq Nat /\ r.https \in BOOLEAN

VARIABLES
    dpc,       \* place in HttpsDownload_ToCache, "idle" outside
    request,   \* arguments of the call, kept when it succeeds
    body,      \* the file that the server sends, likewise
    received,  \* `total`, the bytes read from the connection
    result,    \* what the last call returned
    served     \* history: requests and the files that were sent for them

downloadVars == <<dpc, request, body, received, result, served>>
vars == <<cacheVars, downloadVars>>

NoRequest == [update_id |-> 0, target_version |-> 0, https |-> FALSE]
NoBody == [length |-> 0, target |-> 0]

Init ==
    /\ CacheInit
    /\ dpc = "idle" /\ request = NoRequest /\ body = NoBody /\ received = 0
    /\ result = "none" /\ served = {}

Goto(pc) == dpc' = pc /\ UNCHANGED <<request, body, received, result, served>>

(* The label cleanup: the writer is aborted if it was started.             *)
Cleanup == Goto("abort")

Fail ==
    /\ dpc' = "idle" /\ result' = "failed"
    /\ request' = NoRequest /\ body' = NoBody /\ received' = 0
    /\ UNCHANGED served

Succeed ==
    /\ dpc' = "idle" /\ result' = "ok" /\ received' = 0
    /\ UNCHANGED <<request, body, served>>

-----------------------------------------------------------------------------
(* The call, with its checks of the arguments.                             *)
ToCache(r) ==
    /\ dpc = "idle"
    /\ IF r.update_id # 0 /\ r.target_version # 0 /\ r.https
         THEN /\ dpc' = "open" /\ request' = r /\ body' = NoBody /\ received' = 0
              /\ result' = "none"
              /\ UNCHANGED served
         ELSE Fail
    /\ UNCHANGED cacheVars

(* HttpsDownload_ValidateResponse.                                         *)
ValidateResponse(status, chunked, length) ==
    status = 200 /\ ~chunked /\ length > 0 /\ length <= MAX_IMAGE

(* The connection is opened and the headers are read.                      *)
Open ==
    /\ dpc = "open"
    /\ \/ Fail
       \/ \E b \in Bodies, status \in {200, 404}, chunked \in BOOLEAN :
            IF ValidateResponse(status, chunked, b.length)
              THEN /\ dpc' = "begin" /\ body' = b
                   /\ served' = served \cup {<<request.update_id, request.target_version, b>>}
                   /\ UNCHANGED <<request, received, result>>
              ELSE Fail
    /\ UNCHANGED cacheVars

(* ArtifactCache_BeginWrite.  If it fails there is no writer to abort.     *)
BeginHeader ==
    /\ dpc = "begin"
    /\ IF BeginAccepted(body.length, request.update_id, request.target_version)
         THEN \/ /\ BeginEraseHeader(body.length, request.update_id, request.target_version)
                 /\ Goto("beginData")
              \/ BeginHeaderFails /\ Fail
         ELSE Fail /\ UNCHANGED cacheVars

BeginData ==
    /\ dpc = "beginData"
    /\ \/ BeginEraseData /\ Goto("read")
       \/ BeginDataFails /\ Fail

(* One turn of the loop: n bytes, EAGAIN, a failure, or the end of the     *)
(* connection.                                                             *)
Received(n) == SubSeq(Bytes(body, body.length), received + 1, received + n)

Read ==
    /\ dpc = "read" /\ received < body.length
    /\ \/ \E n \in 1..BUFFER :
            /\ n <= body.length - received
            /\ \/ /\ Write(Received(n)) \/ WriteCorrupts(Received(n))
                  /\ received' = received + n
                  /\ UNCHANGED <<dpc, request, body, result, served>>
               \/ WriteFails(Received(n)) /\ Cleanup
       \/ Cleanup /\ UNCHANGED cacheVars

(* Nothing arrives: the loop goes round until the inactivity deadline.     *)
ReadAgain == dpc = "read" /\ received < body.length /\ UNCHANGED vars

InactivityDeadline ==
    /\ dpc = "read" /\ received < body.length
    /\ Cleanup
    /\ UNCHANGED cacheVars

ReadComplete ==
    /\ dpc = "read" /\ received = body.length
    /\ Goto("commit")
    /\ UNCHANGED cacheVars

(* ArtifactCache_Commit, every step of which may fail to read or write.    *)
Commit ==
    /\ dpc = "commit"
    /\ \/ CommitVerified /\ Goto("commitHeader")
       \/ Cleanup
    /\ UNCHANGED cacheVars

PublishHeader ==
    /\ dpc = "commitHeader"
    /\ \/ CommitHeader /\ Goto("commitOpen")
       \/ CommitHeaderFails /\ Cleanup

OpenPublished ==
    /\ dpc = "commitOpen"
    /\ \/ CommitOpen /\ Succeed
       \/ CommitOpenFails /\ Cleanup

AbortWriter ==
    /\ dpc = "abort"
    /\ Abort /\ Fail

(* The gateway restarts: flash stays, nothing else does.                   *)
Restart ==
    /\ writer' = NoWriter
    /\ dpc' = "idle" /\ request' = NoRequest /\ body' = NoBody /\ received' = 0
    /\ result' = "none"
    /\ UNCHANGED <<header, data, served>>

(* What the worker does by itself, the server's silence notwithstanding.   *)
Worker ==
    \/ Open \/ BeginHeader \/ BeginData \/ InactivityDeadline \/ ReadComplete
    \/ Commit \/ PublishHeader \/ OpenPublished \/ AbortWriter

Next ==
    \/ \E r \in Requests : ToCache(r)
    \/ Worker
    \/ Read
    \/ ReadAgain
    \/ Restart

Spec == Init /\ [][Next]_vars

(* The worker task is scheduled, opening a connection times out, and time  *)
(* passes while esp_http_client_read returns EAGAIN.  Nothing is assumed   *)
(* of the server.                                                          *)
FairSpec == Spec /\ WF_vars(Worker)

-----------------------------------------------------------------------------
(* Types of the variables of the cache and the download.                   *)
TypeOK ==
    /\ header \in {Blank, Garbage} \/ header.size \in 1..DATA_SIZE
    /\ \A o \in Offsets : data[o] \in {Blank, Garbage} \/ data[o].of \in Bodies
    /\ writer.written = Len(writer.crc) /\ writer.written <= writer.expected
    /\ writer.active \in BOOLEAN
    /\ dpc \in {"idle", "open", "begin", "beginData", "read", "commit", "commitHeader",
                "commitOpen", "abort"}
    /\ dpc \in {"read", "commit"} => received = writer.written
    /\ result \in {"none", "ok", "failed"}

(* "Header last": at every moment, a readable header describes bytes that  *)
(* are all in flash.  It does not rest on the CRC that ArtifactCache_Open  *)
(* computes: the order of the steps of BeginWrite and Commit ensures it.   *)
HeaderLast == header \notin {Blank, Garbage} => StoredCrc(header.size) = header.crc

(* An artifact that can be opened is one whole file that a server sent for *)
(* the update it is filed under, never a shorter one or a mixture of two.  *)
PublishedIsWhole ==
    OpenAccepts =>
       \E s \in served :
          /\ s[1] = header.update_id /\ s[2] = header.target_version
          /\ header.size = s[3].length /\ header.crc = Bytes(s[3], s[3].length)

(* A call that returned ESP_OK left in the cache the whole file of that    *)
(* very call, under its identifier, and nothing takes it away before the   *)
(* next call: the UART client reads it from flash long afterwards.         *)
OkIsPublished ==
    result = "ok" =>
       header = Header(request.update_id, request.target_version, body.length,
                       Bytes(body, body.length))

(* Every call returns, whatever the server sends or fails to send.         *)
DownloadEnds == (dpc # "idle") ~> (dpc = "idle")

-----------------------------------------------------------------------------
(* The four properties hold for all files, requests, sector sizes and      *)
(* partition sizes.  The invariant follows the file from the connection    *)
(* through the writer into the flash and the header.                       *)

Places == {"idle", "open", "begin", "beginData", "read", "commit", "commitHeader",
           "commitOpen", "abort"}

FileByte == [of : Bodies, at : Nat]

(* What the variables range over.                                          *)
Ranges ==
    /\ data \in [Offsets -> {Blank, Garbage} \cup FileByte]
    /\ writer \in [active : BOOLEAN, update_id : Nat, target_version : Nat, expected : Nat,
                   written : Nat, crc : Seq(FileByte)]
    /\ writer.written = Len(writer.crc) /\ writer.written <= writer.expected
    /\ dpc \in Places /\ result \in {"none", "ok", "failed"}
    /\ request.update_id \in Nat /\ request.target_version \in Nat
    /\ body \in Body /\ received \in Nat

(* From the response on, the file is one that was sent for this request.   *)
FileIsServed ==
    dpc \in {"begin", "beginData", "read", "commit", "commitHeader", "commitOpen"} =>
        /\ body \in Bodies
        /\ <<request.update_id, request.target_version, body>> \in served

(* The writer belongs to this call.                                        *)
WriterIsMine ==
    dpc \in {"beginData", "read", "commit", "commitHeader", "commitOpen"} =>
        /\ writer.update_id = request.update_id
        /\ writer.target_version = request.target_version
        /\ writer.expected = body.length
        /\ writer.expected \in 1..DATA_SIZE

(* It has taken the first bytes of the file, in order, and no others.      *)
StreamIsPrefix ==
    /\ dpc \in {"open", "begin", "beginData"} => received = 0
    /\ dpc = "beginData" => writer.written = 0 /\ writer.crc = <<>>
    /\ dpc \in {"read", "commit", "commitHeader"} =>
           received = writer.written /\ writer.crc = Bytes(body, received)

(* No header stands while the data area changes.                           *)
HeaderIsErased == dpc \in {"beginData", "read", "commit", "commitHeader"} => header = Blank

(* The header is written once the stored bytes have been compared.         *)
StoredIsStreamed ==
    dpc = "commitHeader" => /\ writer.written = writer.expected
                            /\ StoredCrc(writer.expected) = writer.crc

ThisFile ==
    header = Header(request.update_id, request.target_version, body.length,
                    Bytes(body, body.length))

(* A header that can be read, wherever it came from.                       *)
HeaderIsTrue ==
    header \notin {Blank, Garbage} =>
        /\ header.size \in 1..DATA_SIZE
        /\ StoredCrc(header.size) = header.crc
        /\ \E s \in served :
              /\ s[1] = header.update_id /\ s[2] = header.target_version
              /\ header.size = s[3].length /\ header.crc = Bytes(s[3], s[3].length)

DownloadInv ==
    /\ Ranges /\ FileIsServed /\ WriterIsMine /\ StreamIsPrefix
    /\ HeaderIsErased /\ StoredIsStreamed /\ HeaderIsTrue
    /\ dpc = "commitOpen" => ThisFile
    /\ result = "ok" => dpc = "idle" /\ ThisFile

Constants == CacheAssumption /\ DownloadAssumption

(* The bytes of a file are a sequence.                                     *)
LEMMA BytesAreSequence ==
    ASSUME NEW b \in Bodies, NEW n \in Nat
    PROVE  Bytes(b, n) \in Seq(FileByte) /\ Len(Bytes(b, n)) = n
BY DEF Bytes, Byte, FileByte

(* One turn of the loop appends the next bytes (HttpsDownload_ToCache).    *)
LEMMA NextBytes ==
    ASSUME Constants, DownloadInv, dpc = "read", NEW n \in Nat, n <= body.length - received
    PROVE  /\ Received(n) \in Seq(FileByte) /\ Len(Received(n)) = n
           /\ \A i \in 1..n : Received(n)[i] = Byte(body, received + i - 1)
           /\ writer.crc \o Received(n) = Bytes(body, received + n)
<1>1. /\ body \in Bodies /\ body.length \in Nat /\ received \in Nat
      /\ writer.crc = Bytes(body, received)
  BY DEF DownloadInv, Ranges, FileIsServed, StreamIsPrefix, Body
<1> DEFINE all == Bytes(body, body.length)
           part == Received(n)
<1>2. all \in Seq(FileByte) /\ Len(all) = body.length
  BY <1>1, BytesAreSequence
<1>3. part = [i \in 1..n |-> all[received + i]]
  BY <1>1, <1>2 DEF Received
<1>4. \A i \in 1..n : part[i] = Byte(body, received + i - 1)
  BY <1>1, <1>3 DEF Bytes
<1>5. part \in Seq(FileByte) /\ Len(part) = n
  <2>1. ASSUME NEW i \in 1..n PROVE part[i] \in FileByte
    <3>1. received + i - 1 \in Nat /\ part[i] = Byte(body, received + i - 1)
      BY <1>1, <1>4
    <3> HIDE DEF part
    <3> QED BY <1>1, <3>1 DEF Byte, FileByte
  <2>2. part \in [1..n -> FileByte]
    BY <1>3, <2>1
  <2> QED BY <2>2, <1>3
<1>6. writer.crc \o part = Bytes(body, received + n)
  <2>1. writer.crc \in Seq(FileByte) /\ Len(writer.crc) = received
    BY <1>1, BytesAreSequence
  <2>2. /\ writer.crc \o part \in Seq(FileByte)
        /\ Len(writer.crc \o part) = received + n
    BY <2>1, <1>5
  <2>3. \A i \in 1..(received + n) : (writer.crc \o part)[i] = Byte(body, i - 1)
    <3> SUFFICES ASSUME NEW i \in 1..(received + n)
                 PROVE  (writer.crc \o part)[i] = Byte(body, i - 1)
      OBVIOUS
    <3>1. CASE i <= received
      <4>1. (writer.crc \o part)[i] = writer.crc[i]
        BY <2>1, <1>5, <3>1
      <4> QED BY <4>1, <1>1, <3>1 DEF Bytes
    <3>2. CASE ~(i <= received)
      <4>1. (writer.crc \o part)[i] = part[i - received] /\ i - received \in 1..n
        BY <2>1, <1>5, <3>2, <1>1
      <4>2. received + (i - received) - 1 = i - 1
        BY <1>1
      <4>3. part[i - received] = Byte(body, received + (i - received) - 1)
        BY <1>4, <4>1
      <4> QED BY <4>1, <4>2, <4>3
    <3> QED BY <3>1, <3>2
  <2>4. Bytes(body, received + n) \in Seq(FileByte) /\ Len(Bytes(body, received + n)) = received + n
    BY <1>1, BytesAreSequence
  <2>5. \A i \in 1..(received + n) : Bytes(body, received + n)[i] = Byte(body, i - 1)
    BY DEF Bytes
  <2> DEFINE joined == writer.crc \o part
             whole == Bytes(body, received + n)
  <2>6. /\ joined \in Seq(FileByte) /\ whole \in Seq(FileByte)
        /\ Len(joined) = Len(whole) /\ \A i \in 1..Len(joined) : joined[i] = whole[i]
    BY <2>2, <2>3, <2>4, <2>5
  <2> HIDE DEF joined, whole
  <2>7. joined = whole
    BY <2>6, SeqEqual
  <2> QED BY <2>7 DEF joined, whole
<1> QED BY <1>4, <1>5, <1>6

(* Init establishes the invariant.                                         *)
LEMMA DownloadInvInit == ASSUME Constants PROVE Init => DownloadInv
<1> SUFFICES ASSUME Init PROVE DownloadInv
  OBVIOUS
<1> USE DEF Init, CacheInit
<1>1. Ranges
  BY EmptySeq DEF Ranges, NoWriter, NoRequest, NoBody, Body, Places
<1> QED BY <1>1 DEF DownloadInv, FileIsServed, WriterIsMine, StreamIsPrefix, HeaderIsErased,
                    StoredIsStreamed, HeaderIsTrue

(* HttpsDownload_ToCache before the writer: nothing is in flash yet.       *)
LEMMA CallKeepsInv ==
    ASSUME Constants, DownloadInv, (\E r \in Requests : ToCache(r)) \/ Open
    PROVE  DownloadInv'
<1> USE DEF DownloadInv, Ranges, FileIsServed, WriterIsMine, StreamIsPrefix, HeaderIsErased,
            StoredIsStreamed
<1>1. UNCHANGED cacheVars /\ served \subseteq served' /\ dpc' # "commitOpen" /\ result' # "ok"
  BY DEF ToCache, Open, Fail
<1>2. HeaderIsTrue'
  BY <1>1 DEF HeaderIsTrue, cacheVars, StoredCrc
<1>3. NoBody \in Body /\ NoRequest.update_id \in Nat /\ NoRequest.target_version \in Nat
  BY DEF NoBody, NoRequest, Body
<1>4. /\ data' = data /\ writer' = writer /\ header' = header
  BY <1>1 DEF cacheVars
<1>5. CASE Fail
  BY <1>1, <1>2, <1>3, <1>4, <1>5 DEF Fail, Places
<1>6. ASSUME NEW r \in Requests, ToCache(r), ~Fail PROVE DownloadInv'
  <2>1. r.update_id \in Nat /\ r.target_version \in Nat
    BY DEF Constants, DownloadAssumption
  <2>2. dpc' = "open" /\ request' = r /\ body' = NoBody /\ received' = 0 /\ result' = "none"
    BY <1>6 DEF ToCache
  <2> QED BY <1>1, <1>2, <1>3, <1>4, <2>1, <2>2 DEF Places
<1>7. CASE Open /\ ~Fail
  <2>1. PICK b \in Bodies : /\ dpc' = "begin" /\ body' = b
                            /\ served' = served \cup
                                   {<<request.update_id, request.target_version, b>>}
                            /\ UNCHANGED <<request, received, result>>
    BY <1>7 DEF Open
  <2>2. b \in Body /\ dpc = "open"
    BY <1>7 DEF Open, Constants, CacheAssumption
  <2> QED BY <1>1, <1>2, <1>4, <2>1, <2>2 DEF Places
<1> QED BY <1>5, <1>6, <1>7

(* ArtifactCache_BeginWrite: the header goes first.                        *)
LEMMA BeginKeepsInv ==
    ASSUME Constants, DownloadInv, BeginHeader \/ BeginData
    PROVE  DownloadInv'
<1> USE DEF DownloadInv, Ranges, FileIsServed, WriterIsMine, StreamIsPrefix, HeaderIsErased,
            StoredIsStreamed
<1>1. NoBody \in Body /\ NoRequest.update_id \in Nat /\ NoRequest.target_version \in Nat
  BY DEF NoBody, NoRequest, Body
<1>2. CASE BeginHeader
  <2>1. data' = data
    BY <1>2 DEF BeginHeader, BeginEraseHeader, BeginHeaderFails, cacheVars
  <2>2. HeaderIsTrue'
    BY <1>2, <2>1 DEF BeginHeader, BeginEraseHeader, BeginHeaderFails, EraseHeaderOk,
                      EraseHeaderFails, Goto, Fail, cacheVars, HeaderIsTrue, StoredCrc
  <2>3. CASE BeginEraseHeader(body.length, request.update_id, request.target_version)
               /\ Goto("beginData") /\ BeginAccepted(body.length, request.update_id,
                                                     request.target_version)
    <3>1. writer' = [active |-> FALSE, update_id |-> request.update_id,
                     target_version |-> request.target_version, expected |-> body.length,
                     written |-> 0, crc |-> <<>>]
      BY <2>3 DEF BeginEraseHeader, NoWriter
    <3>2. body.length \in 1..DATA_SIZE /\ header' = Blank /\ dpc = "begin"
      BY <2>3, <1>2 DEF BeginAccepted, BeginEraseHeader, EraseHeaderOk, BeginHeader
    <3>3. writer' \in [active : BOOLEAN, update_id : Nat, target_version : Nat, expected : Nat,
                       written : Nat, crc : Seq(FileByte)]
      BY <3>1, <3>2, EmptySeq DEF Constants, CacheAssumption
    <3> QED BY <2>1, <2>2, <2>3, <3>1, <3>2, <3>3, EmptySeq DEF Goto, Places
  <2>4. CASE Fail /\ UNCHANGED writer
    BY <1>1, <2>1, <2>2, <2>4 DEF Fail, Places
  <2> QED BY <1>2, <2>3, <2>4 DEF BeginHeader, BeginHeaderFails, cacheVars
<1>3. CASE BeginData
  <2>1. header = Blank /\ header' = Blank /\ dpc = "beginData"
    BY <1>3 DEF BeginData, BeginEraseData, BeginDataFails
  <2>2. HeaderIsTrue'
    BY <2>1 DEF HeaderIsTrue
  <2>3. data' \in [Offsets -> {Blank, Garbage} \cup FileByte]
    BY <1>3 DEF BeginData, BeginEraseData, BeginDataFails, Erased
  <2>4. CASE BeginEraseData /\ Goto("read")
    <3>1. writer' = [writer EXCEPT !.active = TRUE]
      BY <2>4 DEF BeginEraseData
    <3>2. Bytes(body, 0) = <<>>
      BY DEF Bytes
    <3> QED BY <2>1, <2>2, <2>3, <2>4, <3>1, <3>2 DEF Goto, Places
  <2>5. CASE BeginDataFails /\ Fail
    BY <1>1, <2>1, <2>2, <2>3, <2>5 DEF BeginDataFails, Fail, Places
  <2> QED BY <1>3, <2>4, <2>5 DEF BeginData
<1> QED BY <1>2, <1>3

(* ArtifactCache_Write changes bytes of the data area only, and these to   *)
(* bytes of the file or to garbage.                                        *)
LEMMA ProgrammedIsData ==
    ASSUME Constants, Ranges, NEW first \in Nat, NEW bytes \in Seq(FileByte)
    PROVE  Programmed(first, bytes) \in [Offsets -> {Blank, Garbage} \cup FileByte]
<1>1. ASSUME NEW o \in Offsets, o \in first..(first + Len(bytes) - 1)
      PROVE  bytes[o - first + 1] \in FileByte
  <2>1. o - first + 1 \in 1..Len(bytes)
    BY <1>1 DEF Offsets, Constants, CacheAssumption
  <2> QED BY <2>1, ElementOfSeq
<1> QED BY <1>1 DEF Programmed, Ranges

(* The loop of HttpsDownload_ToCache.                                      *)
LEMMA ReadKeepsInv ==
    ASSUME Constants, DownloadInv, Read \/ ReadAgain \/ InactivityDeadline \/ ReadComplete
    PROVE  DownloadInv'
<1> USE DEF DownloadInv, Ranges, FileIsServed, WriterIsMine, StreamIsPrefix, HeaderIsErased,
            StoredIsStreamed
<1>1. dpc = "read" /\ header = Blank /\ header' = Blank /\ result # "ok"
  BY DEF Read, ReadAgain, InactivityDeadline, ReadComplete, Write, WriteCorrupts, WriteFails,
         cacheVars, vars
<1>2. HeaderIsTrue'
  BY <1>1 DEF HeaderIsTrue
<1>3. CASE UNCHANGED cacheVars /\ (Goto("abort") \/ Goto("commit"))
  BY <1>1, <1>2, <1>3 DEF cacheVars, Goto, Places
<1>4. CASE UNCHANGED vars
  BY <1>1, <1>2, <1>4 DEF vars, cacheVars, downloadVars, Places
<1>5. ASSUME NEW n \in 1..BUFFER, n <= body.length - received,
             \/ /\ Write(Received(n)) \/ WriteCorrupts(Received(n))
                /\ received' = received + n
                /\ UNCHANGED <<dpc, request, body, result, served>>
             \/ WriteFails(Received(n)) /\ Cleanup
      PROVE  DownloadInv'
  <2>0. n \in Nat /\ body.length \in Nat
    BY DEF Constants, DownloadAssumption, Body
  <2>1. /\ Received(n) \in Seq(FileByte) /\ Len(Received(n)) = n
        /\ writer.crc \o Received(n) = Bytes(body, received + n)
    BY <1>1, <1>5, <2>0, NextBytes
  <2>2. CASE WriteFails(Received(n)) /\ Cleanup
    <3>1. data' \in [Offsets -> {Blank, Garbage} \cup FileByte]
      <4>1. ASSUME NEW m \in 0..Len(Received(n))
            PROVE  Programmed(writer.written, SubSeq(Received(n), 1, m))
                     \in [Offsets -> {Blank, Garbage} \cup FileByte]
        <5>1. SubSeq(Received(n), 1, m) \in Seq(FileByte)
          BY <2>0, <2>1
        <5> QED BY <5>1, ProgrammedIsData
      <4> QED BY <2>2, <4>1 DEF WriteFails
    <3> QED BY <1>1, <1>2, <2>2, <3>1 DEF WriteFails, Cleanup, Goto, Places
  <2>3. CASE /\ Write(Received(n)) \/ WriteCorrupts(Received(n))
             /\ received' = received + n
             /\ UNCHANGED <<dpc, request, body, result, served>>
    <3>1. Programmed(writer.written, Received(n)) \in [Offsets -> {Blank, Garbage} \cup FileByte]
      BY <2>1, ProgrammedIsData
    <3>2. data' \in [Offsets -> {Blank, Garbage} \cup FileByte]
      BY <2>3, <3>1 DEF Write, WriteCorrupts
    <3>3. /\ writer' = [writer EXCEPT !.crc = @ \o Received(n), !.written = @ + Len(Received(n))]
          /\ Len(Received(n)) <= writer.expected - writer.written
      BY <2>3 DEF Write, WriteCorrupts, WriteAccepted
    <3>4. body \in Bodies /\ received \in Nat /\ received + n \in Nat
      BY <1>1, <2>0
    <3>5. Bytes(body, received + n) \in Seq(FileByte) /\ Len(Bytes(body, received + n)) = received + n
      BY <3>4, BytesAreSequence
    <3>6. writer' = [writer EXCEPT !.crc = Bytes(body, received + n), !.written = received + n]
      BY <1>1, <2>1, <3>3
    <3> DEFINE crc == Bytes(body, received + n)
    <3> HIDE DEF crc
    <3>7. writer' \in [active : BOOLEAN, update_id : Nat, target_version : Nat, expected : Nat,
                       written : Nat, crc : Seq(FileByte)]
      BY <3>4, <3>5, <3>6 DEF crc
    <3>8. /\ writer'.crc = crc /\ writer'.written = received + n
          /\ writer'.expected = writer.expected /\ writer'.update_id = writer.update_id
          /\ writer'.target_version = writer.target_version
      BY <3>6 DEF crc
    <3>9. received + n <= writer.expected /\ Len(crc) = received + n
      BY <1>1, <2>0, <2>1, <3>3, <3>5 DEF crc
    <3>10. crc = Bytes(body, received)'
      BY <2>3 DEF crc, Bytes
    <3> QED BY <1>1, <1>2, <2>3, <3>2, <3>4, <3>7, <3>8, <3>9, <3>10 DEF Places
  <2> QED BY <1>5, <2>2, <2>3
<1> QED BY <1>3, <1>4, <1>5 DEF Read, ReadAgain, InactivityDeadline, ReadComplete, Cleanup

(* ArtifactCache_Commit: compare, publish, open.                           *)
LEMMA CommitKeepsInv ==
    ASSUME Constants, DownloadInv, Commit \/ PublishHeader \/ OpenPublished
    PROVE  DownloadInv'
<1> USE DEF DownloadInv, Ranges, FileIsServed, WriterIsMine, StreamIsPrefix, HeaderIsErased,
            StoredIsStreamed
<1>1. CASE Commit
  <2>1. HeaderIsTrue'
    BY <1>1 DEF Commit, Cleanup, Goto, cacheVars, HeaderIsTrue, StoredCrc
  <2> QED BY <1>1, <2>1 DEF Commit, Cleanup, Goto, cacheVars, CommitVerified, StoredCrc, Places
<1>2. CASE PublishHeader
  <2>1. /\ dpc = "commitHeader" /\ UNCHANGED <<data, writer, request, body, received, result, served>>
        /\ dpc' \in {"commitOpen", "abort"}
    BY <1>2 DEF PublishHeader, CommitHeader, CommitHeaderFails, Cleanup, Goto
  <2>2. /\ received = body.length
        /\ StoredCrc(body.length) = Bytes(body, body.length)
        /\ body.length \in 1..DATA_SIZE
    BY <2>1
  <2> DEFINE new == Header(request.update_id, request.target_version, body.length,
                           Bytes(body, body.length))
  <2>3. /\ header' \in {Blank, Garbage, new}
        /\ dpc' = "commitOpen" => header' = new
    BY <1>2, <2>1, <2>2 DEF PublishHeader, CommitHeader, CommitHeaderFails, Cleanup, Goto
  <2>4. ThisFile' = (header' = new)
    BY <2>1 DEF ThisFile
  <2>5. HeaderIsTrue'
    <3>1. /\ new.update_id = request.update_id /\ new.target_version = request.target_version
          /\ new.size = body.length /\ new.crc = Bytes(body, body.length)
      BY DEF Header
    <3>2. StoredCrc(body.length)' = StoredCrc(body.length)
      BY <2>1 DEF StoredCrc
    <3>3. <<request.update_id, request.target_version, body>> \in served'
      BY <2>1
    <3> HIDE DEF new
    <3>4. CASE header' = new
      <4>1. StoredCrc(header.size)' = StoredCrc(body.length)'
        BY <3>1, <3>4, <2>1
      <4>2. \E s \in served' :
               /\ s[1] = new.update_id /\ s[2] = new.target_version
               /\ new.size = s[3].length /\ new.crc = Bytes(s[3], s[3].length)
        BY <3>1, <3>3
      <4> QED BY <3>4, <3>1, <3>2, <4>1, <4>2, <2>2 DEF HeaderIsTrue
    <3> QED BY <2>3, <3>4 DEF HeaderIsTrue
  <2> HIDE DEF new
  <2> QED BY <2>1, <2>3, <2>4, <2>5 DEF Places
<1>3. CASE OpenPublished
  <2>1. UNCHANGED <<data, served>> /\ dpc = "commitOpen" /\ ThisFile
    BY <1>3 DEF OpenPublished, CommitOpen, CommitOpenFails, Succeed, Cleanup, Goto
  <2>2. writer' = [writer EXCEPT !.active = FALSE]
    BY <1>3 DEF OpenPublished, CommitOpen, CommitOpenFails
  <2>3. HeaderIsTrue'
    BY <1>3, <2>1 DEF OpenPublished, CommitOpen, CommitOpenFails, EraseHeaderFails, HeaderIsTrue,
                      StoredCrc
  <2>4. CASE CommitOpen /\ Succeed
    <3>1. ThisFile'
      BY <2>1, <2>4 DEF CommitOpen, Succeed, ThisFile
    <3> QED BY <2>1, <2>2, <2>3, <2>4, <3>1 DEF Succeed, Places
  <2>5. CASE CommitOpenFails /\ Cleanup
    BY <2>1, <2>2, <2>3, <2>5 DEF Cleanup, Goto, Places
  <2> QED BY <1>3, <2>4, <2>5 DEF OpenPublished
<1> QED BY <1>1, <1>2, <1>3

(* ArtifactCache_Abort and a restart leave no header that was not there.   *)
LEMMA EndKeepsInv ==
    ASSUME Constants, DownloadInv, AbortWriter \/ Restart
    PROVE  DownloadInv'
<1> USE DEF DownloadInv, Ranges, FileIsServed, WriterIsMine, StreamIsPrefix, HeaderIsErased,
            StoredIsStreamed
<1>1. NoBody \in Body /\ NoRequest.update_id \in Nat /\ NoRequest.target_version \in Nat
  BY DEF NoBody, NoRequest, Body
<1>2. HeaderIsTrue'
  BY DEF AbortWriter, Abort, EraseHeaderFails, Fail, Restart, HeaderIsTrue, StoredCrc
<1>3. CASE AbortWriter
  <2>1. writer' = [writer EXCEPT !.active = FALSE]
    BY <1>3 DEF AbortWriter, Abort
  <2> QED BY <1>1, <1>2, <1>3, <2>1 DEF AbortWriter, Abort, Fail, Places
<1>4. CASE Restart
  BY <1>1, <1>2, <1>4, EmptySeq DEF Restart, NoWriter, Places
<1> QED BY <1>3, <1>4

(* Every step preserves the invariant.                                     *)
LEMMA DownloadInvNext == ASSUME Constants PROVE DownloadInv /\ [Next]_vars => DownloadInv'
<1> SUFFICES ASSUME DownloadInv, [Next]_vars PROVE DownloadInv'
  OBVIOUS
<1>1. CASE (\E r \in Requests : ToCache(r)) \/ Open
  BY <1>1, CallKeepsInv
<1>2. CASE BeginHeader \/ BeginData
  BY <1>2, BeginKeepsInv
<1>3. CASE Read \/ ReadAgain \/ InactivityDeadline \/ ReadComplete
  BY <1>3, ReadKeepsInv
<1>4. CASE Commit \/ PublishHeader \/ OpenPublished
  BY <1>4, CommitKeepsInv
<1>5. CASE AbortWriter \/ Restart
  BY <1>5, EndKeepsInv
<1>6. CASE UNCHANGED vars
  BY <1>6 DEF vars, cacheVars, downloadVars, DownloadInv, Ranges, FileIsServed, WriterIsMine,
              StreamIsPrefix, HeaderIsErased, StoredIsStreamed, HeaderIsTrue, StoredCrc, ThisFile
<1> QED BY <1>1, <1>2, <1>3, <1>4, <1>5, <1>6 DEF Next, Worker

CacheIsSound == TypeOK /\ HeaderLast /\ PublishedIsWhole /\ OkIsPublished

(* The invariant implies the four properties.                              *)
LEMMA DownloadInvSuffices == ASSUME Constants PROVE DownloadInv => CacheIsSound
<1> SUFFICES ASSUME DownloadInv PROVE CacheIsSound
  OBVIOUS
<1>1. TypeOK
  <2>1. \A o \in Offsets : data[o] \in {Blank, Garbage} \/ data[o].of \in Bodies
    BY DEF DownloadInv, Ranges, FileByte
  <2> QED BY <2>1 DEF DownloadInv, Ranges, StreamIsPrefix, HeaderIsTrue, Places, TypeOK
<1>2. HeaderLast
  BY DEF DownloadInv, HeaderIsTrue, HeaderLast
<1>3. PublishedIsWhole
  BY DEF DownloadInv, HeaderIsTrue, PublishedIsWhole, OpenAccepts, HeaderValid
<1>4. OkIsPublished
  BY DEF DownloadInv, ThisFile, OkIsPublished
<1> QED BY <1>1, <1>2, <1>3, <1>4 DEF CacheIsSound

(* ArtifactCache and HttpsDownload_ToCache, for all files, requests,       *)
(* buffer, sector and partition sizes, with every failing step, silent     *)
(* corruption and restarts: a readable header describes what is in flash,  *)
(* that is one whole file sent for its update, and ESP_OK means the file   *)
(* of this call.                                                           *)
THEOREM DownloadIsSound ==
    ASSUME CacheAssumption, DownloadAssumption
    PROVE  Spec => []CacheIsSound
<1>1. Constants
  BY DEF Constants
<1>2. Init => DownloadInv
  BY <1>1, DownloadInvInit
<1>3. DownloadInv /\ [Next]_vars => DownloadInv'
  BY <1>1, DownloadInvNext
<1>4. DownloadInv => CacheIsSound
  BY <1>1, DownloadInvSuffices
<1> QED BY <1>2, <1>3, <1>4, PTL DEF Spec

=============================================================================
