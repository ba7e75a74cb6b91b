----------------------------- MODULE ChunkUpload -----------------------------
(***************************************************************************)
(* Uploads of one tick file to the dashboard (server/osc_dash.py): the     *)
(* page's client sends a file in chunks, each until it is acknowledged or  *)
(* three attempts failed; the server keeps the chunks in a directory of    *)
(* the upload and assembles them when the last one is in, and takes a file *)
(* sent in one stream as well.  A request is an attempt at a chunk: it may *)
(* reach the server, or go on there, after the client has given it up.     *)
(* The content of a file is the sequence of what each chunk held: the name *)
(* of the upload it is of, or "torn" while it was still being written.     *)
(***************************************************************************)
EXTENDS Naturals, Sequences, FiniteSets

CONSTANTS
    Uploads,        \* uploads in chunks, all of the same file name
    Streams,        \* uploads in one stream
    Chunks,         \* [Uploads -> how many chunks]
    Attempts,       \* attempts at a chunk
    MaxLost,        \* bound: attempts given up before they are answered
    MaxAged,        \* bound: sweeps that find a directory too old
    MaxDeletes,     \* bound: deletions of the file
    MaxRestarts     \* bound: restarts of the server

ChunkAssumption ==
    /\ Uploads \cap Streams = {}
    /\ Chunks \in [Uploads -> Nat \ {0}]
    /\ Attempts \in Nat \ {0}
    /\ {MaxLost, MaxAged, MaxDeletes, MaxRestarts} \subseteq Nat

VARIABLES
    client,     \* [upload -> the chunk it is at, the attempt, and whether it waits]
    requests,   \* the requests under way on the server: [upload, chunk, attempt, at, read]
    staging,    \* [Uploads -> the directory of its chunks, or NoDir]
    target,     \* the content of the file, <<>> when there is none
    stored,     \* history: uploads that were assembled and put in place
    outlived,   \* history: uploads of which an attempt was given up unanswered
    aged,       \* history: uploads whose directory was swept
    deletes, restarts, sweeps, lost

vars == <<client, requests, staging, target, stored, outlived, aged,
          deletes, restarts, sweeps, lost>>

NoDir == [dir |-> FALSE, chunks |-> <<>>]
NoChunk == [by |-> 0, there |-> FALSE, whole |-> FALSE]

Total(u) == IF u \in Streams THEN 1 ELSE Chunks[u]

EmptyDir(u) == [dir |-> TRUE, chunks |-> [i \in 1..Total(u) |-> NoChunk]]

TypeOK ==
    /\ \A u \in Uploads \cup Streams :
           /\ client[u].chunk \in 1..Total(u)
           /\ client[u].attempt \in 0..Attempts
           /\ client[u].at \in {"ready", "waiting", "done", "failed"}
    /\ \A r \in requests : r.at \in {"sent", "receiving", "queued", "reading", "clearing"}
    /\ \A u \in Uploads : staging[u].dir => DOMAIN staging[u].chunks = 1..Total(u)
    /\ target \in Seq(Uploads \cup Streams \cup {"old", "torn"})

Init ==
    /\ client = [u \in Uploads \cup Streams |-> [chunk |-> 1, attempt |-> 0, at |-> "ready"]]
    /\ requests = {}
    /\ staging = [u \in Uploads |-> NoDir]
    /\ target \in {<<>>, <<"old">>}
    /\ stored = {}
    /\ outlived = {}
    /\ aged = {}
    /\ deletes = 0 /\ restarts = 0 /\ sweeps = 0 /\ lost = 0

-----------------------------------------------------------------------------
(* The client.                                                              *)

(* After a failed attempt it tries again or gives up; a stream is sent once.*)
AfterFailure(u) ==
    [client[u] EXCEPT !.at =
        IF u \in Uploads /\ client[u].attempt < Attempts THEN "ready" ELSE "failed"]

AfterSuccess(u) ==
    IF client[u].chunk = Total(u) THEN [client[u] EXCEPT !.at = "done"]
    ELSE [chunk |-> client[u].chunk + 1, attempt |-> 0, at |-> "ready"]

(* An answer is heard by a client that still waits for that attempt.        *)
Answer(r, ok) ==
    client' = IF client[r.upload] = [chunk |-> r.chunk, attempt |-> r.attempt, at |-> "waiting"]
              THEN [client EXCEPT ![r.upload] =
                        IF ok THEN AfterSuccess(r.upload) ELSE AfterFailure(r.upload)]
              ELSE client

Send(u) ==
    /\ client[u].at = "ready"
    /\ client' = [client EXCEPT ![u].attempt = @ + 1, ![u].at = "waiting"]
    /\ requests' = requests \cup {[upload |-> u, chunk |-> client[u].chunk,
                                   attempt |-> client[u].attempt + 1, at |-> "sent", read |-> <<>>]}
    /\ UNCHANGED <<staging, target, stored, outlived, aged, deletes, restarts, sweeps, lost>>

(* The connection fails on the client's side; the server may not notice.    *)
GiveUp(u) ==
    /\ client[u].at = "waiting" /\ lost < MaxLost
    /\ client' = [client EXCEPT ![u] = AfterFailure(u)]
    /\ outlived' = outlived \cup {u}
    /\ lost' = lost + 1
    /\ UNCHANGED <<requests, staging, target, stored, aged, deletes, restarts, sweeps>>

-----------------------------------------------------------------------------
(* api_upload_chunk.                                                        *)

To(r, at) == (requests \ {r}) \cup {[r EXCEPT !.at = at]}
Over(r) == requests \ {r}

Last(r) == r.chunk = Total(r.upload)

(* _cleanup_abandoned_uploads removes any directory that has not changed    *)
(* for an hour, be it of the upload that now goes on.                       *)
Swept(old) == [u \in Uploads |-> IF u \in old THEN NoDir ELSE staging[u]]

OpenChunk(r, dirs) ==
    LET mine == IF dirs[r.upload].dir THEN dirs[r.upload] ELSE EmptyDir(r.upload)
    IN  [dirs EXCEPT ![r.upload] =
            [mine EXCEPT !.chunks[r.chunk] = [by |-> r.attempt, there |-> TRUE, whole |-> FALSE]]]

(* A request up to its first wait: the sweep; a last chunk whose directory  *)
(* is gone while the file is there counts as assembled before; any other    *)
(* chunk is opened anew, whatever the file held.                            *)
Arrive(r, old) ==
    /\ r.at = "sent" /\ r.upload \in Uploads
    /\ \A u \in old : staging[u].dir
    /\ old # {} => sweeps < MaxAged
    /\ sweeps' = IF old = {} THEN sweeps ELSE sweeps + 1
    /\ aged' = aged \cup old
    /\ LET dirs == Swept(old)
           assembled == Last(r) /\ ~dirs[r.upload].dir /\ target # <<>>
       IN  IF assembled
           THEN staging' = dirs /\ requests' = Over(r) /\ Answer(r, TRUE)
           ELSE staging' = OpenChunk(r, dirs) /\ requests' = To(r, "receiving") /\ UNCHANGED client
    /\ UNCHANGED <<target, stored, outlived, deletes, restarts, lost>>

ArriveStream(r) ==
    /\ r.at = "sent" /\ r.upload \in Streams
    /\ requests' = To(r, "receiving")
    /\ UNCHANGED <<client, staging, target, stored, outlived, aged, deletes, restarts, sweeps, lost>>

Mine(r, c) == c.there /\ c.by = r.attempt

(* The body is all in.  A file that was opened again meanwhile is whole     *)
(* when its last opener has written it.                                     *)
Receive(r) ==
    /\ r.at = "receiving"
    /\ staging' = IF /\ r.upload \in Uploads /\ staging[r.upload].dir
                     /\ Mine(r, staging[r.upload].chunks[r.chunk])
                  THEN [staging EXCEPT ![r.upload].chunks[r.chunk].whole = TRUE]
                  ELSE staging
    /\ IF Last(r) THEN requests' = To(r, "queued") /\ UNCHANGED client
       ELSE requests' = Over(r) /\ Answer(r, TRUE)
    /\ UNCHANGED <<target, stored, outlived, aged, deletes, restarts, sweeps, lost>>

(* The body breaks off, is too long or cannot be written: the file of the   *)
(* chunk is removed, whoever opened it last.                                *)
Break(r) ==
    /\ r.at = "receiving"
    /\ staging' = IF r.upload \in Uploads /\ staging[r.upload].dir
                  THEN [staging EXCEPT ![r.upload].chunks[r.chunk] = NoChunk]
                  ELSE staging
    /\ requests' = Over(r) /\ Answer(r, FALSE)
    /\ UNCHANGED <<target, stored, outlived, aged, deletes, restarts, sweeps, lost>>

-----------------------------------------------------------------------------
(* _finalize_upload and _finalize_stream_upload, in a worker thread.        *)

\* A mutant: a chunk of a directory that is there is taken to be there.
BugThere(u, i) == staging[u].dir

There(u, i) == staging[u].dir /\ staging[u].chunks[i].there

Complete(u) == u \in Streams \/ \A i \in 1..Total(u) : There(u, i)

Locked == \E r \in requests : r.at \in {"reading", "clearing"}

Refuse(r) == requests' = Over(r) /\ Answer(r, FALSE)

(* The lock of the file name is taken, and every chunk looked for.          *)
Lock(r) ==
    /\ r.at = "queued" /\ ~Locked
    /\ IF Complete(r.upload)
       THEN /\ requests' = Over(r) \cup
                   {[r EXCEPT !.at = "reading",
                              !.read = IF r.upload \in Streams THEN <<r.upload>> ELSE <<>>]}
            /\ UNCHANGED client
       ELSE Refuse(r)
    /\ UNCHANGED <<staging, target, stored, outlived, aged, deletes, restarts, sweeps, lost>>

Held(u, i) == IF staging[u].chunks[i].whole THEN u ELSE "torn"

(* One chunk after the other is copied to a file beside the target.         *)
Read(r) ==
    /\ r.at = "reading" /\ Len(r.read) < Total(r.upload)
    /\ LET i == Len(r.read) + 1
       IN  IF There(r.upload, i)
           THEN /\ requests' = Over(r) \cup {[r EXCEPT !.read = Append(@, Held(r.upload, i))]}
                /\ UNCHANGED client
           ELSE Refuse(r)
    /\ UNCHANGED <<staging, target, stored, outlived, aged, deletes, restarts, sweeps, lost>>

(* The copy fails: it is removed and the target stays as it was.            *)
ReadFails(r) ==
    /\ r.at = "reading" /\ Refuse(r)
    /\ UNCHANGED <<staging, target, stored, outlived, aged, deletes, restarts, sweeps, lost>>

Commit(r) ==
    /\ r.at = "reading" /\ Len(r.read) = Total(r.upload)
    /\ target' = r.read
    /\ stored' = stored \cup {r.upload}
    /\ requests' = To(r, "clearing")
    /\ UNCHANGED <<client, staging, outlived, aged, deletes, restarts, sweeps, lost>>

(* The directory is removed, the lines are counted and indexed, each of     *)
(* which swallows its own errors; the lock is given back and the client is  *)
(* answered.                                                                *)
Clear(r) ==
    /\ r.at = "clearing"
    /\ staging' = IF r.upload \in Uploads THEN [staging EXCEPT ![r.upload] = NoDir] ELSE staging
    /\ requests' = Over(r) /\ Answer(r, TRUE)
    /\ UNCHANGED <<target, stored, outlived, aged, deletes, restarts, sweeps, lost>>

-----------------------------------------------------------------------------
(* api_delete_tick_file. *)
Delete ==
    /\ target # <<>> /\ deletes < MaxDeletes
    /\ target' = <<>>
    /\ deletes' = deletes + 1
    /\ UNCHANGED <<client, requests, staging, stored, outlived, aged, restarts, sweeps, lost>>

(* The server dies with its requests; its files stay.                       *)
Restart ==
    /\ restarts < MaxRestarts
    /\ restarts' = restarts + 1
    /\ requests' = {}
    /\ client' = [u \in DOMAIN client |->
                      IF client[u].at = "waiting" THEN AfterFailure(u) ELSE client[u]]
    /\ UNCHANGED <<staging, target, stored, outlived, aged, deletes, sweeps, lost>>

Next ==
    \/ \E u \in Uploads \cup Streams : Send(u) \/ GiveUp(u)
    \/ \E r \in requests :
           \/ \E old \in SUBSET Uploads : Arrive(r, old)
           \/ ArriveStream(r) \/ Receive(r) \/ Break(r)
           \/ Lock(r) \/ Read(r) \/ ReadFails(r) \/ Commit(r) \/ Clear(r)
    \/ Delete \/ Restart

-----------------------------------------------------------------------------
(* The file is never made of two uploads nor cut short: it is of one, with  *)
(* a part torn only where an attempt went on after its client had given it  *)
(* up (_finalize_upload, under the lock of the name).                       *)
FileIsOneUpload ==
    target \in {<<>>, <<"old">>} \/ \E u \in stored :
        /\ Len(target) = Total(u)
        /\ \A i \in 1..Len(target) : target[i] \in {u} \cup (IF u \in outlived THEN {"torn"} ELSE {})

(* A client that was told its file is stored had it put in place, unless    *)
(* the file is one chunk or its directory was swept: then a last chunk      *)
(* without a directory is taken for a repeated one.                         *)
ToldIsStored ==
    \A u \in Uploads \cup Streams :
        client[u].at = "done" /\ Total(u) > 1 /\ u \notin aged => u \in stored

(* No upload loses what it has acknowledged: when a client waits for its    *)
(* last chunk the others are there, unless an attempt was given up before,  *)
(* the directory was swept, or it is already assembled.                     *)
AcknowledgedChunksKept ==
    \A u \in Uploads :
        client[u].at \in {"ready", "waiting"} /\ u \notin outlived \cup aged \cup stored =>
            \A i \in 1..(client[u].chunk - 1) : There(u, i) /\ staging[u].chunks[i].whole
=============================================================================
