------------------------------ MODULE Recording ------------------------------
(***************************************************************************)
(* The live view recorder: chunks are taken in by index and put in MinIO,  *)
(* and played back and exported from there.                                *)
(*                                                                         *)
(* The sessions live in the process only: a restart forgets them, and what *)
(* the buckets hold stays.  What the Admin API says of a recording is      *)
(* modelled by what the interfaces here ask of it: an approval, a row.     *)
(* Nothing destroys a recording: the retention job runs every day over the *)
(* list of a stub, which is empty (cmd/livrec/main.go, stubSessionExpirer).*)
(* Audit entries are sent by goroutines of their own and nothing waits for *)
(* them: they are left out.                                                *)
(*                                                                         *)
(* Bounds: MaxChunk is the last index sent, MaxLives the number of lives   *)
(* of the process.                                                         *)
(***************************************************************************)
EXTENDS Integers, Sequences, FiniteSets

CONSTANTS Sessions, Uploads, Readers, MaxChunk, MaxLives

VARIABLES
  life,    \* lives of the process so far
  sess,    \* the process's sessions
  up,      \* the chunk requests under way
  chunk,   \* the life in which each stored chunk was put, 0 when there is none
  acked,   \* the life in which each chunk was answered with 204, 0 when never
  reader   \* playbacks and exports

vars == <<life, sess, up, chunk, acked, reader>>

Index == 0..MaxChunk
NoSession == [state |-> "none", next |-> 0]
NewSession == [state |-> "waiting", next |-> 0]
NoUpload == [pc |-> "idle", of |-> "none", idx |-> 0]
NoReader == [pc |-> "idle", op |-> "none", of |-> "none", keys |-> <<>>, out |-> <<>>]
None == {"none"}

TypeOK ==
  /\ life \in 1..MaxLives
  /\ sess \in [Sessions -> [state : {"none", "waiting", "recording", "error"}, next : 0..(MaxChunk + 1)]]
  /\ up \in [Uploads -> [pc : {"idle", "bootstrap", "accept", "put"}, of : Sessions \cup None, idx : Index]]
  /\ chunk \in [Sessions -> [Index -> 0..MaxLives]] /\ acked \in [Sessions -> [Index -> 0..MaxLives]]
  /\ \A r \in Readers : /\ reader[r].pc \in {"idle", "unwrap", "list", "get", "end"}
                        /\ reader[r].op \in {"none", "play", "export"} /\ reader[r].of \in Sessions \cup None

Init ==
  /\ life = 1
  /\ sess = [s \in Sessions |-> NoSession]
  /\ up = [w \in Uploads |-> NoUpload]
  /\ chunk = [s \in Sessions |-> [i \in Index |-> 0]]
  /\ acked = [s \in Sessions |-> [i \in Index |-> 0]]
  /\ reader = [r \in Readers |-> NoReader]

Stored(s) == {i \in Index : chunk[s][i] # 0}

-----------------------------------------------------------------------------
\* A chunk comes in, any index, any number of times.
ServeHTTP(w, s, i) ==
  /\ up[w].pc = "idle"
  /\ \A v \in Uploads : v < w => up[v].pc # "idle"   \* requests are alike: the first free slot
  /\ up' = [up EXCEPT ![w] = [pc |-> IF sess[s].state = "none" THEN "bootstrap" ELSE "accept", of |-> s, idx |-> i]]
  /\ UNCHANGED <<life, sess, chunk, acked, reader>>

\* Two first chunks may both find no session: the second takes the first's.
GetOrCreate(s) == sess' = IF sess[s].state = "none" THEN [sess EXCEPT ![s] = NewSession] ELSE sess

BootstrapSession(w) ==
  /\ up[w].pc = "bootstrap"
  /\ GetOrCreate(up[w].of)
  /\ up' = [up EXCEPT ![w].pc = "accept"]
  /\ UNCHANGED <<life, chunk, acked, reader>>

\* The key cannot be derived or wrapped.
DeriveFails(w) ==
  /\ up[w].pc = "bootstrap"
  /\ up' = [up EXCEPT ![w] = NoUpload]
  /\ UNCHANGED <<life, sess, chunk, acked, reader>>

\* Only the next index, and only while nothing has failed, moves the session on.
AcceptChunk(w) ==
  LET s == up[w].of IN
  /\ up[w].pc = "accept"
  /\ IF sess[s].state # "error" /\ up[w].idx = sess[s].next
     THEN /\ sess' = [sess EXCEPT ![s] = [state |-> "recording", next |-> @.next + 1]]
          /\ up' = [up EXCEPT ![w].pc = "put"]
     ELSE sess' = sess /\ up' = [up EXCEPT ![w] = NoUpload]
  /\ UNCHANGED <<life, chunk, acked, reader>>

Put(w) == [chunk EXCEPT ![up[w].of][up[w].idx] = life]

PutChunk(w) ==
  /\ up[w].pc = "put"
  /\ chunk' = Put(w)
  /\ acked' = [acked EXCEPT ![up[w].of][up[w].idx] = life]
  /\ up' = [up EXCEPT ![w] = NoUpload]
  /\ UNCHANGED <<life, sess, reader>>

\* Mutant: the index is given back, and the session left open for a second try.
FailReopens(w) ==
  /\ up[w].pc = "put"
  /\ sess' = [sess EXCEPT ![up[w].of].next = up[w].idx]
  /\ chunk' \in {chunk, Put(w)}
  /\ up' = [up EXCEPT ![w] = NoUpload]
  /\ UNCHANGED <<life, acked, reader>>

\* The put fails, or only its answer is lost: the session takes no more chunks.
Fail(w) ==
  /\ up[w].pc = "put"
  /\ sess' = [sess EXCEPT ![up[w].of].state = "error"]
  /\ chunk' \in {chunk, Put(w)}
  /\ up' = [up EXCEPT ![w] = NoUpload]
  /\ UNCHANGED <<life, acked, reader>>
-----------------------------------------------------------------------------
\* Playback wants an approval when it starts, an export the DPO's role; both
\* then read the row and unwrap the key.
CheckPlaybackApproval(r, s) ==
  /\ reader[r].pc = "idle"
  /\ reader' = [reader EXCEPT ![r] = [NoReader EXCEPT !.pc = "unwrap", !.op = "play", !.of = s]]
  /\ UNCHANGED <<life, sess, up, chunk, acked>>

GetRecordingForExport(r, s) ==
  /\ reader[r].pc = "idle"
  /\ reader' = [reader EXCEPT ![r] = [NoReader EXCEPT !.pc = "unwrap", !.op = "export", !.of = s]]
  /\ UNCHANGED <<life, sess, up, chunk, acked>>

Unwrap(r) ==
  /\ reader[r].pc = "unwrap"
  /\ reader' = [reader EXCEPT ![r].pc = "list"]
  /\ UNCHANGED <<life, sess, up, chunk, acked>>

\* The keys are sorted as text: chunk-10 comes before chunk-2.
TextBefore(i, j) ==
  LET first(n) == IF n < 10 THEN n ELSE n \div 10 IN
  \/ first(i) < first(j)
  \/ first(i) = first(j) /\ i < j

SortStrings(S) ==
  [n \in 1..Cardinality(S) |-> CHOOSE i \in S : Cardinality({j \in S : TextBefore(j, i)}) = n - 1]

ListChunks(r) ==
  /\ reader[r].pc = "list"
  /\ reader' = [reader EXCEPT ![r].pc = "get", ![r].keys = SortStrings(Stored(reader[r].of))]
  /\ UNCHANGED <<life, sess, up, chunk, acked>>

\* A chunk is sealed with its index, and an export opens it with its place.
DecryptChunk(r, i) == reader[r].op = "export" => i = Len(reader[r].out)

GetChunk(r) ==
  LET keys == reader[r].keys IN
  /\ reader[r].pc = "get" /\ keys # <<>>
  /\ Head(keys) \in Stored(reader[r].of) /\ DecryptChunk(r, Head(keys))
  /\ reader' = [reader EXCEPT ![r].keys = Tail(keys), ![r].out = Append(@, Head(keys))]
  /\ UNCHANGED <<life, sess, up, chunk, acked>>

\* Any step of a reader may fail; a chunk that is gone or does not open ends it.
ReadFails(r) ==
  /\ reader[r].pc # "idle"
  /\ reader' = [reader EXCEPT ![r] = NoReader]
  /\ UNCHANGED <<life, sess, up, chunk, acked>>

\* The stream's end event, the export's package.
Finish(r) ==
  /\ reader[r].pc = "get" /\ reader[r].keys = <<>>
  /\ reader' = [reader EXCEPT ![r].pc = "end"]
  /\ UNCHANGED <<life, sess, up, chunk, acked>>
\* The process ends: sessions, requests and readers are forgotten; a put that
\* was under way has reached MinIO or not.
Restart ==
  /\ life < MaxLives /\ life' = life + 1
  /\ \E landed \in SUBSET {w \in Uploads : up[w].pc = "put"} :
       chunk' = [s \in Sessions |-> [i \in Index |->
                   IF \E w \in landed : up[w].of = s /\ up[w].idx = i THEN life ELSE chunk[s][i]]]
  /\ sess' = [s \in Sessions |-> NoSession]
  /\ up' = [w \in Uploads |-> NoUpload]
  /\ reader' = [r \in Readers |-> NoReader]
  /\ UNCHANGED acked
-----------------------------------------------------------------------------
Next ==
  \/ \E w \in Uploads : \/ \E s \in Sessions, i \in Index : ServeHTTP(w, s, i)
                        \/ BootstrapSession(w) \/ DeriveFails(w) \/ AcceptChunk(w) \/ PutChunk(w) \/ Fail(w)
  \/ \E r \in Readers : \/ \E s \in Sessions : CheckPlaybackApproval(r, s) \/ GetRecordingForExport(r, s)
                        \/ Unwrap(r) \/ ListChunks(r) \/ GetChunk(r) \/ Finish(r) \/ ReadFails(r)
  \/ Restart

Spec == Init /\ [][Next]_vars
-----------------------------------------------------------------------------
(***************************************************************************)
(* Properties.                                                             *)
(***************************************************************************)
\* In one life of the process a chunk has one writer: no second put of an
\* index is under way or done, however often the chunk is sent and however
\* many first chunks race (session.go, AcceptChunk; handler.go, GetOrCreate).
OneWriter == \A w \in Uploads : up[w].pc = "put" =>
  /\ chunk[up[w].of][up[w].idx] # life
  /\ \A v \in Uploads \ {w} : up[v].pc = "put" => <<up[v].of, up[v].idx>> # <<up[w].of, up[w].idx>>

\* A chunk that is missing below one that was answered is still being put, or
\* the session has failed and says so.
GapsMarked == \A s \in Sessions : \A i \in Index : acked[s][i] = life =>
  \A j \in 0..i : \/ chunk[s][j] = life
                  \/ sess[s].state = "error"
                  \/ \E w \in Uploads : up[w].pc = "put" /\ up[w].of = s /\ up[w].idx = j

\* An exported recording has no gap and no chunk out of place.
ExportWhole == \A r \in Readers : reader[r].pc = "end" /\ reader[r].op = "export" =>
  \A i \in DOMAIN reader[r].out : reader[r].out[i] = i - 1

\* What the upload and the readers promise.
ChunksTrue == OneWriter /\ GapsMarked /\ ExportWhole

\* What the uploads and the players may rely on.
RecordingTrue == TypeOK /\ ChunksTrue
=============================================================================
