--------------------------- MODULE ChunkedUpload ---------------------------
(***************************************************************************)
(* One chunked upload of a character model: the page's loop                *)
(* (src/front-ze/utils/uploadUtils.ts, over fetchUrl) and the handlers of  *)
(* its requests (src/src/core/chunked_upload.rs, src/src/routers/          *)
(* characters.rs). An answer may be lost at any time: the page tries again *)
(* while the handler of the first try may still be running, and nothing at *)
(* the server keeps two handlers of one session apart.                     *)
(***************************************************************************)
EXTENDS Absent, FetchUrl, FiniteSets

CONSTANTS
  NChunks,    \* total_chunks
  MaxRetries, \* MAX_RETRIES of uploadChunkWithRetry
  MaxSlots    \* bound: requests at the server at one time

Chunks == 0..(NChunks - 1)
Slots == 1..MaxSlots

ASSUME UploadAssumption ==
  /\ NChunks \in Nat \ {0} /\ MaxRetries \in Nat \ {0} /\ MaxSlots \in Nat \ {0}
  /\ None \notin Slots /\ None \notin {"success", "failed", "cancelled"}

VARIABLES
  backend,   \* STORAGE_BACKEND: local or r2, as the process was started
  session,   \* the session in Redis: is it there, and chunks_received
  disk,      \* its temp directory: is it there, the chunk files, assembled.glb
  live,      \* the model's file or object
  row,       \* the model's row in the database: old, or this upload's
  req,       \* the requests at the server and how far their handlers are
  phase,     \* the page: the operation it is at, or ended
  index,     \* chunkIndex
  attempt,   \* of uploadChunkWithRetry
  tries,     \* of fetchUrl
  lastError, \* the error last thrown by fetchUrl, or None
  aborted,   \* signal.aborted
  wait,      \* the request it awaits, or None
  outcome,   \* what the page told its user, or None
  overlapped \* history: a completion was asked for while another was at work

serverVars == <<backend, session, disk, live, row>>
pageVars == <<phase, index, attempt, tries, lastError, aborted, wait, outcome,
              overlapped>>
vars == <<serverVars, req, pageVars>>

-----------------------------------------------------------------------------
(* Files: whose bytes, which of the chunks they hold at their place, whether the *)
(* length is that of the whole, and the completions that have it open.           *)

Old == [mine |-> FALSE, have |-> Chunks, long |-> TRUE, by |-> {}]
Gone == [mine |-> FALSE, have |-> {}, long |-> FALSE, by |-> {}]
Whole(f) == f.mine /\ f.have = Chunks

NoSession == [open |-> FALSE, received |-> {}]
NoDisk == [dir |-> FALSE, file |-> [c \in Chunks |-> "no"], tmp |-> Gone]

NoRequest == [op |-> "none", chunk |-> 0, pc |-> "none",
              seen |-> {}, short |-> {}, stored |-> FALSE]

Init ==
  /\ backend \in {"local", "r2"}
  /\ session = NoSession /\ disk = NoDisk
  /\ live = Old /\ row = "old"
  /\ req = [s \in Slots |-> NoRequest]
  /\ phase = "initiate" /\ index = 0 /\ attempt = 0 /\ tries = Fresh
  /\ lastError = None /\ aborted = FALSE /\ wait = None /\ outcome = None /\ overlapped = FALSE

-----------------------------------------------------------------------------
(* The page. *)

Begin(op) == phase' = op /\ tries' = Fresh

(* Every path ends with what the page's user is told. *)
End(result) == phase' = "ended" /\ outcome' = result /\ UNCHANGED tries

(* A promise that rejected with an abort is told as cancelled. *)
EndBy(error) == End(IF error = "abort" THEN "cancelled" ELSE "failed")

(* fetch() is called, unless the signal has been aborted: the cancel request *)
(* has no signal.                                                            *)
SendChunk ==
  /\ phase # "ended" /\ wait = None
  /\ aborted => phase = "cancel"
  /\ \E s \in Slots :
       /\ req[s] = NoRequest
       /\ \A t \in Slots : req[t] = NoRequest => s <= t
       /\ req' = [req EXCEPT ![s] = [NoRequest EXCEPT !.op = phase, !.chunk = index, !.pc = "sent"]]
       /\ wait' = s
  /\ overlapped' = (overlapped \/ (phase = "complete" /\ \E t \in Slots : req[t].op = "complete"))
  /\ UNCHANGED <<serverVars, phase, index, attempt, tries, lastError, aborted, outcome>>

(* fetchApiUrl returned. *)
Returned ==
  /\ lastError' = IF phase = "cancel" THEN lastError ELSE None
  /\ attempt' = 0
  /\ \/ phase = "initiate" /\ Begin("chunks") /\ UNCHANGED <<index, outcome>>
     \/ /\ phase = "chunks" /\ index + 1 < NChunks
        /\ index' = index + 1
        /\ Begin("chunks") /\ UNCHANGED outcome
     \/ /\ phase = "chunks" /\ index + 1 = NChunks
        /\ Begin("complete") /\ UNCHANGED <<index, outcome>>
     \/ phase = "complete" /\ End("success") /\ UNCHANGED index
     \/ phase = "cancel" /\ EndBy(lastError) /\ UNCHANGED index

(* Mutant of Thrown: the attempts at a chunk are not counted. *)
ThrownUncounted(error) ==
  \/ /\ phase = "chunks" /\ error # "abort"
     /\ Begin("chunks") /\ lastError' = error
     /\ UNCHANGED <<index, outcome, attempt>>
  \/ /\ phase = "chunks" /\ error = "abort"
     /\ Begin("cancel") /\ lastError' = error
     /\ UNCHANGED <<index, attempt, outcome>>
  \/ /\ phase \in {"initiate", "complete"}
     /\ EndBy(error) /\ lastError' = error /\ UNCHANGED <<index, attempt>>
  \/ phase = "cancel" /\ EndBy(lastError) /\ UNCHANGED <<index, attempt, lastError>>

(* fetchApiUrl threw. A chunk is tried again after any error but an abort:   *)
(* the errors of fetchUrl carry a code and no status, so the test for client *)
(* errors in uploadChunkWithRetry never holds. A failed cancel is ignored.   *)
Thrown(error) ==
  \/ /\ phase = "chunks" /\ error # "abort" /\ attempt + 1 < MaxRetries
     /\ Begin("chunks") /\ attempt' = attempt + 1 /\ lastError' = error
     /\ UNCHANGED <<index, outcome>>
  \/ /\ phase = "chunks" /\ (error = "abort" \/ attempt + 1 = MaxRetries)
     /\ Begin("cancel") /\ lastError' = error
     /\ UNCHANGED <<index, attempt, outcome>>
  \/ /\ phase \in {"initiate", "complete"}
     /\ EndBy(error) /\ lastError' = error /\ UNCHANGED <<index, attempt>>
  \/ phase = "cancel" /\ EndBy(lastError) /\ UNCHANGED <<index, attempt, lastError>>

(* An answer that did not bring data, or none at all, through fetchUrl. *)
NoData(answer) ==
  IF Ends(tries, answer) THEN Thrown(IF answer = "refused" THEN "refused" ELSE "broken")
  ELSE tries' = Counted(tries, answer) /\ UNCHANGED <<phase, index, attempt, lastError, outcome>>

Receive(s) ==
  /\ wait = s /\ req[s].pc \in {"data", "refused"}
  /\ wait' = None
  /\ req' = [req EXCEPT ![s] = NoRequest]
  /\ IF req[s].pc = "data" THEN Returned ELSE NoData("refused")
  /\ UNCHANGED <<serverVars, aborted, overlapped>>

(* The connection breaks: the handler is dropped with it, or goes on unheard. *)
(* (The session of an initiate goes unheard of, and is not modelled.)         *)
Unheard(s) ==
  \/ req' = [req EXCEPT ![s] = NoRequest]
  \/ req[s].op # "initiate" /\ req[s].pc \notin {"data", "refused"} /\ UNCHANGED req

Lose(s) ==
  /\ wait = s
  /\ wait' = None
  /\ Unheard(s)
  /\ NoData("broken")
  /\ UNCHANGED <<serverVars, aborted, overlapped>>

(* HTTP 429: no handler runs. *)
TurnAway(s) ==
  /\ wait = s /\ req[s].pc = "sent"
  /\ wait' = None
  /\ req' = [req EXCEPT ![s] = NoRequest]
  /\ NoData("limited")
  /\ UNCHANGED <<serverVars, aborted, overlapped>>

(* The API process is restarted: Redis, the files and the database stay. *)
Restart ==
  /\ \E s \in Slots : req[s] # NoRequest
  /\ req' = [s \in Slots |-> NoRequest]
  /\ IF wait = None THEN UNCHANGED <<wait, phase, index, attempt, tries, lastError, outcome>>
     ELSE wait' = None /\ NoData("broken")
  /\ UNCHANGED <<serverVars, aborted, overlapped>>

(* The Cancel Upload button, there once a chunk's progress was reported. *)
Abort ==
  /\ ~aborted
  /\ phase \in {"chunks", "complete"} /\ (index > 0 \/ phase = "complete")
  /\ aborted' = TRUE
  /\ IF wait = None THEN UNCHANGED <<wait, req>> ELSE wait' = None /\ Unheard(wait)
  /\ UNCHANGED <<serverVars, phase, index, attempt, tries, lastError, outcome, overlapped>>

(* The loops notice: a rejected fetch, or signal.aborted at their head. *)
NoticeAbort ==
  /\ aborted /\ phase \in {"chunks", "complete"} /\ wait = None
  /\ Thrown("abort")
  /\ UNCHANGED <<serverVars, req, aborted, wait, overlapped>>

-----------------------------------------------------------------------------
(* The handlers. Each runs on its own; between two awaits the others do. *)

At(s, op, pc) == req[s].op = op /\ req[s].pc = pc
Reaches(s, pc) == req' = [req EXCEPT ![s].pc = pc]

(* The handler is done: a request nobody waits for is over. *)
Answers_(s, a) == req' = [req EXCEPT ![s] = IF wait = s THEN [@ EXCEPT !.pc = a] ELSE NoRequest]

(* A step that only ends in an answer. *)
JustAnswers(s, a) == Answers_(s, a) /\ UNCHANGED serverVars

CleanUp == disk' = NoDisk

(* initiate: a session of its own id, and its directory. The page never learns *)
(* the id of a session whose answer was lost, so that one is not modelled.     *)
Initiate(s) ==
  /\ At(s, "initiate", "sent")
  /\ session' = [open |-> TRUE, received |-> {}]
  /\ disk' = [NoDisk EXCEPT !.dir = TRUE]
  /\ Answers_(s, "data")
  /\ UNCHANGED <<backend, live, row>>

(* A step that fails and leaves nothing behind. *)
Refuses(s) ==
  /\ req[s].op \in {"initiate", "chunks", "complete"} /\ req[s].pc \in {"sent", "body", "writing"}
  /\ JustAnswers(s, "refused")

(* upload_chunk reads the session before it reads the body. *)
ReadSession(s) ==
  /\ At(s, "chunks", "sent") /\ session.open
  /\ req' = [req EXCEPT ![s].pc = "body", ![s].seen = session.received]
  /\ UNCHANGED serverVars

(* The body is there, of a chunk the session lists: it is left as it is. *)
LeaveChunk(s) ==
  /\ At(s, "chunks", "body") /\ req[s].chunk \in req[s].seen
  /\ JustAnswers(s, "data")

(* Any other: tokio::fs::write truncates the file first. *)
WriteBegins(s) ==
  /\ At(s, "chunks", "body") /\ req[s].chunk \notin req[s].seen /\ disk.dir
  /\ disk' = [disk EXCEPT !.file[req[s].chunk] = "part"]
  /\ Reaches(s, "writing")
  /\ UNCHANGED <<backend, session, live, row>>

WriteEnds(s) ==
  /\ At(s, "chunks", "writing")
  /\ disk' = IF disk.dir THEN [disk EXCEPT !.file[req[s].chunk] = "full"] ELSE disk
  /\ Reaches(s, "save")
  /\ UNCHANGED <<backend, session, live, row>>

(* The session as it was read, with this chunk added, is written back. *)
Extended(s) == [open |-> TRUE, received |-> req[s].seen \union {req[s].chunk}]

SaveSession(s) ==
  /\ At(s, "chunks", "save")
  /\ session' = Extended(s)
  /\ Answers_(s, "data")
  /\ UNCHANGED <<backend, disk, live, row>>

(* update_session failed, applied or not: the file is there either way. *)
SaveFails(s) ==
  /\ At(s, "chunks", "save")
  /\ session' \in {session, Extended(s)}
  /\ Answers_(s, "refused")
  /\ UNCHANGED <<backend, disk, live, row>>

(* assemble_and_store begins: the session, and a chunk count that must be full. *)
ReadComplete(s) ==
  /\ At(s, "complete", "sent")
  /\ session.open /\ Cardinality(session.received) = NChunks
  /\ Reaches(s, "create")
  /\ UNCHANGED serverVars

(* local_path: with local storage the chunks go straight into the model's file. *)
Target == IF backend = "local" THEN live ELSE disk.tmp

SetTarget(f) ==
  IF backend = "local"
    THEN live' = f /\ UNCHANGED disk
    ELSE disk' = [disk EXCEPT !.dir = TRUE, !.tmp = f] /\ UNCHANGED live

(* create_dir_all and File::create, which empties a file that is there. seen now *)
(* holds the chunks copied.                                                      *)
Create(s) ==
  /\ At(s, "complete", "create")
  /\ SetTarget([mine |-> TRUE, have |-> {}, long |-> FALSE, by |-> Target.by \union {s}])
  /\ req' = [req EXCEPT ![s].pc = "copy", ![s].seen = {}]
  /\ UNCHANGED <<backend, session, row>>

(* Chunk c is written to f, unless one was read short. One that is short leaves  *)
(* its place as it was, and those after it come too early, over the places of    *)
(* those from it on.                                                             *)
Written(f, c, before, short) ==
  IF short = {} THEN [f EXCEPT !.have = @ \union {c}, !.long = @ \/ c = NChunks - 1]
  ELSE IF before = {} THEN f
  ELSE [f EXCEPT !.have = @ \ short]

Closed(f, s, c) == IF c = NChunks - 1 THEN [f EXCEPT !.by = @ \ {s}] ELSE f

(* Chunk c, short or not. What is written to a file that was removed meanwhile is *)
(* in no file.                                                                    *)
CopyChunk(s, c) ==
  LET before == req[s].short
      short == IF before = {} /\ disk.file[c] = "full" THEN {} ELSE before \union {c}
  IN
  /\ req' = [req EXCEPT ![s].short = short, ![s].seen = @ \union {c},
                        ![s].pc = IF c = NChunks - 1 THEN "check" ELSE "copy"]
  /\ IF s \in Target.by
       THEN SetTarget(Closed(Written(Target, c, before, short), s, c))
       ELSE UNCHANGED <<live, disk>>

(* The next chunk, if its file can be opened. *)
Copy(s) ==
  /\ At(s, "complete", "copy")
  /\ \E c \in Chunks : req[s].seen = 0..(c - 1) /\ disk.file[c] # "no" /\ CopyChunk(s, c)
  /\ UNCHANGED <<backend, session, row>>

(* A chunk that is not there, a full disk, a path without metadata: the chunks are *)
(* removed, the file stays as far as it was written.                               *)
AssembleFails(s) ==
  /\ \E pc \in {"create", "copy", "check"} : At(s, "complete", pc)
  /\ CleanUp
  /\ Answers_(s, "refused")
  /\ UNCHANGED <<backend, session, live, row>>

(* Mutant of CheckSize: any file will do. *)
CheckNothing(s) ==
  /\ At(s, "complete", "check")
  /\ Reaches(s, "store")
  /\ UNCHANGED serverVars

(* metadata of the path. A file of another length is removed, whoever is writing *)
(* it, or that fails.                                                            *)
CheckSize(s) ==
  /\ At(s, "complete", "check") /\ Target # Gone
  /\ \/ Target.long /\ Reaches(s, "store") /\ UNCHANGED <<disk, live>>
     \/ ~Target.long /\ Reaches(s, "clean") /\ (SetTarget(Gone) \/ UNCHANGED <<disk, live>>)
  /\ UNCHANGED <<backend, session, row>>

CleanAfterRemoval(s) ==
  /\ At(s, "complete", "clean")
  /\ CleanUp
  /\ Answers_(s, "refused")
  /\ UNCHANGED <<backend, session, live, row>>

(* store_file: nothing to do for a file that is already in its place; an object is *)
(* put from the assembled file as it is now, all of it or none.                    *)
Put == backend = "r2" /\ disk.tmp # Gone /\ live' = [disk.tmp EXCEPT !.by = {}]

StoreFile(s) ==
  /\ At(s, "complete", "store")
  /\ Put \/ (backend = "local" /\ UNCHANGED live)
  /\ Reaches(s, "upsert")
  /\ UNCHANGED <<backend, session, disk, row>>

(* The put failed, applied or not. *)
StoreFails(s) ==
  /\ At(s, "complete", "store") /\ backend = "r2"
  /\ Put \/ UNCHANGED live
  /\ CleanUp
  /\ Answers_(s, "refused")
  /\ UNCHANGED <<backend, session, row>>

(* The model's row. A query that fails was applied or not, and one that was not *)
(* has failed; the session is discarded next in any case.                       *)
Upsert(s) ==
  /\ At(s, "complete", "upsert")
  /\ \E applied \in BOOLEAN : \E stored \in {FALSE, applied} :
       /\ row' = IF applied THEN "new" ELSE row
       /\ req' = [req EXCEPT ![s].pc = "discard", ![s].stored = stored]
  /\ UNCHANGED <<backend, session, disk, live>>

(* discard: the directory, then the session. *)
DiscardFiles(s) ==
  /\ At(s, "complete", "discard")
  /\ CleanUp
  /\ Reaches(s, "forget")
  /\ UNCHANGED <<backend, session, live, row>>

(* A DEL that fails is ignored. *)
DiscardSession(s) ==
  /\ At(s, "complete", "forget")
  /\ session' \in {NoSession, session}
  /\ Answers_(s, IF req[s].stored THEN "data" ELSE "refused")
  /\ UNCHANGED <<backend, disk, live, row>>

(* cancel removes the directory whether it finds a session or not. *)
Cancel(s) ==
  /\ At(s, "cancel", "sent")
  /\ CleanUp
  /\ IF session.open THEN Reaches(s, "forget") ELSE Answers_(s, "data")
  /\ UNCHANGED <<backend, session, live, row>>

CancelForgets(s) ==
  /\ At(s, "cancel", "forget")
  /\ session' \in {NoSession, session}
  /\ Answers_(s, "data")
  /\ UNCHANGED <<backend, disk, live, row>>

Handler(s) ==
  \/ Initiate(s) \/ Refuses(s)
  \/ ReadSession(s) \/ LeaveChunk(s) \/ WriteBegins(s) \/ WriteEnds(s) \/ SaveSession(s) \/ SaveFails(s)
  \/ ReadComplete(s) \/ Create(s) \/ Copy(s) \/ AssembleFails(s)
  \/ CheckSize(s) \/ CleanAfterRemoval(s)
  \/ StoreFile(s) \/ StoreFails(s) \/ Upsert(s)
  \/ DiscardFiles(s) \/ DiscardSession(s)
  \/ Cancel(s) \/ CancelForgets(s)

Next ==
  \/ SendChunk \/ Abort \/ NoticeAbort \/ Restart
  \/ \E s \in Slots : Receive(s) \/ Lose(s) \/ TurnAway(s)
  \/ \E s \in Slots : Handler(s) /\ UNCHANGED pageVars

Spec == Init /\ [][Next]_vars

(* The page's own steps: an answer is either received or lost. *)
Page == SendChunk \/ NoticeAbort \/ \E s \in Slots : Receive(s)

(* The page and the handlers run, as long as one of them can. *)
Runs == Page \/ (UNCHANGED pageVars /\ \E s \in Slots : Handler(s))
Fairness == WF_vars(Runs)

FairSpec == Spec /\ Fairness

-----------------------------------------------------------------------------
(* Properties *)

Operations == {"initiate", "chunks", "complete", "cancel"}
Files == [mine : BOOLEAN, have : SUBSET Chunks, long : BOOLEAN, by : SUBSET Slots]
Requests ==
  [op : Operations \union {"none"}, chunk : Chunks,
   pc : {"none", "sent", "body", "writing", "save", "create", "copy", "check", "clean", "store",
         "upsert", "discard", "forget", "data", "refused"},
   seen : SUBSET Chunks, short : SUBSET Chunks, stored : BOOLEAN]

TypeOK ==
  /\ backend \in {"local", "r2"}
  /\ session \in [open : BOOLEAN, received : SUBSET Chunks]
  /\ disk \in [dir : BOOLEAN, file : [Chunks -> {"no", "part", "full"}], tmp : Files]
  /\ live \in Files /\ row \in {"old", "new"}
  /\ req \in [Slots -> Requests]
  /\ phase \in Operations \union {"ended"} /\ index \in Chunks /\ attempt \in 0..(MaxRetries - 1)
  /\ tries \in Counters
  /\ lastError \in {None, "refused", "broken", "abort"} /\ aborted \in BOOLEAN
  /\ wait \in Slots \union {None} /\ outcome \in {None, "success", "failed", "cancelled"}
  /\ overlapped \in BOOLEAN

(* What a file is to those who load the model. *)
Reading(f) == IF f.have # Chunks THEN "torn" ELSE IF f.mine THEN "new" ELSE "old"

Store == INSTANCE ModelStore WITH model <- Reading(live)

(* The upload keeps what a model store promises: an object is replaced in one *)
(* step and only by a whole model, the row changes when the whole model is    *)
(* there, and an upload told as successful is stored, whole, for good; with   *)
(* chunks that arrive late or twice, lost answers and restarts in between, as *)
(* long as no completion is asked for while another is at work.               *)
ImplementsStore == []TypeOK /\ Store!Init /\ [][Store!Next \/ overlapped']_(Store!vars)

(* An object whose upload was told as successful is the model, whole: the file *)
(* was verified before it was stored. Not so with two completions at work: one *)
(* empties the file that the other has verified and is about to store.         *)
StoredIsVerified == backend = "r2" /\ outcome = "success" => Whole(live)

(* The loops of tries and attempts come to an end: the user of the page is told *)
(* how the upload went, whatever is lost.                                       *)
UploadEnds == <>(outcome # None)

(* While no completion is at work, and none was beside another, a model whose *)
(* row this upload has written is the file it assembled and verified. Not so  *)
(* with local storage: a second complete request, after one that was cut off, *)
(* empties the model's file before it opens the first chunk.                  *)
RowHasItsModel ==
  row = "new" /\ ~overlapped /\ (\A s \in Slots : req[s].op # "complete") => Whole(live)
=============================================================================
