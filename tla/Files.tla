------------------------------- MODULE Files -------------------------------
(***************************************************************************)
(* File operations: the API call, the controller's exchange of FileOps     *)
(* over the agent stream with one pending slot per op, and the agent's fs  *)
(* package working on one path per agent.  Content is a sequence of        *)
(* chunks, each named after its writer, and a sha256 is the content.  The  *)
(* agent runs every op in a goroutine of its own, so ops and results are   *)
(* sets.  Which path an op may reach is FilePaths; whether the guardrail's *)
(* bundle agrees with the server's is PolicySync: here it may refuse.      *)
(***************************************************************************)
EXTENDS Integers, Sequences, FiniteSets

CONSTANTS FileAgents, Callers,
          MaxFileCalls,   \* bound on API calls
          MaxFileFaults   \* bound on streams that end and ops that fail on the agent

ASSUME FileAssumption == MaxFileCalls \in Nat /\ MaxFileFaults \in Nat

VARIABLES conn,       \* agents with a session
          call,       \* what each caller waits for
          slot,       \* its pending slot, the channel WaitFileResult reads
          down, up,   \* FileOps and FileOpResults under way
          edits,      \* edits that have compared and not yet renamed
          disk, temps,\* the file and the upload temp files of each agent
          applied,    \* <<caller, call>> whose write took place
          fileCalls, fileFaults

callVars == <<call, slot>>
agentDiskVars == <<edits, disk, temps, applied>>
filesVars == <<conn, call, slot, down, up, edits, disk, temps, applied, fileCalls, fileFaults>>

Old == <<"old", "old">>
UploadBody(c) == <<c, c>>
EditBody(c) == <<"edit">>
Writes == {"upload", "edit", "perm"}

NoCall == [kind |-> "none", agent |-> "none", step |-> "idle", off |-> 0, seen |-> <<>>,
           answer |-> "none", clean |-> TRUE, number |-> 0, approved |-> FALSE]
NoSlot == [n |-> 0, state |-> "none", res |-> "none", data |-> <<>>, done |-> FALSE]

FilesInit ==
  /\ conn = FileAgents
  /\ call = [c \in Callers |-> NoCall] /\ slot = [c \in Callers |-> NoSlot]
  /\ down = {} /\ up = {} /\ edits = {} /\ applied = {}
  /\ disk = [a \in FileAgents |-> [content |-> Old, mode |-> "old"]]
  /\ temps = {}
  /\ fileCalls = 0 /\ fileFaults = 0

-----------------------------------------------------------------------------
(* The stream's pending slots. *)

\* No session: the op fails at once.  Otherwise a slot is opened and the op sent.
SendFileOp(c, cl, kind) ==
  IF cl.agent \in conn
  THEN /\ call' = [call EXCEPT ![c] = [cl EXCEPT !.step = kind]]
       /\ slot' = [slot EXCEPT ![c] = [NoSlot EXCEPT !.n = slot[c].n + 1, !.state = "open"]]
       /\ down' = down \cup {[c |-> c, n |-> slot[c].n + 1, number |-> cl.number, agent |-> cl.agent, kind |-> kind,
                              off |-> cl.off, expect |-> cl.seen]}
  ELSE /\ call' = [call EXCEPT ![c] = [cl EXCEPT !.step = "idle", !.answer = "error", !.clean = FALSE]]
       /\ slot' = [slot EXCEPT ![c].state = "none"] /\ UNCHANGED down

\* Bug: a result is matched to whatever its caller waits for.
SlotTakesAny(c, r) == slot[c].state = "open"

SlotTakes(c, r) == slot[c].state = "open" /\ slot[c].n = r.n

\* Taken from the stream: into the slot, or dropped when nobody waits.
FileOpResultArrives(r) ==
  /\ r \in up /\ up' = up \ {r}
  /\ slot' = IF SlotTakes(r.c, r)
             THEN [slot EXCEPT ![r.c] = [@ EXCEPT !.state = "full", !.res = r.res, !.data = r.data, !.done = r.done]]
             ELSE slot
  /\ UNCHANGED <<conn, call, down, agentDiskVars, fileCalls, fileFaults>>

\* The agent's stream ends.  Every slot of the handler is failed, not only the
\* agent's; one that is filled already is lost when its waiter is not there yet.
StreamTeardown(a) ==
  /\ a \in conn /\ fileFaults < MaxFileFaults /\ fileFaults' = fileFaults + 1
  /\ conn' = conn \ {a}
  /\ \E late \in SUBSET {c \in Callers : slot[c].state = "full"} :
       slot' = [c \in Callers |-> IF slot[c].state = "open" \/ c \in late
                                  THEN [slot[c] EXCEPT !.state = "full", !.res = "closed"] ELSE slot[c]]
  /\ up' = {r \in up : r.agent # a}
  /\ down' = {o \in down : o.agent # a}
  /\ UNCHANGED <<call, agentDiskVars, fileCalls>>

StreamReturns(a) ==
  /\ a \notin conn /\ conn' = conn \cup {a}
  /\ UNCHANGED <<callVars, down, up, agentDiskVars, fileCalls, fileFaults>>

-----------------------------------------------------------------------------
(* The calls. *)

Ends(c, answer) ==
  /\ call' = [call EXCEPT ![c] = [@ EXCEPT !.step = "idle", !.answer = answer, !.off = 0, !.seen = <<>>]]
  /\ slot' = [slot EXCEPT ![c].state = "none"] /\ UNCHANGED down

NewCall(c, a, kind) == [NoCall EXCEPT !.kind = kind, !.agent = a, !.number = fileCalls + 1]

Begins(c) == call[c].step = "idle" /\ fileCalls < MaxFileCalls /\ fileCalls' = fileCalls + 1

\* fileStat and fileList: one op.  fileDownload: a stat, then the chunks.
fileStat(c, a) == SendFileOp(c, NewCall(c, a, "stat"), "stat")
fileList(c, a) == SendFileOp(c, NewCall(c, a, "list"), "list")
fileDownload(c, a) == SendFileOp(c, NewCall(c, a, "download"), "stat")

FileRead(c, a) ==
  /\ Begins(c) /\ (fileStat(c, a) \/ fileList(c, a) \/ fileDownload(c, a))
  /\ UNCHANGED <<conn, up, agentDiskVars, fileFaults>>

\* A held body is copied to the staging directory; without one the call fails.
stageBodyFails(c, cl) ==
  /\ cl.kind # "perm" /\ call' = [call EXCEPT ![c] = [cl EXCEPT !.answer = "error"]]

\* A held write waits for its approval.  When the request cannot be stored the
\* caller is told to wait all the same, for an approval that does not exist.
park(c, cl) == call' = [call EXCEPT ![c] = [cl EXCEPT !.step = "parked"]]
parkFails(c, cl) == call' = [call EXCEPT ![c] = [cl EXCEPT !.answer = "approval_required"]]

\* The rules may allow a write, hold it or deny it; reads bypass them.
policyGate(c, cl, kind) ==
  \/ SendFileOp(c, cl, kind)
  \/ /\ stageBodyFails(c, cl) \/ park(c, cl) \/ parkFails(c, cl)
     /\ UNCHANGED <<slot, down>>
  \/ /\ call' = [call EXCEPT ![c] = [cl EXCEPT !.answer = "denied"]] /\ UNCHANGED <<slot, down>>

fileUpload(c, a) == policyGate(c, NewCall(c, a, "upload"), "begin")

\* The caller edits what it saw in an earlier stat of this agent.
fileEdit(c, a) ==
  /\ call[c].agent = a /\ call[c].seen # <<>>
  /\ policyGate(c, [NewCall(c, a, "edit") EXCEPT !.seen = call[c].seen], "edit")

filePerm(c, a) == policyGate(c, NewCall(c, a, "perm"), "perm")

FileWrite(c, a) ==
  /\ Begins(c) /\ (fileUpload(c, a) \/ fileEdit(c, a) \/ filePerm(c, a))
  /\ UNCHANGED <<conn, up, agentDiskVars, fileFaults>>

\* An approved request is sent again from its staged body.
DispatchApprovedFileOp(c) ==
  /\ call[c].step = "parked"
  /\ SendFileOp(c, [call[c] EXCEPT !.approved = TRUE], IF call[c].kind = "upload" THEN "begin" ELSE call[c].kind)
  /\ UNCHANGED <<conn, up, agentDiskVars, fileCalls, fileFaults>>

ApprovalRefused(c) ==
  /\ call[c].step = "parked" /\ Ends(c, "denied")
  /\ UNCHANGED <<conn, up, agentDiskVars, fileCalls, fileFaults>>

opStateForCode(res) == CASE res = "ok" -> "ok" [] res = "403" -> "denied" [] res = "409" -> "conflict" [] OTHER -> "error"

\* A failed upload removes its temp file when it knows one.
abort(c) == SendFileOp(c, [call[c] EXCEPT !.answer = "error"], "abort")

UploadFailed(c) == IF call[c].step = "begin" /\ ~ call[c].approved THEN Ends(c, opStateForCode(slot[c].res)) ELSE abort(c)

\* begin, the chunks, commit; the approved replay does not look at begin's code.
Upload(c) ==
  IF slot[c].res # "ok" THEN UploadFailed(c)
  ELSE CASE call[c].step = "begin" -> SendFileOp(c, call[c], "chunk")
         [] call[c].step = "chunk" ->
              LET cl == [call[c] EXCEPT !.off = @ + 1]
              IN  SendFileOp(c, cl, IF cl.off < Len(UploadBody(c)) THEN "chunk" ELSE "commit")
         [] call[c].step = "commit" -> Ends(c, "ok")

\* The chunks of a download, each an op that opens the path again.
Download(c) ==
  IF slot[c].res # "ok" THEN Ends(c, opStateForCode(slot[c].res))
  ELSE IF call[c].step = "stat" THEN SendFileOp(c, [call[c] EXCEPT !.seen = <<>>], "download")
  ELSE LET cl == [call[c] EXCEPT !.seen = @ \o slot[c].data, !.off = @ + Len(slot[c].data)]
       IN  IF slot[c].done
           THEN /\ call' = [call EXCEPT ![c] = [cl EXCEPT !.step = "idle", !.answer = "ok"]]
                /\ slot' = [slot EXCEPT ![c].state = "none"] /\ UNCHANGED down
           ELSE SendFileOp(c, cl, "download")

do(c) ==
  /\ call' = [call EXCEPT ![c] = [call[c] EXCEPT !.step = "idle", !.answer = opStateForCode(slot[c].res),
                                                 !.seen = IF @ = <<>> THEN slot[c].data ELSE @]]
  /\ slot' = [slot EXCEPT ![c].state = "none"] /\ UNCHANGED down

\* The waiter reads the result its slot was given.
WaitFileResult(c) ==
  /\ slot[c].state = "full" /\ slot[c].res # "closed"
  /\ \/ call[c].step = "abort" /\ Ends(c, call[c].answer)
     \/ call[c].step # "abort" /\ call[c].kind = "upload" /\ Upload(c)
     \/ call[c].kind = "download" /\ Download(c)
     \/ call[c].kind \notin {"upload", "download"} /\ do(c)
  /\ UNCHANGED <<conn, up, agentDiskVars, fileCalls, fileFaults>>

\* An upload that knows its temp file tries to abort it; any other call ends.
WaitFailed(c) ==
  LET cl == [call[c] EXCEPT !.clean = FALSE, !.answer = "error"]
  IN  IF call[c].kind = "upload" /\ call[c].step \in {"chunk", "commit"}
      THEN SendFileOp(c, cl, "abort")
      ELSE /\ call' = [call EXCEPT ![c] = [cl EXCEPT !.step = "idle"]]
           /\ slot' = [slot EXCEPT ![c].state = "none"] /\ UNCHANGED down

\* Bug: no deadline on the wait.
WaitTimesOutNeverFile(c) == FALSE /\ UNCHANGED filesVars

\* The op's 30 s are over.
FileOpTimesOut(c) ==
  /\ slot[c].state = "open" /\ WaitFailed(c)
  /\ UNCHANGED <<conn, up, agentDiskVars, fileCalls, fileFaults>>

WaitSeesClose(c) ==
  /\ slot[c].state = "full" /\ slot[c].res = "closed" /\ WaitFailed(c)
  /\ UNCHANGED <<conn, up, agentDiskVars, fileCalls, fileFaults>>

-----------------------------------------------------------------------------
(* The agent. *)

Result(o, res, data, done) == [c |-> o.c, n |-> o.n, agent |-> o.agent, res |-> res, data |-> data, done |-> done]

\* A result is not spooled: without a stream it is gone.
sendFileOpResult(o, res, data, done) == up' = IF o.agent \in conn THEN up \cup {Result(o, res, data, done)} ELSE up

StatPath(o) == sendFileOpResult(o, "ok", disk[o.agent].content, TRUE) /\ UNCHANGED agentDiskVars

List(o) == sendFileOpResult(o, "ok", <<>>, TRUE) /\ UNCHANGED agentDiskVars

\* One chunk; nothing at the end of a file that has become shorter.
DownloadAt(o) ==
  LET content == disk[o.agent].content
  IN  /\ \/ o.off > Len(content) /\ sendFileOpResult(o, "500", <<>>, TRUE)
         \/ o.off = Len(content) /\ sendFileOpResult(o, "ok", <<>>, TRUE)
         \/ o.off < Len(content) /\ sendFileOpResult(o, "ok", <<content[o.off + 1]>>, o.off + 1 = Len(content))
      /\ UNCHANGED agentDiskVars

\* The temp file of the upload an op belongs to; its name is random.
Temp(o, data) == [agent |-> o.agent, c |-> o.c, number |-> o.number, data |-> data]
TempsOf(o) == {t \in temps : t.agent = o.agent /\ t.c = o.c /\ t.number = o.number}

UploadBegin(o) ==
  /\ temps' = temps \cup {Temp(o, <<>>)}
  /\ sendFileOpResult(o, "ok", <<>>, TRUE) /\ UNCHANGED <<edits, disk, applied>>

\* In order only, and only while the temp file is there.
UploadChunk(o) ==
  LET ok == {t \in TempsOf(o) : o.off = Len(t.data)}
  IN  /\ temps' = (temps \ ok) \cup {Temp(o, Append(t.data, o.c)) : t \in ok}
      /\ sendFileOpResult(o, IF ok # {} THEN "ok" ELSE "500", <<>>, TRUE) /\ UNCHANGED <<edits, disk, applied>>

\* The size is checked, then the temp file renamed over the target.
UploadCommit(o) ==
  LET ok == {t \in TempsOf(o) : Len(t.data) = o.off}
  IN  /\ temps' = temps \ TempsOf(o)
      /\ disk' = [disk EXCEPT ![o.agent].content = IF ok # {} THEN (CHOOSE t \in ok : TRUE).data ELSE @]
      /\ applied' = IF ok # {} THEN applied \cup {<<o.c, o.number>>} ELSE applied
      /\ sendFileOpResult(o, IF ok # {} THEN "ok" ELSE "500", <<>>, TRUE) /\ UNCHANGED edits

UploadAbort(o) ==
  /\ temps' = temps \ TempsOf(o)
  /\ sendFileOpResult(o, IF TempsOf(o) # {} THEN "ok" ELSE "500", <<>>, TRUE)
  /\ UNCHANGED <<edits, disk, applied>>

\* EditCAS hashes the file first; the rename is a later step.
EditCASCompares(o) ==
  /\ IF disk[o.agent].content = o.expect
     THEN edits' = edits \cup {o} /\ UNCHANGED up
     ELSE sendFileOpResult(o, "409", <<>>, TRUE) /\ UNCHANGED edits
  /\ UNCHANGED <<disk, temps, applied>>

EditCAS(o) ==
  /\ o \in edits /\ edits' = edits \ {o}
  /\ disk' = [disk EXCEPT ![o.agent].content = EditBody(o.c)]
  /\ applied' = applied \cup {<<o.c, o.number>>}
  /\ sendFileOpResult(o, "ok", <<>>, TRUE)
  /\ UNCHANGED <<conn, callVars, down, temps, fileCalls, fileFaults>>

SetPerm(o) ==
  /\ disk' = [disk EXCEPT ![o.agent].mode = o.c] /\ applied' = applied \cup {<<o.c, o.number>>}
  /\ sendFileOpResult(o, "ok", <<>>, TRUE) /\ UNCHANGED <<edits, temps>>

execFileOp(o) ==
  /\ o \in down /\ down' = down \ {o}
  /\ CASE o.kind = "stat" -> StatPath(o)            [] o.kind = "list" -> List(o)
       [] o.kind = "download" -> DownloadAt(o)      [] o.kind = "begin" -> UploadBegin(o)
       [] o.kind = "chunk" -> UploadChunk(o)        [] o.kind = "commit" -> UploadCommit(o)
       [] o.kind = "abort" -> UploadAbort(o)        [] o.kind = "edit" -> EditCASCompares(o)
       [] o.kind = "perm" -> SetPerm(o)
  /\ UNCHANGED <<conn, callVars, fileCalls, fileFaults>>

\* The guardrail refuses an op with a decision; any op may fail on the disk.
RecheckFile(o) == o.kind \in {"begin", "edit", "perm"} /\ sendFileOpResult(o, "403", <<>>, TRUE)

fileOpError(o) == o.kind # "abort" /\ sendFileOpResult(o, "500", <<>>, TRUE)

FileOpRefused(o) ==
  /\ o \in down /\ down' = down \ {o} /\ fileFaults < MaxFileFaults /\ fileFaults' = fileFaults + 1
  /\ (RecheckFile(o) \/ fileOpError(o))
  /\ UNCHANGED <<conn, callVars, agentDiskVars, fileCalls>>

FilesNext ==
  \/ \E a \in FileAgents : StreamTeardown(a) \/ StreamReturns(a)
  \/ \E c \in Callers : \/ DispatchApprovedFileOp(c) \/ ApprovalRefused(c) \/ WaitFileResult(c)
                        \/ FileOpTimesOut(c) \/ WaitSeesClose(c)
                        \/ \E a \in FileAgents : FileRead(c, a) \/ FileWrite(c, a)
  \/ \E r \in up : FileOpResultArrives(r)
  \/ \E o \in down : execFileOp(o) \/ FileOpRefused(o)
  \/ \E o \in edits : EditCAS(o)

\* The server's deadlines and the waiters run whatever the agent does.
FilesFairness == \A c \in Callers : WF_filesVars(FileOpTimesOut(c)) /\ WF_filesVars(WaitFileResult(c))
                                    /\ WF_filesVars(WaitSeesClose(c))

FilesSpec == FilesInit /\ [][FilesNext]_filesVars /\ FilesFairness

-----------------------------------------------------------------------------
(* Properties. *)

(* A reader of the path sees the old content or a whole body: never the    *)
(* half of an upload, in whatever order timeouts, aborts and late chunks   *)
(* come (temp file, offset and size checks, atomic rename in fs).          *)
FileIsWhole ==
  \A a \in FileAgents : disk[a].content \in {Old} \cup {UploadBody(c) : c \in Callers} \cup {EditBody(c) : c \in Callers}

(* A write that is answered ok took place: no late result of an earlier op *)
(* answers for a later one (the op id of SendFileOp and WaitFileResult).   *)
OkMeansApplied ==
  \A c \in Callers : call[c].answer = "ok" /\ call[c].step = "idle" /\ call[c].kind \in Writes
                       => <<c, call[c].number>> \in applied

(* An upload that failed on the agent, with the stream up and in time,     *)
(* leaves no temp file behind (the deferred abort).                        *)
FailedUploadCleans ==
  \A c \in Callers : call[c].step = "idle" /\ call[c].clean /\ call[c].kind = "upload"
    => \A t \in temps : <<t.c, t.number>> # <<c, call[c].number>>

(* Bodies, answers and temp files agree through lost, late and failed      *)
(* operations: the three parts above.                                      *)
FilesInv == FileIsWhole /\ OkMeansApplied /\ FailedUploadCleans

(* Every call is answered, though the agent may never answer: no API       *)
(* request hangs on a lost FileOp (the deadline in doSend).                *)
CallIsAnswered == \A c \in Callers : (call[c].step \notin {"idle", "parked"}) ~> (call[c].step \in {"idle", "parked"})

(* An edit replaces the version its caller saw: EditCAS "atomically        *)
(* rewrites path's content when its current sha256 equals expected".       *)
EditReplacesWhatItSaw == [][\A o \in edits : EditCAS(o) => disk[o.agent].content = o.expect]_filesVars

(* The end of one agent's stream fails that agent's operations only:       *)
(* "Fast-fail pending synchronous file ops for this agent".                *)
TeardownIsLocal ==
  [][\A c \in Callers : slot'[c].res = "closed" /\ slot[c].res # "closed" => call[c].agent \notin conn']_filesVars
=============================================================================
