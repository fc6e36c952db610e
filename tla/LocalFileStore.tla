--------------------------- MODULE LocalFileStore ---------------------------
(* The local file store and the requests on it: modules/file and the file    *)
(* handlers of transport/httpapi/handler.go.                                 *)
(*                                                                           *)
(* A file is as many blocks as were written to it. An upload is a stream of  *)
(* blocks that ends in one of four ways; its header is the first Sniff       *)
(* blocks. One operation on the directory is one action; what goes on        *)
(* between two of them (Stop, a killed process, another request) is any      *)
(* other action.                                                             *)
EXTENDS Integers, FiniteSets

CONSTANTS
  Requests,     \* requests at once
  Users,
  Ids,          \* object identifiers, each generated at most once
  Kinds,        \* the media types http.DetectContentType can tell apart
  Limit,        \* bytes allowed of each kind, in blocks; 0: not allowed
  Sniff,        \* sniffBytes, in blocks
  MaxSize,      \* bound: blocks of a stream
  MaxStarts,    \* bound: how often the store is started
  None          \* no file, no root

ASSUME FilesAssumption ==
  /\ Sniff \in Nat \ {0}
  /\ MaxSize \in Nat /\ MaxStarts \in Nat
  /\ Limit \in [Kinds -> {0} \cup {n \in Nat : n >= Sniff}]
  /\ None \notin Nat /\ None \notin [owner : Users, id : Ids, ext : Kinds]

VARIABLES
  root,         \* LocalStore.root: which opening of the directory, or None
  starts,       \* openings so far
  objects,      \* blocks of the file at each object's path
  temps,        \* blocks of each temporary file
  unsynced,     \* objects whose rename the disk does not hold yet
  upload,       \* history: of each identifier, what was sent and answered
  gone,         \* history: objects removed by their owner or a superuser, or lost with the power
  disturbed,    \* history: identifiers whose upload met Stop, a kill or a failing removal
  proc          \* the requests

vars == <<root, starts, objects, temps, unsynced, upload, gone, disturbed, proc>>
history == <<upload, gone, disturbed>>

Sizes == 0 .. MaxSize
\* eof: a whole file; cut: io.ErrUnexpectedEOF, the client went away; large: the body
\* limit's http.MaxBytesError; broken: any other error of the connection.
Ends == {"eof", "cut", "large", "broken"}
Streams == [kind : Kinds, size : Sizes, end : Ends]

\* owner/id.ext; the extension stands for the kind.
Keys == [owner : Users, id : Ids, ext : Kinds]
TempOf(k) == <<k.owner, k.id>>

Errors == {"invalid", "type", "too_large", "max_bytes", "not_found", "forbidden", "unavailable"}

\* A request: what it is about, the root it captured, the blocks it wrote, the errors
\* wrapped in its answer, and whether Stop, the disk or its context stood in its way.
Procs == [pc : {"idle", "header", "root", "create", "copy", "rename", "cleanup", "open", "remove", "done"},
          op : {"upload", "open", "remove"}, user : Users \cup {None}, superuser : BOOLEAN,
          stream : Streams \cup {None}, key : Keys \cup {None}, root : Nat \cup {None},
          written : Nat, err : SUBSET Errors, blocked : BOOLEAN]
Idle == [pc |-> "idle", op |-> "upload", user |-> None, superuser |-> FALSE, stream |-> None,
         key |-> None, root |-> None, written |-> 0, err |-> {}, blocked |-> FALSE]

Unsent == [owner |-> None, stream |-> None, answer |-> "none"]

Init ==
  /\ root = None /\ starts = 0
  /\ objects = [k \in Keys |-> None]
  /\ temps = [t \in Users \X Ids |-> None]
  /\ unsynced = {}
  /\ upload = [i \in Ids |-> Unsent]
  /\ gone = {} /\ disturbed = {}
  /\ proc = [r \in Requests |-> Idle]

At(r, label) == proc[r].pc = label
Go(r, label) == proc' = [proc EXCEPT ![r].pc = label]
\* root.X of a closed os.Root is an error.
Open(r) == proc[r].root = root

(* ------------------------------ answers ------------------------------ *)

\* mutant: an unavailable store is looked for first.
StatusByStore(err) == IF "unavailable" \in err THEN 503 ELSE IF err = {} THEN 200 ELSE 413
\* The first case of the switch that matches one of the errors that are wrapped together.
Status(err) ==
  IF err = {} THEN 200
  ELSE IF "invalid" \in err THEN 400
  ELSE IF "type" \in err THEN 415
  ELSE IF {"too_large", "max_bytes"} \cap err # {} THEN 413
  ELSE IF "not_found" \in err THEN 404
  ELSE IF "forbidden" \in err THEN 403
  ELSE 503

Done(r, err) == proc' = [proc EXCEPT ![r].pc = "done", ![r].err = err]
Blocked(r) == proc' = [proc EXCEPT ![r].pc = "done", ![r].err = {"unavailable"}, ![r].blocked = TRUE]

\* The deferred cleanup comes before the answer.
Abort(r, err, blocked) ==
  proc' = [proc EXCEPT ![r].pc = "cleanup", ![r].err = err, ![r].blocked = blocked]

(* ------------------------------ the store ------------------------------ *)

\* Start: a store that is started already keeps its root.
Start ==
  /\ starts < MaxStarts
  /\ starts' = starts + 1
  /\ root' = IF root = None THEN starts + 1 ELSE root
  /\ UNCHANGED <<objects, temps, unsynced, history, proc>>

\* What has a temporary file in its hands.
Writing(r) == proc[r].pc \in {"copy", "rename", "cleanup"}
UnderWay == {proc[r].key.id : r \in {q \in Requests : Writing(q)}}

Stop ==
  /\ root # None
  /\ root' = None
  /\ disturbed' = disturbed \cup UnderWay
  /\ UNCHANGED <<starts, objects, temps, unsynced, upload, gone, proc>>

Kill(undone) ==
  /\ root' = None
  /\ disturbed' = disturbed \cup UnderWay \cup {k.id : k \in undone}
  /\ proc' = [r \in Requests |-> Idle]

Crash == Kill({}) /\ UNCHANGED <<starts, objects, temps, unsynced, upload, gone>>

\* The file was synced before the rename, its directory was not: any rename the disk
\* does not hold yet is undone.
PowerLoss ==
  \E lost \in SUBSET unsynced :
    /\ lost # {}
    /\ Kill(lost)
    /\ objects' = [k \in Keys |-> IF k \in lost THEN None ELSE objects[k]]
    /\ temps' = [t \in Users \X Ids |->
                   IF \E k \in lost : TempOf(k) = t
                   THEN objects[CHOOSE k \in lost : TempOf(k) = t] ELSE temps[t]]
    /\ unsynced' = {}
    /\ gone' = gone \cup lost
    /\ UNCHANGED <<starts, upload>>

WriteBack ==
  /\ unsynced # {}
  /\ unsynced' = {}
  /\ UNCHANGED <<root, starts, objects, temps, history, proc>>

(* ------------------------------ uploads ------------------------------ *)

StartUpload(r) ==
  /\ At(r, "idle")
  /\ \E u \in Users, s \in Streams :
       proc' = [proc EXCEPT ![r] = [Idle EXCEPT !.pc = "header", !.user = u, !.stream = s]]
  /\ UNCHANGED <<root, starts, objects, temps, unsynced, history>>

\* ReadFull of the header: EOF and ErrUnexpectedEOF just make it short, whatever the
\* stream holds then decides. (The reader repeats its error when it is read again.)
HeaderError(s) ==
  IF s.size < Sniff /\ s.end = "large" THEN {"unavailable", "max_bytes"}
  ELSE IF s.size < Sniff /\ s.end = "broken" THEN {"unavailable"}
  ELSE IF s.size = 0 THEN {"invalid"}
  ELSE IF Limit[s.kind] = 0 THEN {"type"}
  ELSE {}

\* mutant: the error of the connection, without ErrUnavailable around it.
CopyErrorBare(s) == IF s.end = "eof" THEN {} ELSE {s.end}
CopyError(s) ==
  CASE s.end = "eof" -> {}
    [] s.end = "large" -> {"unavailable", "max_bytes"}
    [] OTHER -> {"unavailable"}

ReadHeader(r) ==
  LET s == proc[r].stream IN
  /\ At(r, "header")
  /\ \/ /\ HeaderError(s) # {}
        /\ Done(r, HeaderError(s))
        /\ UNCHANGED upload
     \/ /\ HeaderError(s) = {}
        /\ \E i \in {j \in Ids : upload[j] = Unsent} :
             /\ proc' = [proc EXCEPT ![r].pc = "root",
                           ![r].key = [owner |-> proc[r].user, id |-> i, ext |-> s.kind]]
             /\ upload' = [upload EXCEPT ![i] =
                             [owner |-> proc[r].user, stream |-> s, answer |-> "open"]]
  /\ UNCHANGED <<root, starts, objects, temps, unsynced, gone, disturbed>>

\* activeRoot: the lock is held for this read only.
TakeRoot(r) ==
  /\ At(r, "root")
  /\ IF root = None
     THEN IF proc[r].op = "upload" THEN Blocked(r) ELSE proc' = [proc EXCEPT ![r] = Idle]
     ELSE proc' = [proc EXCEPT ![r].root = root,
                     ![r].pc = IF proc[r].op = "upload" THEN "create" ELSE proc[r].op]
  /\ UNCHANGED <<root, starts, objects, temps, unsynced, history>>

\* MkdirAll and OpenFile with O_EXCL.
CreateTemp(r) ==
  LET t == TempOf(proc[r].key) IN
  /\ At(r, "create")
  /\ IF Open(r) /\ temps[t] = None
     THEN temps' = [temps EXCEPT ![t] = 0] /\ Go(r, "copy")
     ELSE UNCHANGED temps /\ Blocked(r)
  /\ UNCHANGED <<root, starts, objects, unsynced, history>>

MaxBytes(r) == Limit[proc[r].stream.kind]

\* mutant: the reader is cut off at the limit, so that nothing is ever found too large.
ToReadAtMost(r) == IF proc[r].stream.size > MaxBytes(r) THEN MaxBytes(r) ELSE proc[r].stream.size
\* io.LimitReader(..., maxBytes+1)
ToRead(r) == IF proc[r].stream.size > MaxBytes(r) THEN MaxBytes(r) + 1 ELSE proc[r].stream.size

CopyBlock(r) ==
  /\ At(r, "copy")
  /\ proc[r].written < ToRead(r)
  /\ proc' = [proc EXCEPT ![r].written = @ + 1]
  /\ temps' = [temps EXCEPT ![TempOf(proc[r].key)] = proc[r].written + 1]
  /\ UNCHANGED <<root, starts, objects, unsynced, history>>

\* The LimitReader ends the copy at one byte over the limit, or the stream ends it; then
\* Sync and Close.
CopyEnd(r) ==
  LET err == IF proc[r].written > MaxBytes(r) THEN {"too_large"} ELSE CopyError(proc[r].stream) IN
  /\ At(r, "copy")
  /\ proc[r].written = ToRead(r)
  /\ IF err = {} THEN Go(r, "rename") ELSE Abort(r, err, FALSE)
  /\ UNCHANGED <<root, starts, objects, temps, unsynced, history>>

Rename(r) ==
  LET k == proc[r].key IN
  /\ At(r, "rename")
  /\ IF Open(r)
     THEN /\ objects' = [objects EXCEPT ![k] = temps[TempOf(k)]]
          /\ temps' = [temps EXCEPT ![TempOf(k)] = None]
          /\ unsynced' = unsynced \cup {k}
          /\ Done(r, {})
     ELSE /\ Abort(r, {"unavailable"}, TRUE)
          /\ UNCHANGED <<objects, temps, unsynced>>
  /\ UNCHANGED <<root, starts, history>>

\* An error of the file system, or the request's context has ended.
Fail(r) ==
  /\ \/ At(r, "create") /\ Blocked(r)
     \/ proc[r].pc \in {"copy", "rename"} /\ Abort(r, {"unavailable"}, TRUE)
  /\ UNCHANGED <<root, starts, objects, temps, unsynced, history>>

\* mutant: the temporary file is removed only when the copy failed.
CleanupOfCopy(r) ==
  LET t == TempOf(proc[r].key) IN
  /\ At(r, "cleanup")
  /\ Go(r, "done")
  /\ temps' = IF Open(r) /\ "too_large" \notin proc[r].err THEN [temps EXCEPT ![t] = None] ELSE temps
  /\ UNCHANGED <<root, starts, objects, unsynced, history>>

\* The deferred Remove, whose error is ignored: on a closed root, or one the disk reports.
Cleanup(r) ==
  LET t == TempOf(proc[r].key) IN
  /\ At(r, "cleanup")
  /\ Go(r, "done")
  /\ \/ Open(r) /\ temps' = [temps EXCEPT ![t] = None] /\ UNCHANGED disturbed
     \/ UNCHANGED temps /\ disturbed' = disturbed \cup (IF Open(r) THEN {proc[r].key.id} ELSE {})
  /\ UNCHANGED <<root, starts, objects, unsynced, upload, gone>>

(* -------------------------- downloads, deletes -------------------------- *)

StartOpen(r) ==
  /\ At(r, "idle")
  /\ \E k \in Keys : proc' = [proc EXCEPT ![r] = [Idle EXCEPT !.pc = "root", !.op = "open", !.key = k]]
  /\ UNCHANGED <<root, starts, objects, temps, unsynced, history>>

\* An opened file is served to its end, whatever becomes of its path: nothing more of
\* the store is in the answer.
OpenObject(r) ==
  /\ At(r, "open")
  /\ proc' = [proc EXCEPT ![r] = Idle]
  /\ UNCHANGED <<root, starts, objects, temps, unsynced, history>>

\* mutant: any user that is signed in.
MayDeleteAny(user, superuser, k) == TRUE
\* The owner is the one in the path that was asked for.
MayDelete(user, superuser, k) == superuser \/ user = k.owner

StartDelete(r) ==
  /\ At(r, "idle")
  /\ \E u \in Users, superuser \in BOOLEAN, k \in Keys :
       /\ MayDelete(u, superuser, k)
       /\ proc' = [proc EXCEPT ![r] = [Idle EXCEPT !.pc = "root", !.op = "remove", !.key = k,
                                        !.user = u, !.superuser = superuser]]
  /\ UNCHANGED <<root, starts, objects, temps, unsynced, history>>

RemoveObject(r) ==
  LET k == proc[r].key IN
  /\ At(r, "remove")
  /\ proc' = [proc EXCEPT ![r] = Idle]
  /\ IF Open(r) /\ objects[k] # None
     THEN /\ objects' = [objects EXCEPT ![k] = None]
          /\ unsynced' = unsynced \ {k}
          /\ gone' = IF proc[r].superuser \/ proc[r].user = upload[k.id].owner
                     THEN gone \cup {k} ELSE gone
     ELSE UNCHANGED <<objects, unsynced, gone>>
  /\ UNCHANGED <<root, starts, temps, upload, disturbed>>

Answer(r) ==
  /\ At(r, "done")
  /\ proc' = [proc EXCEPT ![r] = Idle]
  /\ upload' = IF proc[r].op = "upload" /\ proc[r].key # None
               THEN [upload EXCEPT ![proc[r].key.id].answer =
                       IF proc[r].err = {} THEN "created" ELSE "failed"]
               ELSE upload
  /\ UNCHANGED <<root, starts, objects, temps, unsynced, gone, disturbed>>

Next ==
  \/ Start \/ Stop \/ Crash \/ PowerLoss \/ WriteBack
  \/ \E r \in Requests :
       \/ StartUpload(r) \/ ReadHeader(r) \/ TakeRoot(r) \/ CreateTemp(r) \/ CopyBlock(r)
       \/ CopyEnd(r) \/ Rename(r) \/ Fail(r) \/ Cleanup(r)
       \/ StartOpen(r) \/ OpenObject(r) \/ StartDelete(r) \/ RemoveObject(r) \/ Answer(r)

Spec == Init /\ [][Next]_vars

(* ----------------------------- properties ----------------------------- *)

\* The directory, the root and the requests are well typed.
TypeOK ==
  /\ root \in Nat \cup {None} /\ starts \in Nat
  /\ objects \in [Keys -> Nat \cup {None}]
  /\ temps \in [Users \X Ids -> Nat \cup {None}]
  /\ unsynced \in SUBSET Keys /\ gone \in SUBSET Keys /\ disturbed \in SUBSET Ids
  /\ upload \in [Ids -> [owner : Users \cup {None}, stream : Streams \cup {None},
                         answer : {"none", "open", "created", "failed"}]]
  /\ proc \in [Requests -> Procs]

\* An object that can be downloaded is one upload of its owner, complete to its last
\* block, of an allowed type and within the limit, whatever stopped, failed or was
\* killed on the way (Put's temporary file, Sync and Rename).
VisibleWhole ==
  \A k \in Keys : objects[k] # None =>
    LET s == upload[k.id].stream IN
    /\ upload[k.id].owner = k.owner
    /\ s = [kind |-> k.ext, size |-> objects[k], end |-> "eof"]
    /\ objects[k] \in 1 .. Limit[k.ext]

\* A temporary file belongs to an upload that still has it in hand and can remove it, or
\* it was left by a kill, a power loss, a Stop under the upload or a removal that failed;
\* a refused or broken upload leaves none.
LeftoversHaveACause ==
  \A t \in Users \X Ids : temps[t] # None =>
    \/ t[2] \in disturbed
    \/ \E r \in Requests : Writing(r) /\ TempOf(proc[r].key) = t /\ Open(r)

\* An upload that was answered 201 can be downloaded until its owner or a superuser
\* deletes it or the power is lost; one that was answered with an error never can.
AnswersHold ==
  \A i \in Ids :
    LET there == {k \in Keys : k.id = i /\ (objects[k] # None \/ k \in gone)} IN
    /\ upload[i].answer = "created" => there # {}
    /\ upload[i].answer = "failed" => there = {}

\* Who sends too much is told so (413), although Put wraps the body limit's error in
\* ErrUnavailable (fileHTTPError), unless the store itself failed first.
TooLargeIsSaid ==
  \A r \in Requests :
    LET p == proc[r] IN
    (/\ p.pc = "done" /\ p.op = "upload" /\ ~p.blocked /\ Limit[p.stream.kind] > 0
     /\ p.stream.size > Limit[p.stream.kind] \/ (p.stream.end = "large" /\ p.stream.size > 0))
    => Status(p.err) = 413
=============================================================================
