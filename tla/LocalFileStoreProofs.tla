------------------------- MODULE LocalFileStoreProofs -------------------------
(* Proofs about LocalFileStore, for any number of requests, users, identifiers and   *)
(* kinds, any limits and any length of a stream: what can be downloaded is whole and *)
(* its owner's, a leftover temporary file has a cause, what an upload was answered   *)
(* holds.                                                                            *)
EXTENDS LocalFileStore, TLAPS

\* An upload that has its identifier and was not answered yet.
Holding(p) == p.op = "upload" /\ p.pc # "idle" /\ p.key # None

\* What there is, or was until it was deleted or lost, under an identifier.
Traces(i) == {k \in Keys : k.id = i /\ (objects[k] # None \/ k \in gone)}

\* A request's locals have been set before they are used.
Formed(p) ==
  /\ p.pc \in {"header", "create", "copy", "rename", "cleanup", "done"} => p.op = "upload"
  /\ p.pc \in {"open", "remove"} => p.op = p.pc
  /\ p.op = "upload" /\ p.pc # "idle" => p.stream \in Streams
  /\ p.pc = "header" => p.user \in Users /\ p.key = None
  /\ p.pc \notin {"idle", "header", "done"} => p.key \in Keys
  /\ p.pc \in {"create", "copy", "rename", "cleanup"} => p.root # None
  /\ p.op = "remove" => MayDelete(p.user, p.superuser, p.key)
  /\ p.pc \in {"header", "root", "create"} => p.written = 0

\* The identifier of an upload stands for its stream, which passed the look at its
\* header; nothing is found under it before the rename.
Recorded(p) ==
  Holding(p) =>
    LET u == upload[p.key.id] IN
    /\ u.owner = p.key.owner /\ u.stream = p.stream /\ u.answer = "open"
    /\ p.key.ext = p.stream.kind
    /\ HeaderError(p.stream) = {}
    /\ (p.pc = "done" /\ p.err = {}) <=> Traces(p.key.id) # {}

\* The temporary file holds what was written, and all of the stream before the rename.
Written(p) ==
  LET s == p.stream  max == Limit[s.kind] IN
  /\ p.pc \in {"copy", "rename"} => temps[TempOf(p.key)] = p.written
  /\ p.pc = "copy" => p.written <= s.size /\ p.written <= max + 1
  /\ p.pc = "rename" => p.written = s.size /\ s.end = "eof" /\ s.size <= max
  /\ p.pc = "cleanup" => p.err # {}
  /\ p.pc \in {"cleanup", "done"} /\ ~p.blocked /\ max > 0
       /\ (s.size > max \/ (s.end = "large" /\ s.size > 0))
     => Status(p.err) = 413

CallOK(p) == Formed(p) /\ Recorded(p) /\ Written(p)

\* No two uploads have the same identifier.
Distinct ==
  \A q, r \in Requests :
    Holding(proc[q]) /\ Holding(proc[r]) /\ proc[q].key.id = proc[r].key.id => q = r

\* What is on the disk agrees with what was sent and answered.
Kept ==
  /\ VisibleWhole
  /\ AnswersHold
  /\ \A k \in unsynced : objects[k] # None
  /\ \A i \in Ids : upload[i].answer = "none" => Traces(i) = {}

IInv ==
  /\ TypeOK
  /\ Kept
  /\ LeftoversHaveACause
  /\ Distinct
  /\ \A r \in Requests : CallOK(proc[r])

----------------------------------------------------------------------------
LEMMA Types ==
  ASSUME IInv
  PROVE  /\ TypeOK /\ Kept /\ LeftoversHaveACause /\ Distinct
         /\ \A r \in Requests : proc[r] \in Procs /\ CallOK(proc[r])
  BY DEF IInv, TypeOK

LEMMA NotNone ==
  /\ None \notin Nat
  /\ \A k \in Keys : k # None /\ k.owner \in Users /\ k.id \in Ids /\ k.ext \in Kinds
  /\ \A k \in Keys : k = [owner |-> k.owner, id |-> k.id, ext |-> k.ext]
  BY FilesAssumption DEF Keys

LEMMA IdleIsOK ==
  /\ Idle \in Procs /\ ~Holding(Idle) /\ Idle.pc = "idle" /\ CallOK(Idle)
  <1>1. /\ Idle.pc = "idle" /\ Idle.op = "upload" /\ Idle.key = None
    BY DEF Idle
  <1>2. Idle \in Procs
    BY DEF Idle, Procs
  <1> QED BY <1>1, <1>2 DEF CallOK, Formed, Recorded, Written, Holding

\* The locals of a request that holds an identifier.
LEMMA HoldingFacts ==
  ASSUME NEW p \in Procs, CallOK(p), Holding(p)
  PROVE  /\ p.key \in Keys /\ p.key.id \in Ids /\ p.key.owner \in Users
         /\ p.stream \in Streams /\ p.key.ext \in Kinds
         /\ upload[p.key.id].owner = p.key.owner /\ upload[p.key.id].stream = p.stream
         /\ upload[p.key.id].answer = "open"
         /\ p.key.ext = p.stream.kind /\ HeaderError(p.stream) = {}
         /\ (p.pc = "done" /\ p.err = {}) <=> Traces(p.key.id) # {}
  <1>1. p.key \in Keys
    BY DEF Procs, Holding
  <1> QED BY <1>1, NotNone DEF CallOK, Formed, Recorded, Holding

----------------------------------------------------------------------------
\* Nothing that an upload under identifier j relies on has changed.
Same(j) ==
  /\ upload'[j] = upload[j]
  /\ Traces(j)' = Traces(j)
  /\ \A u \in Users : temps'[<<u, j>>] = temps[<<u, j>>]

LEMMA CallKept ==
  ASSUME IInv, NEW p \in Procs, CallOK(p), Holding(p) => Same(p.key.id)
  PROVE  CallOK(p)'
  <1>1. Formed(p)'
    BY DEF CallOK, Formed, MayDelete
  <1>2. Recorded(p)'
    <2>1. SUFFICES ASSUME Holding(p) PROVE Recorded(p)'
      BY DEF Recorded, Holding
    <2>2. PICK j \in Ids : j = p.key.id
      BY <2>1, HoldingFacts
    <2>3. upload'[j] = upload[j] /\ Traces(j)' = Traces(j)
      BY <2>1, <2>2 DEF Same
    <2> QED BY <2>1, <2>2, <2>3 DEF CallOK, Recorded, Holding, HeaderError
  <1>3. Written(p)'
    <2>1. p.pc \in {"copy", "rename"} => temps'[TempOf(p.key)] = temps[TempOf(p.key)]
      <3>1. SUFFICES ASSUME p.pc \in {"copy", "rename"}
                     PROVE  temps'[TempOf(p.key)] = temps[TempOf(p.key)]
        OBVIOUS
      <3>2. Holding(p) /\ p.key \in Keys
        BY <3>1, NotNone DEF CallOK, Formed, Holding
      <3> QED BY <3>2, NotNone DEF Same, TempOf
    <2> QED BY <2>1 DEF CallOK, Written, TempOf, Status
  <1> QED BY <1>1, <1>2, <1>3 DEF CallOK

\* Request r goes on as c: what it does to the disk is done under its own identifier,
\* which is new or the one it had.
Moves(r, c) ==
  /\ proc' = [proc EXCEPT ![r] = c]
  /\ Writing(r) => Holding(c) /\ c.key = proc[r].key
  /\ Holding(c) =>
       \/ Holding(proc[r]) /\ c.key = proc[r].key
       \/ upload[c.key.id].answer = "none"
  /\ \A j \in Ids :
       (Holding(c) => j # c.key.id) /\ (Holding(proc[r]) => j # proc[r].key.id) => Same(j)

LEMMA OthersKept ==
  ASSUME IInv, NEW r \in Requests, NEW c \in Procs, Moves(r, c), CallOK(c)'
  PROVE  Distinct' /\ \A q \in Requests : CallOK(proc[q])'
  <1>1. /\ proc'[r] = c /\ \A q \in Requests : q # r => proc'[q] = proc[q]
    BY Types DEF Moves, TypeOK
  <1>2. ASSUME NEW q \in Requests, q # r, Holding(proc[q]), Holding(c)
        PROVE  proc[q].key.id # c.key.id
    <2>1. upload[proc[q].key.id].answer = "open"
      BY <1>2, Types, HoldingFacts
    <2>2. Holding(proc[r]) => proc[q].key.id # proc[r].key.id
      BY <1>2, Types DEF Distinct
    <2> QED BY <1>2, <2>1, <2>2 DEF Moves
  <1>3. Distinct'
    BY <1>1, <1>2, Types DEF Distinct, Holding
  <1>4. ASSUME NEW q \in Requests PROVE CallOK(proc[q])'
    <2>1. CASE q = r
      <3>1. c = proc'[q]
        BY <1>1, <2>1
      <3> QED BY <3>1 DEF CallOK, Formed, Recorded, Written, Holding, Traces
    <2>2. CASE q # r
      <3>1. PICK d \in Procs : d = proc[q] /\ CallOK(d)
        BY Types
      <3>2. Holding(d) => Same(d.key.id)
        BY <1>2, <2>2, <3>1, Types, HoldingFacts DEF Moves, Distinct
      <3>3. CallOK(d)'
        BY <3>1, <3>2, CallKept
      <3>4. d = proc'[q]
        BY <1>1, <2>2, <3>1
      <3> QED BY <3>3, <3>4 DEF CallOK, Formed, Recorded, Written, Holding, Traces
    <2> QED BY <2>1, <2>2
  <1> QED BY <1>3, <1>4

\* The temporary file of the request has it in hand or a cause.
OwnLeftover(c) ==
  Holding(c) /\ temps'[TempOf(c.key)] # None =>
    c.key.id \in disturbed' \/ (c.pc \in {"copy", "rename", "cleanup"} /\ c.root = root)

LEMMA LeftoversKept ==
  ASSUME IInv, NEW r \in Requests, NEW c \in Procs, Moves(r, c), CallOK(c)',
         UNCHANGED root, disturbed \subseteq disturbed', OwnLeftover(c),
         \A t \in Users \X Ids :
           (Holding(c) => t # TempOf(c.key)) => temps'[t] = temps[t]
  PROVE  LeftoversHaveACause'
  <1>1. /\ proc'[r] = c /\ \A q \in Requests : q # r => proc'[q] = proc[q]
    BY Types DEF Moves, TypeOK
  <1>2. SUFFICES ASSUME NEW t \in Users \X Ids, temps'[t] # None
                 PROVE  \/ t[2] \in disturbed'
                        \/ \E q \in Requests : /\ proc'[q].pc \in {"copy", "rename", "cleanup"}
                                               /\ TempOf(proc'[q].key) = t
                                               /\ proc'[q].root = root'
    BY DEF LeftoversHaveACause, Writing, TempOf, Open
  <1>3. CASE Holding(c) /\ t = TempOf(c.key)
    BY <1>1, <1>2, <1>3 DEF OwnLeftover, TempOf
  <1>4. CASE ~(Holding(c) /\ t = TempOf(c.key))
    <2>1. temps[t] # None
      BY <1>2, <1>4
    <2>2. CASE t[2] \in disturbed
      BY <2>2
    <2>3. ASSUME NEW q \in Requests, Writing(q), TempOf(proc[q].key) = t, Open(q)
          PROVE  /\ proc'[q].pc \in {"copy", "rename", "cleanup"}
                 /\ TempOf(proc'[q].key) = t /\ proc'[q].root = root'
      <3>1. q # r
        BY <1>4, <2>3 DEF Moves
      <3> QED BY <1>1, <2>3, <3>1 DEF Writing, Open
    <2> QED BY <2>1, <2>2, <2>3, Types DEF LeftoversHaveACause
  <1> QED BY <1>3, <1>4

LEMMA StepKeeps ==
  ASSUME IInv, NEW r \in Requests, NEW c \in Procs, Moves(r, c), CallOK(c)', Kept',
         UNCHANGED root, disturbed \subseteq disturbed', OwnLeftover(c),
         \A t \in Users \X Ids :
           (Holding(c) => t # TempOf(c.key)) => temps'[t] = temps[t],
         /\ starts' \in Nat
         /\ objects' \in [Keys -> Nat \cup {None}]
         /\ temps' \in [Users \X Ids -> Nat \cup {None}]
         /\ unsynced' \in SUBSET Keys /\ gone' \in SUBSET Keys /\ disturbed' \in SUBSET Ids
         /\ upload' \in [Ids -> [owner : Users \cup {None}, stream : Streams \cup {None},
                                 answer : {"none", "open", "created", "failed"}]]
  PROVE  IInv'
  <1>1. TypeOK'
    BY Types DEF TypeOK, Moves
  <1> QED BY <1>1, OthersKept, LeftoversKept DEF IInv

\* An upload whose temporary file is there has it in hand under an open root, or it
\* was disturbed.
LEMMA OwnCause ==
  ASSUME IInv, NEW r \in Requests, Holding(proc[r]), temps[TempOf(proc[r].key)] # None
  PROVE  proc[r].key.id \in disturbed \/ (Writing(r) /\ Open(r))
  <1>1. PICK p \in Procs : p = proc[r] /\ CallOK(p)
    BY Types
  <1>2. TempOf(p.key) \in Users \X Ids /\ TempOf(p.key)[2] = p.key.id
    BY <1>1, HoldingFacts DEF TempOf
  <1>3. \/ p.key.id \in disturbed
        \/ \E q \in Requests : Writing(q) /\ TempOf(proc[q].key) = TempOf(p.key) /\ Open(q)
    BY <1>1, <1>2, Types DEF LeftoversHaveACause
  <1>4. ASSUME NEW q \in Requests, Writing(q), TempOf(proc[q].key) = TempOf(p.key), Open(q)
        PROVE  q = r
    <2>1. Holding(proc[q]) /\ proc[q].key.id = p.key.id
      BY <1>4, Types, NotNone DEF TempOf, Writing, Holding, CallOK, Formed
    <2> QED BY <1>1, <2>1, Types DEF Distinct
  <1> QED BY <1>1, <1>3, <1>4

\* A step that leaves the disk and the history alone.
LEMMA QuietKeeps ==
  ASSUME IInv, NEW r \in Requests, NEW c \in Procs, CallOK(c),
         proc' = [proc EXCEPT ![r] = c],
         UNCHANGED <<root, starts, objects, temps, unsynced, history>>,
         \/ ~Writing(r) /\ ~Holding(c)
         \/ ~Writing(r) /\ Holding(c) /\ Holding(proc[r]) /\ c.key = proc[r].key
         \/ Writing(r) /\ Holding(c) /\ c.key = proc[r].key
            /\ c.pc \in {"copy", "rename", "cleanup"} /\ c.root = proc[r].root
  PROVE  IInv'
  <1>1. \A j \in Ids : Same(j)
    BY DEF Same, Traces, history
  <1>2. Writing(r) => Holding(proc[r])
    BY Types, NotNone DEF Writing, Holding, CallOK, Formed
  <1>3. Moves(r, c)
    BY <1>1, <1>2 DEF Moves
  <1>4. CallOK(c)'
    BY <1>1, CallKept, HoldingFacts
  <1>5. Kept'
    BY Types DEF Kept, VisibleWhole, AnswersHold, Traces, history
  <1>6. OwnLeftover(c)
    BY Types, OwnCause, <1>2 DEF OwnLeftover, Open, Writing, TempOf, history
  <1> QED BY <1>3, <1>4, <1>5, <1>6, StepKeeps, Types DEF TypeOK, history

----------------------------------------------------------------------------
(* What stops, kills and starts the store. *)

LEMMA TempsKept ==
  ASSUME IInv, UNCHANGED <<objects, temps, upload, gone>>, NEW p \in Procs, CallOK(p)
  PROVE  CallOK(p)'
  BY CallKept DEF Same, Traces

LEMMA FilesStay ==
  ASSUME IInv, UNCHANGED <<objects, temps, upload, gone, proc>>
  PROVE  Distinct' /\ \A q \in Requests : CallOK(proc[q])'
  <1>1. Distinct'
    BY Types DEF Distinct, Holding
  <1>2. ASSUME NEW q \in Requests PROVE CallOK(proc[q])'
    <2>1. PICK d \in Procs : d = proc[q] /\ CallOK(d)
      BY Types
    <2>2. CallOK(d)' /\ d = proc'[q]
      BY <2>1, TempsKept
    <2> QED BY <2>2 DEF CallOK, Formed, Recorded, Written, Holding, Traces
  <1> QED BY <1>1, <1>2

LEMMA KeptStays ==
  ASSUME IInv, UNCHANGED <<objects, upload, gone>>, unsynced' \subseteq unsynced
  PROVE  Kept'
  BY Types DEF Kept, VisibleWhole, AnswersHold, Traces

\* What is under way has an identifier.
LEMMA UnderWayFacts ==
  ASSUME IInv
  PROVE  /\ UnderWay \in SUBSET Ids
         /\ \A r \in Requests : Writing(r) =>
               /\ proc[r].key.id \in UnderWay /\ proc[r].root # None
               /\ TempOf(proc[r].key)[2] = proc[r].key.id
  BY Types, NotNone DEF UnderWay, Writing, CallOK, Formed, TempOf

LEMMA StartKeeps ==
  ASSUME IInv, Start PROVE IInv'
  <1>1. TypeOK'
    BY Types DEF Start, TypeOK, history
  <1>2. LeftoversHaveACause'
    <2>1. \A r \in Requests : Writing(r) /\ Open(r) => root' = root
      BY UnderWayFacts DEF Start, Open
    <2> QED BY <2>1, Types DEF Start, LeftoversHaveACause, Writing, Open, TempOf, history
  <1> QED BY <1>1, <1>2, FilesStay, KeptStays DEF Start, IInv, history

LEMMA StopKeeps ==
  ASSUME IInv, Stop PROVE IInv'
  <1>1. TypeOK'
    BY Types, UnderWayFacts DEF Stop, TypeOK
  <1>2. LeftoversHaveACause'
    BY Types, UnderWayFacts DEF Stop, LeftoversHaveACause
  <1> QED BY <1>1, <1>2, FilesStay, KeptStays DEF Stop, IInv

LEMMA WriteBackKeeps ==
  ASSUME IInv, WriteBack PROVE IInv'
  <1>1. TypeOK'
    BY Types DEF WriteBack, TypeOK, history
  <1>2. LeftoversHaveACause'
    BY Types DEF WriteBack, LeftoversHaveACause, Writing, Open, TempOf, history
  <1> QED BY <1>1, <1>2, FilesStay, KeptStays DEF WriteBack, IInv, history

LEMMA AllIdle ==
  ASSUME proc' = [r \in Requests |-> Idle]
  PROVE  Distinct' /\ \A q \in Requests : CallOK(proc[q])'
  <1>1. PICK d \in Procs : d = Idle
    BY IdleIsOK
  <1>2. /\ ~Holding(d) /\ d.pc = "idle" /\ d.op = "upload" /\ d.key = None
    BY <1>1, IdleIsOK DEF Idle
  <1>3. \A q \in Requests : proc'[q] = d
    BY <1>1
  <1> QED BY <1>2, <1>3 DEF CallOK, Formed, Recorded, Written, Holding, Distinct

LEMMA CrashKeeps ==
  ASSUME IInv, Crash PROVE IInv'
  <1>1. TypeOK'
    BY Types, UnderWayFacts, IdleIsOK DEF Crash, Kill, TypeOK
  <1>2. LeftoversHaveACause'
    BY Types, UnderWayFacts DEF Crash, Kill, LeftoversHaveACause
  <1> QED BY <1>1, <1>2, AllIdle, KeptStays DEF Crash, Kill, IInv

LEMMA PowerLossKeeps ==
  ASSUME IInv, PowerLoss PROVE IInv'
  <1>1. PICK lost \in SUBSET unsynced :
            /\ Kill(lost)
            /\ objects' = [k \in Keys |-> IF k \in lost THEN None ELSE objects[k]]
            /\ temps' = [t \in Users \X Ids |->
                   IF \E k \in lost : TempOf(k) = t
                   THEN objects[CHOOSE k \in lost : TempOf(k) = t] ELSE temps[t]]
            /\ unsynced' = {} /\ gone' = gone \cup lost
            /\ UNCHANGED <<starts, upload>>
    BY DEF PowerLoss
  <1>2. /\ lost \in SUBSET Keys /\ \A k \in lost : objects[k] # None
        /\ \A k \in lost : k.id \in Ids /\ TempOf(k)[2] = k.id
    BY Types, NotNone DEF TypeOK, Kept, TempOf
  <1>3. TypeOK'
    <2>1. objects' \in [Keys -> Nat \cup {None}]
      BY <1>1, Types DEF TypeOK
    <2>2. temps' \in [Users \X Ids -> Nat \cup {None}]
      <3>1. ASSUME NEW t \in Users \X Ids PROVE temps'[t] \in Nat \cup {None}
        <4>1. CASE \E k \in lost : TempOf(k) = t
          <5>1. (CHOOSE k \in lost : TempOf(k) = t) \in lost
            BY <4>1
          <5> QED BY <1>1, <1>2, <4>1, <5>1, Types DEF TypeOK
        <4>2. CASE ~\E k \in lost : TempOf(k) = t
          BY <1>1, <4>2, Types DEF TypeOK
        <4> QED BY <4>1, <4>2
      <3> QED BY <1>1, <3>1
    <2>3. disturbed' \in SUBSET Ids
      BY <1>1, <1>2, UnderWayFacts, Types DEF Kill, TypeOK
    <2> QED BY <1>1, <1>2, <2>1, <2>2, <2>3, IdleIsOK, Types DEF Kill, TypeOK
  <1>4. \A i \in Ids : Traces(i)' = Traces(i)
    BY <1>1, <1>2 DEF Traces
  <1>5. Kept'
    <2>1. VisibleWhole'
      BY <1>1, Types DEF Kept, VisibleWhole
    <2>2. AnswersHold'
      BY <1>1, <1>4, Types DEF Kept, AnswersHold, Traces
    <2> QED BY <1>1, <1>4, <2>1, <2>2, Types DEF Kept
  <1>6. LeftoversHaveACause'
    <2>1. SUFFICES ASSUME NEW t \in Users \X Ids, temps'[t] # None
                   PROVE  t[2] \in disturbed'
      BY DEF LeftoversHaveACause
    <2>2. CASE \E k \in lost : TempOf(k) = t
      BY <1>1, <1>2, <2>2 DEF Kill
    <2>3. CASE ~\E k \in lost : TempOf(k) = t
      BY <1>1, <2>1, <2>3, Types, UnderWayFacts DEF Kill, LeftoversHaveACause
    <2> QED BY <2>2, <2>3
  <1> QED BY <1>1, <1>3, <1>5, <1>6, AllIdle DEF Kill, IInv

----------------------------------------------------------------------------
(* Uploads. *)

\* The fields of a request that the proofs tell apart, and its type again.
LEMMA Fields ==
  ASSUME NEW p \in Procs
  PROVE  /\ p.key \in Keys \cup {None} /\ p.root \in Nat \cup {None} /\ p.written \in Nat
         /\ p.err \in SUBSET Errors /\ p.stream \in Streams \cup {None}
         /\ p.user \in Users \cup {None} /\ p.op \in {"upload", "open", "remove"}
  BY DEF Procs

LEMMA StreamFacts ==
  ASSUME NEW s \in Streams
  PROVE  /\ s.kind \in Kinds /\ s.size \in Nat /\ s.end \in Ends
         /\ Limit[s.kind] \in Nat /\ Sniff \in Nat /\ Sniff > 0
         /\ Limit[s.kind] > 0 => Limit[s.kind] >= Sniff
         /\ s = [kind |-> s.kind, size |-> s.size, end |-> s.end]
         /\ HeaderError(s) = {} => s.size > 0 /\ Limit[s.kind] > 0
  <1>1. /\ s.kind \in Kinds /\ s.size \in Nat /\ s.end \in Ends
        /\ s = [kind |-> s.kind, size |-> s.size, end |-> s.end]
    BY FilesAssumption DEF Streams, Sizes
  <1>2. /\ Limit[s.kind] \in Nat /\ Sniff \in Nat /\ Sniff > 0
        /\ Limit[s.kind] > 0 => Limit[s.kind] >= Sniff
    BY <1>1, FilesAssumption
  <1> QED BY <1>1, <1>2 DEF HeaderError

LEMMA StartUploadKeeps ==
  ASSUME IInv, NEW r \in Requests, StartUpload(r) PROVE IInv'
  <1>1. PICK u \in Users, s \in Streams :
            proc' = [proc EXCEPT ![r] = [Idle EXCEPT !.pc = "header", !.user = u, !.stream = s]]
    BY DEF StartUpload
  <1>2. PICK c : c = [Idle EXCEPT !.pc = "header", !.user = u, !.stream = s]
    OBVIOUS
  <1>3. /\ c \in Procs /\ c.pc = "header" /\ c.op = "upload" /\ c.user = u /\ c.stream = s
        /\ c.key = None /\ c.written = 0
    BY <1>2, IdleIsOK DEF Idle, Procs
  <1>4. CallOK(c) /\ ~Holding(c)
    BY <1>3 DEF CallOK, Formed, Recorded, Written, Holding
  <1> QED BY <1>1, <1>2, <1>3, <1>4, QuietKeeps DEF StartUpload, At, Writing

\* What Status makes of an answer about a stream that is too large.
LEMMA HeaderSaysTooLarge ==
  ASSUME NEW s \in Streams, HeaderError(s) # {}, Limit[s.kind] > 0,
         s.size > Limit[s.kind] \/ (s.end = "large" /\ s.size > 0)
  PROVE  Status(HeaderError(s)) = 413
  <1>1. s.size < Sniff /\ s.end = "large" /\ HeaderError(s) = {"unavailable", "max_bytes"}
    BY StreamFacts DEF HeaderError, Ends
  <1> QED BY <1>1 DEF Status

LEMMA ReadHeaderKeeps ==
  ASSUME IInv, NEW r \in Requests, ReadHeader(r) PROVE IInv'
  <1>1. PICK b \in Procs : b = proc[r] /\ CallOK(b)
    BY Types
  <1>2. PICK s \in Streams : s = b.stream
    BY <1>1 DEF ReadHeader, At, CallOK, Formed
  <1>3. /\ b.pc = "header" /\ b.op = "upload" /\ b.user \in Users /\ b.key = None /\ b.written = 0
        /\ ~Writing(r) /\ ~Holding(b)
    BY <1>1 DEF ReadHeader, At, CallOK, Formed, Writing, Holding
  <1>4. /\ UNCHANGED <<root, starts, objects, temps, unsynced, gone, disturbed>>
        /\ \/ HeaderError(s) # {} /\ Done(r, HeaderError(s)) /\ UNCHANGED upload
           \/ /\ HeaderError(s) = {}
              /\ \E i \in {j \in Ids : upload[j] = Unsent} :
                   /\ proc' = [proc EXCEPT ![r].pc = "root",
                           ![r].key = [owner |-> b.user, id |-> i, ext |-> s.kind]]
                   /\ upload' = [upload EXCEPT ![i] =
                             [owner |-> b.user, stream |-> s, answer |-> "open"]]
    BY <1>1, <1>2 DEF ReadHeader
  <1>5. CASE HeaderError(s) # {} /\ Done(r, HeaderError(s)) /\ UNCHANGED upload
    <2>1. PICK c : c = [b EXCEPT !.pc = "done", !.err = HeaderError(s)]
      OBVIOUS
    <2>2. HeaderError(s) \in SUBSET Errors
      BY DEF HeaderError, Errors
    <2>3. /\ c \in Procs /\ c.pc = "done" /\ c.op = "upload" /\ c.stream = s /\ c.key = None
          /\ c.err = HeaderError(s)
      BY <1>2, <1>3, <2>1, <2>2 DEF Procs
    <2>4. CallOK(c) /\ ~Holding(c)
      BY <1>5, <2>3, HeaderSaysTooLarge DEF CallOK, Formed, Recorded, Written, Holding
    <2>5. proc' = [proc EXCEPT ![r] = c]
      BY <1>1, <1>5, <2>1, Types DEF Done, TypeOK
    <2> QED BY <1>3, <1>4, <1>5, <2>3, <2>4, <2>5, QuietKeeps DEF history
  <1>6. ASSUME NEW i \in Ids, upload[i] = Unsent, HeaderError(s) = {},
               proc' = [proc EXCEPT ![r].pc = "root",
                           ![r].key = [owner |-> b.user, id |-> i, ext |-> s.kind]],
               upload' = [upload EXCEPT ![i] =
                             [owner |-> b.user, stream |-> s, answer |-> "open"]]
        PROVE  IInv'
    <2>1. PICK k : k = [owner |-> b.user, id |-> i, ext |-> s.kind]
      OBVIOUS
    <2>2. k \in Keys /\ k.owner = b.user /\ k.id = i /\ k.ext = s.kind /\ k # None
      BY <1>3, <2>1, StreamFacts, NotNone DEF Keys
    <2>3. PICK c : c = [b EXCEPT !.pc = "root", !.key = k]
      OBVIOUS
    <2>4. /\ c \in Procs /\ c.pc = "root" /\ c.op = "upload" /\ c.stream = s /\ c.key = k
          /\ c.written = 0
      BY <1>2, <1>3, <2>2, <2>3 DEF Procs
    <2>5. upload[i].answer = "none" /\ Traces(i) = {}
      BY <1>6, Types DEF Unsent, Kept
    <2>6. /\ upload'[i].owner = k.owner /\ upload'[i].stream = s /\ upload'[i].answer = "open"
          /\ \A j \in Ids : j # i => upload'[j] = upload[j]
          /\ upload' \in [Ids -> [owner : Users \cup {None}, stream : Streams \cup {None},
                                 answer : {"none", "open", "created", "failed"}]]
      BY <1>3, <1>6, <2>2, Types DEF TypeOK
    <2>7. \A j \in Ids : Traces(j)' = Traces(j)
      BY <1>4 DEF Traces
    <2>8. Moves(r, c)
      <3>1. proc' = [proc EXCEPT ![r] = c]
        BY <1>1, <1>6, <2>1, <2>3, Types DEF TypeOK
      <3>2. \A j \in Ids : j # i => Same(j)
        BY <1>4, <2>6, <2>7 DEF Same
      <3> QED BY <1>1, <1>3, <2>2, <2>4, <2>5, <3>1, <3>2 DEF Moves, Holding
    <2>9. CallOK(c)'
      BY <1>6, <2>2, <2>4, <2>5, <2>6, <2>7 DEF CallOK, Formed, Recorded, Written, Holding, HeaderError
    <2>10. Kept'
      <3>1. \A x \in Keys : x.id = i => objects[x] = None
        BY <2>5 DEF Traces
      <3>2. VisibleWhole'
        BY <1>4, <2>6, <3>1, NotNone, Types DEF Kept, VisibleWhole
      <3>3. AnswersHold'
        BY <1>4, <2>6, Types DEF Kept, AnswersHold
      <3> QED BY <1>4, <2>6, <2>7, <3>2, <3>3, Types DEF Kept
    <2>11. OwnLeftover(c)
      <3>1. SUFFICES ASSUME temps[TempOf(k)] # None PROVE i \in disturbed
        BY <1>4, <2>2, <2>4 DEF OwnLeftover, TempOf
      <3>2. TempOf(k) \in Users \X Ids /\ TempOf(k)[2] = i
        BY <2>2, NotNone DEF TempOf
      <3>3. ASSUME NEW q \in Requests, Writing(q), TempOf(proc[q].key) = TempOf(k) PROVE FALSE
        <4>1. Holding(proc[q]) /\ proc[q].key.id = i
          BY <2>2, <3>3, Types, NotNone DEF TempOf, Writing, Holding, CallOK, Formed
        <4> QED BY <2>5, <4>1, Types, HoldingFacts
      <3> QED BY <3>1, <3>2, <3>3, Types DEF LeftoversHaveACause
    <2> QED BY <1>4, <2>4, <2>6, <2>8, <2>9, <2>10, <2>11, StepKeeps, Types DEF TypeOK
  <1> QED BY <1>4, <1>5, <1>6

LEMMA TakeRootKeeps ==
  ASSUME IInv, NEW r \in Requests, TakeRoot(r) PROVE IInv'
  <1>1. PICK b \in Procs : b = proc[r] /\ CallOK(b)
    BY Types
  <1>2. /\ b.pc = "root" /\ b.key \in Keys /\ b.op \in {"upload", "open", "remove"} /\ ~Writing(r)
        /\ UNCHANGED <<root, starts, objects, temps, unsynced, history>>
    BY <1>1, Fields DEF TakeRoot, At, CallOK, Formed, Writing
  <1>3. ASSUME NEW c \in Procs, CallOK(c), c.key = b.key, c.op = b.op,
               proc' = [proc EXCEPT ![r] = c]
        PROVE  IInv'
    BY <1>1, <1>2, <1>3, QuietKeeps DEF Holding
  <1>4. CASE root = None /\ b.op = "upload"
    <2>1. PICK c : c = [b EXCEPT !.pc = "done", !.err = {"unavailable"}, !.blocked = TRUE]
      OBVIOUS
    <2>2. /\ c \in Procs /\ c.pc = "done" /\ c.op = b.op /\ c.stream = b.stream /\ c.key = b.key
          /\ c.err = {"unavailable"} /\ c.blocked = TRUE
      BY <2>1 DEF Procs, Errors
    <2>3. CallOK(c)
      BY <1>1, <1>2, <1>4, <2>2 DEF CallOK, Formed, Recorded, Written, Holding
    <2>4. proc' = [proc EXCEPT ![r] = c]
      BY <1>1, <1>4, <2>1, Types DEF TakeRoot, Blocked, TypeOK
    <2> QED BY <1>3, <2>2, <2>3, <2>4
  <1>5. CASE root = None /\ b.op # "upload"
    <2>1. proc' = [proc EXCEPT ![r] = Idle]
      BY <1>1, <1>5 DEF TakeRoot
    <2> QED BY <1>2, <2>1, IdleIsOK, QuietKeeps
  <1>6. CASE root # None
    <2>1. PICK pc : pc = IF b.op = "upload" THEN "create" ELSE b.op
      OBVIOUS
    <2>2. PICK c : c = [b EXCEPT !.root = root, !.pc = pc]
      OBVIOUS
    <2>3. pc \in {"create", "open", "remove"} /\ (pc = "create" <=> b.op = "upload")
          /\ (pc # "create" => pc = b.op)
      BY <1>2, <2>1
    <2>4. /\ c \in Procs /\ c.pc = pc /\ c.op = b.op /\ c.stream = b.stream /\ c.key = b.key
          /\ c.written = b.written /\ c.root = root
          /\ c.user = b.user /\ c.superuser = b.superuser
      BY <2>2, <2>3, Types DEF Procs, TypeOK
    <2>5. CallOK(c)
      <3>1. Formed(c)
        BY <1>1, <1>2, <1>6, <2>3, <2>4 DEF CallOK, Formed
      <3>2. Recorded(c)
        BY <1>1, <1>2, <2>3, <2>4 DEF CallOK, Recorded, Holding
      <3> QED BY <2>3, <2>4, <3>1, <3>2 DEF CallOK, Written
    <2>6. proc' = [proc EXCEPT ![r] = c]
      BY <1>1, <1>6, <2>1, <2>2, Types DEF TakeRoot, TypeOK
    <2> QED BY <1>3, <2>4, <2>5, <2>6
  <1> QED BY <1>4, <1>5, <1>6

\* An upload with its identifier in hand.
LEMMA UploadFacts ==
  ASSUME IInv, NEW r \in Requests, proc[r].pc \in {"create", "copy", "rename", "cleanup"}
  PROVE  /\ Holding(proc[r]) /\ proc[r].op = "upload" /\ proc[r].root # None
         /\ proc[r].key \in Keys /\ proc[r].stream \in Streams /\ proc[r].written \in Nat
         /\ TempOf(proc[r].key) \in Users \X Ids
         /\ Traces(proc[r].key.id) = {}
         /\ Limit[proc[r].stream.kind] \in Nat /\ Limit[proc[r].stream.kind] > 0
         /\ proc[r].stream.size \in Nat /\ proc[r].stream.size > 0
         /\ temps[TempOf(proc[r].key)] \in Nat \cup {None}
         /\ proc[r].pc \in {"copy", "rename"} => temps[TempOf(proc[r].key)] = proc[r].written
  <1>1. PICK b \in Procs : b = proc[r] /\ CallOK(b)
    BY Types
  <1>2. /\ Holding(b) /\ b.op = "upload" /\ b.root # None /\ b.key \in Keys /\ b.stream \in Streams
        /\ b.written \in Nat
    BY <1>1, NotNone, Fields DEF CallOK, Formed, Holding
  <1>3. TempOf(b.key) \in Users \X Ids
    BY <1>2, NotNone DEF TempOf
  <1>4. Traces(b.key.id) = {} /\ HeaderError(b.stream) = {}
    BY <1>1, <1>2, HoldingFacts
  <1>5. temps[TempOf(b.key)] \in Nat \cup {None}
    BY <1>3, Types DEF TypeOK
  <1> QED BY <1>1, <1>2, <1>3, <1>4, <1>5, StreamFacts DEF CallOK, Written

\* A step that writes the temporary file of its own upload and nothing else.
LEMMA WriteKeeps ==
  ASSUME IInv, NEW r \in Requests, proc[r].pc \in {"create", "copy", "cleanup"},
         NEW c \in Procs, NEW n \in Nat \cup {None},
         c.key = proc[r].key, c.op = "upload", c.pc # "idle",
         CallOK(c)', OwnLeftover(c),
         temps' = [temps EXCEPT ![TempOf(proc[r].key)] = n],
         proc' = [proc EXCEPT ![r] = c],
         disturbed' = disturbed,
         UNCHANGED <<root, starts, objects, unsynced, upload, gone>>
  PROVE  IInv'
  <1>1. PICK t \in Users \X Ids : t = TempOf(c.key)
    BY UploadFacts
  <1>2. /\ c.key \in Keys /\ c.key # None /\ Holding(c) /\ Holding(proc[r])
    BY UploadFacts, NotNone DEF Holding
  <1>3. temps' = [temps EXCEPT ![t] = n]
    BY <1>1
  <1>4. \A x \in Users \X Ids : x # t => temps'[x] = temps[x]
    BY <1>3
  <1>5. \A j \in Ids : j # c.key.id => Same(j)
    <2>1. \A j \in Ids : Traces(j)' = Traces(j)
      BY DEF Traces
    <2>2. ASSUME NEW j \in Ids, j # c.key.id, NEW u \in Users PROVE <<u, j>> \in Users \X Ids /\ <<u, j>> # t
      BY <1>1, <2>2 DEF TempOf
    <2> QED BY <1>4, <2>1, <2>2 DEF Same
  <1>6. Moves(r, c)
    BY <1>2, <1>5 DEF Moves
  <1>7. Kept'
    BY KeptStays
  <1>8. temps' \in [Users \X Ids -> Nat \cup {None}]
    BY <1>3, Types DEF TypeOK
  <1> QED BY <1>1, <1>2, <1>4, <1>6, <1>7, <1>8, StepKeeps, Types DEF TypeOK

LEMMA CreateTempKeeps ==
  ASSUME IInv, NEW r \in Requests, CreateTemp(r) PROVE IInv'
  <1>1. PICK b \in Procs : b = proc[r] /\ CallOK(b)
    BY Types
  <1>2. /\ b.pc = "create" /\ b.op = "upload" /\ b.key \in Keys /\ Holding(b) /\ ~Writing(r)
        /\ b.written = 0 /\ b.stream \in Streams /\ Traces(b.key.id) = {}
    BY <1>1, UploadFacts DEF CreateTemp, At, Writing, CallOK, Formed
  <1>3. CASE Open(r) /\ temps[TempOf(b.key)] = None
    <2>1. /\ temps' = [temps EXCEPT ![TempOf(b.key)] = 0] /\ Go(r, "copy")
          /\ UNCHANGED <<root, starts, objects, unsynced, history>>
      BY <1>1, <1>3 DEF CreateTemp
    <2>2. PICK c : c = [b EXCEPT !.pc = "copy"]
      OBVIOUS
    <2>3. /\ c \in Procs /\ c.pc = "copy" /\ c.op = "upload" /\ c.stream = b.stream /\ c.key = b.key
          /\ c.written = 0 /\ c.root = b.root
      BY <1>2, <2>2 DEF Procs
    <2>4. proc' = [proc EXCEPT ![r] = c]
      BY <1>1, <2>1, <2>2, Types DEF Go, TypeOK
    <2>5. temps'[TempOf(b.key)] = 0
      BY <1>1, <1>2, <2>1, UploadFacts, Types DEF TypeOK
    <2>6. CallOK(c)'
      <3>1. Formed(c)'
        BY <1>1, <1>2, <2>3 DEF CallOK, Formed
      <3>2. Recorded(c)'
        BY <1>1, <1>2, <2>1, <2>3 DEF CallOK, Recorded, Holding, Traces, HeaderError, history
      <3>3. Written(c)'
        BY <1>2, <2>3, <2>5, StreamFacts DEF Written, TempOf
      <3> QED BY <3>1, <3>2, <3>3 DEF CallOK
    <2>7. OwnLeftover(c)
      BY <1>1, <1>3, <2>3 DEF OwnLeftover, Open
    <2> QED BY <1>1, <1>2, <2>1, <2>3, <2>4, <2>6, <2>7, WriteKeeps DEF history
  <1>4. CASE ~(Open(r) /\ temps[TempOf(b.key)] = None)
    <2>1. /\ UNCHANGED temps /\ Blocked(r)
          /\ UNCHANGED <<root, starts, objects, unsynced, history>>
      BY <1>1, <1>4 DEF CreateTemp
    <2>2. PICK c : c = [b EXCEPT !.pc = "done", !.err = {"unavailable"}, !.blocked = TRUE]
      OBVIOUS
    <2>3. /\ c \in Procs /\ c.pc = "done" /\ c.op = b.op /\ c.stream = b.stream /\ c.key = b.key
          /\ c.err = {"unavailable"} /\ c.blocked = TRUE
      BY <2>2 DEF Procs, Errors
    <2>4. CallOK(c) /\ Holding(c)
      BY <1>1, <1>2, <2>3 DEF CallOK, Formed, Recorded, Written, Holding
    <2>5. proc' = [proc EXCEPT ![r] = c]
      BY <1>1, <2>1, <2>2, Types DEF Blocked, TypeOK
    <2> QED BY <1>1, <1>2, <2>1, <2>3, <2>4, <2>5, QuietKeeps
  <1> QED BY <1>3, <1>4

LEMMA CopyBlockKeeps ==
  ASSUME IInv, NEW r \in Requests, CopyBlock(r) PROVE IInv'
  <1>1. PICK b \in Procs : b = proc[r] /\ CallOK(b)
    BY Types
  <1>2. /\ b.pc = "copy" /\ b.op = "upload" /\ b.key \in Keys /\ Holding(b)
        /\ b.written \in Nat /\ b.stream \in Streams /\ temps[TempOf(b.key)] = b.written
        /\ b.stream.size \in Nat /\ Limit[b.stream.kind] \in Nat
    BY <1>1, UploadFacts DEF CopyBlock, At
  <1>3. b.written < b.stream.size /\ b.written < Limit[b.stream.kind] + 1
    BY <1>1, <1>2 DEF CopyBlock, ToRead, MaxBytes
  <1>4. PICK n \in Nat : n = b.written + 1
    BY <1>2
  <1>5. PICK c : c = [b EXCEPT !.written = n]
    OBVIOUS
  <1>6. /\ c \in Procs /\ c.pc = "copy" /\ c.op = "upload" /\ c.stream = b.stream /\ c.key = b.key
        /\ c.written = n /\ c.root = b.root
    BY <1>2, <1>5 DEF Procs
  <1>7. /\ temps' = [temps EXCEPT ![TempOf(b.key)] = n]
        /\ proc' = [proc EXCEPT ![r] = c]
        /\ UNCHANGED <<root, starts, objects, unsynced, history>>
    BY <1>1, <1>4, <1>5, Types DEF CopyBlock, TypeOK
  <1>8. temps'[TempOf(b.key)] = n
    BY <1>1, <1>2, <1>7, UploadFacts, Types DEF TypeOK
  <1>9. CallOK(c)'
    <2>1. Formed(c)'
      BY <1>1, <1>2, <1>6 DEF CallOK, Formed
    <2>2. Recorded(c)'
      BY <1>1, <1>2, <1>6, <1>7 DEF CallOK, Recorded, Holding, Traces, HeaderError, history
    <2>3. Written(c)'
      BY <1>2, <1>3, <1>4, <1>6, <1>8 DEF Written, TempOf
    <2> QED BY <2>1, <2>2, <2>3 DEF CallOK
  <1>10. OwnLeftover(c)
    <2>1. b.written # None
      BY <1>2, NotNone
    <2> QED BY <1>1, <1>2, <1>6, <1>7, <2>1, OwnCause DEF OwnLeftover, Open, history
  <1> QED BY <1>1, <1>2, <1>6, <1>7, <1>9, <1>10, WriteKeeps DEF history

\* An upload that has its temporary file gives up: the file is to be removed.
LEMMA AbortKeeps ==
  ASSUME IInv, NEW r \in Requests, proc[r].pc \in {"copy", "rename"},
         NEW c \in Procs, c.pc = "cleanup", c.op = proc[r].op, c.key = proc[r].key,
         c.stream = proc[r].stream, c.root = proc[r].root, c.err # {},
         \/ c.blocked = TRUE
         \/ c.stream.size > Limit[c.stream.kind] \/ c.stream.end = "large" => Status(c.err) = 413,
         proc' = [proc EXCEPT ![r] = c],
         UNCHANGED <<root, starts, objects, temps, unsynced, history>>
  PROVE  IInv'
  <1>1. PICK b \in Procs : b = proc[r] /\ CallOK(b)
    BY Types
  <1>2. /\ b.op = "upload" /\ b.key \in Keys /\ Holding(b) /\ Writing(r)
        /\ b.stream \in Streams /\ Traces(b.key.id) = {}
    BY <1>1, UploadFacts DEF Writing
  <1>3. CallOK(c) /\ Holding(c)
    <2>1. Formed(c)
      BY <1>1, <1>2 DEF CallOK, Formed
    <2>2. Recorded(c) /\ Holding(c)
      BY <1>1, <1>2 DEF CallOK, Recorded, Holding
    <2>3. Written(c)
      BY DEF Written
    <2> QED BY <2>1, <2>2, <2>3 DEF CallOK
  <1> QED BY <1>1, <1>2, <1>3, QuietKeeps

LEMMA CopyEndKeeps ==
  ASSUME IInv, NEW r \in Requests, CopyEnd(r) PROVE IInv'
  <1>1. PICK b \in Procs : b = proc[r] /\ CallOK(b)
    BY Types
  <1>2. PICK s \in Streams : s = b.stream
    BY <1>1, UploadFacts DEF CopyEnd, At
  <1>3. PICK max \in Nat : max = Limit[s.kind]
    BY <1>1, <1>2, StreamFacts
  <1>4. /\ b.pc = "copy" /\ b.op = "upload" /\ b.key \in Keys /\ Holding(b) /\ Writing(r)
        /\ b.written \in Nat /\ temps[TempOf(b.key)] = b.written /\ Traces(b.key.id) = {}
        /\ s.size \in Nat /\ s.end \in Ends /\ b.written <= s.size /\ b.written <= max + 1
    BY <1>1, <1>2, <1>3, UploadFacts, StreamFacts DEF CopyEnd, At, Writing, CallOK, Written
  <1>5. b.written = IF s.size > max THEN max + 1 ELSE s.size
    BY <1>1, <1>2, <1>3 DEF CopyEnd, ToRead, MaxBytes
  <1>6. PICK err : err = IF b.written > max THEN {"too_large"} ELSE CopyError(s)
    OBVIOUS
  <1>7. /\ IF err = {} THEN Go(r, "rename") ELSE Abort(r, err, FALSE)
        /\ UNCHANGED <<root, starts, objects, temps, unsynced, history>>
    BY <1>1, <1>2, <1>3, <1>6 DEF CopyEnd, MaxBytes
  <1>8. /\ err \in SUBSET Errors
        /\ err = {} => s.size <= max /\ s.end = "eof" /\ b.written = s.size
        /\ s.size > max => err = {"too_large"}
        /\ s.size <= max /\ s.end = "large" => err = {"unavailable", "max_bytes"}
    BY <1>4, <1>5, <1>6 DEF CopyError, Errors, Ends
  <1>9. CASE err = {}
    <2>1. PICK c : c = [b EXCEPT !.pc = "rename"]
      OBVIOUS
    <2>2. /\ c \in Procs /\ c.pc = "rename" /\ c.op = "upload" /\ c.stream = s /\ c.key = b.key
          /\ c.written = b.written /\ c.root = b.root
      BY <1>2, <1>4, <2>1 DEF Procs
    <2>3. CallOK(c) /\ Holding(c)
      <3>1. Formed(c)
        BY <1>1, <1>2, <1>4, <2>2 DEF CallOK, Formed
      <3>2. Recorded(c) /\ Holding(c)
        BY <1>1, <1>2, <1>4, <2>2 DEF CallOK, Recorded, Holding
      <3>3. Written(c)
        BY <1>3, <1>4, <1>8, <1>9, <2>2 DEF Written
      <3> QED BY <3>1, <3>2, <3>3 DEF CallOK
    <2>4. proc' = [proc EXCEPT ![r] = c]
      BY <1>1, <1>7, <1>9, <2>1, Types DEF Go, TypeOK
    <2> QED BY <1>1, <1>4, <1>7, <2>2, <2>3, <2>4, QuietKeeps
  <1>10. CASE err # {}
    <2>1. s.size > max \/ s.end = "large" => Status(err) = 413
      BY <1>3, <1>4, <1>8 DEF Status
    <2>2. PICK c : c = [b EXCEPT !.pc = "cleanup", !.err = err, !.blocked = FALSE]
      OBVIOUS
    <2>3. /\ c \in Procs /\ c.pc = "cleanup" /\ c.op = b.op /\ c.stream = s /\ c.key = b.key
          /\ c.err = err /\ c.root = b.root
      BY <1>2, <1>8, <2>2 DEF Procs
    <2>4. proc' = [proc EXCEPT ![r] = c]
      BY <1>1, <1>7, <1>10, <2>2, Types DEF Abort, TypeOK
    <2> QED BY <1>1, <1>2, <1>3, <1>4, <1>7, <1>10, <2>1, <2>3, <2>4, AbortKeeps
  <1> QED BY <1>9, <1>10

LEMMA FailKeeps ==
  ASSUME IInv, NEW r \in Requests, Fail(r) PROVE IInv'
  <1>1. PICK b \in Procs : b = proc[r] /\ CallOK(b)
    BY Types
  <1>2. CASE At(r, "create") /\ Blocked(r)
    <2>1. /\ b.op = "upload" /\ b.key \in Keys /\ Holding(b) /\ ~Writing(r)
          /\ b.stream \in Streams /\ Traces(b.key.id) = {}
      BY <1>1, <1>2, UploadFacts DEF At, Writing
    <2>2. PICK c : c = [b EXCEPT !.pc = "done", !.err = {"unavailable"}, !.blocked = TRUE]
      OBVIOUS
    <2>3. /\ c \in Procs /\ c.pc = "done" /\ c.op = b.op /\ c.stream = b.stream /\ c.key = b.key
          /\ c.err = {"unavailable"} /\ c.blocked = TRUE
      BY <2>2 DEF Procs, Errors
    <2>4. CallOK(c) /\ Holding(c)
      BY <1>1, <2>1, <2>3 DEF CallOK, Formed, Recorded, Written, Holding
    <2>5. proc' = [proc EXCEPT ![r] = c]
      BY <1>1, <1>2, <2>2, Types DEF Blocked, TypeOK
    <2> QED BY <1>1, <2>1, <2>3, <2>4, <2>5, QuietKeeps DEF Fail
  <1>3. CASE proc[r].pc \in {"copy", "rename"} /\ Abort(r, {"unavailable"}, TRUE)
    <2>1. PICK c : c = [b EXCEPT !.pc = "cleanup", !.err = {"unavailable"}, !.blocked = TRUE]
      OBVIOUS
    <2>2. /\ c \in Procs /\ c.pc = "cleanup" /\ c.op = b.op /\ c.stream = b.stream /\ c.key = b.key
          /\ c.err # {} /\ c.blocked = TRUE /\ c.root = b.root
      BY <2>1 DEF Procs, Errors
    <2>3. proc' = [proc EXCEPT ![r] = c]
      BY <1>1, <1>3, <2>1, Types DEF Abort, TypeOK
    <2> QED BY <1>1, <1>3, <2>2, <2>3, AbortKeeps DEF Fail
  <1> QED BY <1>2, <1>3 DEF Fail

\* The rename makes the whole stream visible under the upload's own key.
LEMMA RenameKeeps ==
  ASSUME IInv, NEW r \in Requests, Rename(r) PROVE IInv'
  <1>1. PICK b \in Procs : b = proc[r] /\ CallOK(b)
    BY Types
  <1>2. PICK k \in Keys, s \in Streams : k = b.key /\ s = b.stream
    BY <1>1, UploadFacts DEF Rename, At
  <1>3. PICK t \in Users \X Ids : t = TempOf(k)
    BY <1>1, <1>2, UploadFacts DEF Rename, At
  <1>4. /\ b.pc = "rename" /\ b.op = "upload" /\ Holding(b) /\ Writing(r)
        /\ Traces(k.id) = {} /\ temps[t] = s.size /\ s.end = "eof"
        /\ s.size \in 1..Limit[s.kind]
    BY <1>1, <1>2, <1>3, UploadFacts, StreamFacts DEF Rename, At, Writing, CallOK, Written
  <1>5. /\ upload[k.id].owner = k.owner /\ upload[k.id].stream = s /\ upload[k.id].answer = "open"
        /\ k.ext = s.kind /\ HeaderError(s) = {}
        /\ k.id \in Ids /\ k # None
    BY <1>1, <1>2, <1>4, HoldingFacts, NotNone
  <1>6. CASE Open(r)
    <2>1. /\ objects' = [objects EXCEPT ![k] = temps[t]]
          /\ temps' = [temps EXCEPT ![t] = None]
          /\ unsynced' = unsynced \cup {k}
          /\ Done(r, {})
          /\ UNCHANGED <<root, starts, history>>
      BY <1>1, <1>2, <1>3, <1>6 DEF Rename
    <2>2. /\ objects'[k] = s.size /\ \A x \in Keys : x # k => objects'[x] = objects[x]
          /\ temps'[t] = None /\ \A x \in Users \X Ids : x # t => temps'[x] = temps[x]
          /\ objects' \in [Keys -> Nat \cup {None}]
          /\ temps' \in [Users \X Ids -> Nat \cup {None}]
          /\ s.size \in Nat /\ s.size # None
      BY <1>4, <2>1, NotNone, Types DEF TypeOK
    <2>3. PICK c : c = [b EXCEPT !.pc = "done", !.err = {}]
      OBVIOUS
    <2>4. /\ c \in Procs /\ c.pc = "done" /\ c.op = "upload" /\ c.stream = s /\ c.key = k
          /\ c.err = {} /\ Holding(c)
      BY <1>2, <1>4, <1>5, <2>3 DEF Procs, Holding
    <2>5. proc' = [proc EXCEPT ![r] = c]
      BY <1>1, <2>1, <2>3, Types DEF Done, TypeOK
    <2>6. \A j \in Ids : j # k.id => Traces(j)' = Traces(j)
      BY <2>1, <2>2 DEF Traces, history
    <2>7. k \in Traces(k.id)'
      BY <2>2 DEF Traces
    <2>8. \A j \in Ids : j # k.id => Same(j)
      <3>1. ASSUME NEW j \in Ids, j # k.id, NEW u \in Users
            PROVE  <<u, j>> \in Users \X Ids /\ <<u, j>> # t
        BY <1>3, <3>1 DEF TempOf
      <3> QED BY <2>1, <2>2, <2>6, <3>1 DEF Same, history
    <2>9. Moves(r, c)
      BY <1>1, <1>2, <1>4, <2>4, <2>5, <2>8 DEF Moves
    <2>10. CallOK(c)'
      <3>1. Formed(c)'
        BY <2>4 DEF Formed
      <3>2. Recorded(c)'
        BY <1>5, <2>1, <2>4, <2>7 DEF Recorded, Holding, Traces, HeaderError, history
      <3>3. Written(c)'
        BY <1>4, <2>4, StreamFacts DEF Written
      <3> QED BY <3>1, <3>2, <3>3 DEF CallOK
    <2>11. Kept'
      <3>1. \A x \in Keys : x.id = k.id => objects[x] = None
        BY <1>4 DEF Traces
      <3>2. VisibleWhole'
        <4>1. ASSUME NEW x \in Keys, objects'[x] # None, x # k
              PROVE  /\ upload[x.id].owner = x.owner
                     /\ upload[x.id].stream = [kind |-> x.ext, size |-> objects'[x], end |-> "eof"]
                     /\ objects'[x] \in 1..Limit[x.ext]
          BY <2>2, <4>1, Types DEF Kept, VisibleWhole
        <4>2. /\ upload[k.id].owner = k.owner
              /\ upload[k.id].stream = [kind |-> k.ext, size |-> objects'[k], end |-> "eof"]
              /\ objects'[k] \in 1..Limit[k.ext]
          BY <1>4, <1>5, <2>2, StreamFacts
        <4> QED BY <2>1, <4>1, <4>2 DEF VisibleWhole, history
      <3>3. AnswersHold'
        BY <1>5, <2>1, <2>6, Types DEF Kept, AnswersHold, Traces, history
      <3>4. \A x \in unsynced' : objects'[x] # None
        BY <2>1, <2>2, Types DEF Kept, TypeOK
      <3>5. \A i \in Ids : upload'[i].answer = "none" => Traces(i)' = {}
        BY <1>5, <2>1, <2>6, Types DEF Kept, history
      <3> QED BY <3>2, <3>3, <3>4, <3>5 DEF Kept
    <2>12. OwnLeftover(c)
      BY <1>3, <2>2, <2>4 DEF OwnLeftover, TempOf
    <2> QED BY <1>3, <2>1, <2>2, <2>4, <2>9, <2>10, <2>11, <2>12, StepKeeps, Types DEF TypeOK, history
  <1>7. CASE ~Open(r)
    <2>1. /\ Abort(r, {"unavailable"}, TRUE)
          /\ UNCHANGED <<root, starts, objects, temps, unsynced, history>>
      BY <1>7 DEF Rename
    <2>2. PICK c : c = [b EXCEPT !.pc = "cleanup", !.err = {"unavailable"}, !.blocked = TRUE]
      OBVIOUS
    <2>3. /\ c \in Procs /\ c.pc = "cleanup" /\ c.op = b.op /\ c.stream = b.stream /\ c.key = b.key
          /\ c.err # {} /\ c.blocked = TRUE /\ c.root = b.root
      BY <2>2 DEF Procs, Errors
    <2>4. proc' = [proc EXCEPT ![r] = c]
      BY <1>1, <2>1, <2>2, Types DEF Abort, TypeOK
    <2> QED BY <1>1, <1>4, <2>1, <2>3, <2>4, AbortKeeps
  <1> QED BY <1>6, <1>7

LEMMA CleanupKeeps ==
  ASSUME IInv, NEW r \in Requests, Cleanup(r) PROVE IInv'
  <1>1. PICK b \in Procs : b = proc[r] /\ CallOK(b)
    BY Types
  <1>2. /\ b.pc = "cleanup" /\ b.op = "upload" /\ b.key \in Keys /\ Holding(b) /\ Writing(r)
        /\ b.key.id \in Ids /\ b.err # {}
    BY <1>1, UploadFacts, NotNone DEF Cleanup, At, Writing, CallOK, Written
  <1>3. PICK c : c = [b EXCEPT !.pc = "done"]
    OBVIOUS
  <1>4. /\ c \in Procs /\ c.pc = "done" /\ c.op = "upload" /\ c.stream = b.stream /\ c.key = b.key
        /\ c.err = b.err /\ c.blocked = b.blocked
    BY <1>2, <1>3 DEF Procs
  <1>5. proc' = [proc EXCEPT ![r] = c] /\ UNCHANGED <<root, starts, objects, unsynced, upload, gone>>
    BY <1>1, <1>3, Types DEF Cleanup, Go, TypeOK
  <1>6. Holding(c) /\ Formed(c) /\ Recorded(c) /\ Written(c)
    <2>1. Formed(c) /\ Holding(c)
      BY <1>1, <1>2, <1>4 DEF CallOK, Formed, Holding
    <2>2. Recorded(c)
      BY <1>1, <1>2, <1>4 DEF CallOK, Recorded, Holding
    <2>3. Written(c)
      BY <1>1, <1>2, <1>4 DEF CallOK, Written
    <2> QED BY <2>1, <2>2, <2>3
  <1>7. CallOK(c)'
    BY <1>4, <1>5, <1>6 DEF CallOK, Formed, Recorded, Written, Holding, Traces, HeaderError, Status, MayDelete
  <1>8. CASE Open(r) /\ temps' = [temps EXCEPT ![TempOf(b.key)] = None] /\ UNCHANGED disturbed
    <2>1. OwnLeftover(c)
      <3>1. temps'[TempOf(b.key)] = None
        BY <1>1, <1>2, <1>8, UploadFacts, Types DEF TypeOK
      <3> QED BY <1>4, <3>1 DEF OwnLeftover, TempOf
    <2> QED BY <1>1, <1>2, <1>4, <1>5, <1>7, <1>8, <2>1, WriteKeeps
  <1>9. CASE UNCHANGED temps /\ disturbed' = disturbed \cup (IF Open(r) THEN {b.key.id} ELSE {})
    <2>1. \A j \in Ids : Same(j)
      BY <1>5, <1>9 DEF Same, Traces
    <2>2. Moves(r, c)
      BY <1>1, <1>2, <1>4, <1>5, <1>6, <2>1 DEF Moves
    <2>3. OwnLeftover(c)
      BY <1>1, <1>2, <1>4, <1>9, OwnCause DEF OwnLeftover, TempOf
    <2>4. disturbed' \in SUBSET Ids /\ disturbed \subseteq disturbed'
      BY <1>2, <1>9, Types DEF TypeOK
    <2> QED BY <1>4, <1>5, <1>7, <1>9, <2>2, <2>3, <2>4, KeptStays, StepKeeps, Types DEF TypeOK
  <1> QED BY <1>1, <1>8, <1>9 DEF Cleanup

----------------------------------------------------------------------------
(* Downloads, deletes and answers. *)

LEMMA StartOpenKeeps ==
  ASSUME IInv, NEW r \in Requests, StartOpen(r) PROVE IInv'
  <1>1. PICK k \in Keys : proc' = [proc EXCEPT ![r] = [Idle EXCEPT !.pc = "root", !.op = "open", !.key = k]]
    BY DEF StartOpen
  <1>2. PICK c : c = [Idle EXCEPT !.pc = "root", !.op = "open", !.key = k]
    OBVIOUS
  <1>3. c \in Procs /\ c.pc = "root" /\ c.op = "open" /\ c.key = k /\ c.written = 0
    BY <1>2, IdleIsOK DEF Idle, Procs
  <1>4. CallOK(c) /\ ~Holding(c)
    BY <1>3 DEF CallOK, Formed, Recorded, Written, Holding
  <1> QED BY <1>1, <1>2, <1>3, <1>4, QuietKeeps DEF StartOpen, At, Writing

LEMMA StartDeleteKeeps ==
  ASSUME IInv, NEW r \in Requests, StartDelete(r) PROVE IInv'
  <1>1. PICK u \in Users, super \in BOOLEAN, k \in Keys :
            /\ MayDelete(u, super, k)
            /\ proc' = [proc EXCEPT ![r] = [Idle EXCEPT !.pc = "root", !.op = "remove", !.key = k,
                                        !.user = u, !.superuser = super]]
    BY DEF StartDelete
  <1>2. PICK c : c = [Idle EXCEPT !.pc = "root", !.op = "remove", !.key = k,
                          !.user = u, !.superuser = super]
    OBVIOUS
  <1>3. /\ c \in Procs /\ c.pc = "root" /\ c.op = "remove" /\ c.key = k /\ c.written = 0
        /\ c.user = u /\ c.superuser = super
    BY <1>2, IdleIsOK DEF Idle, Procs
  <1>4. CallOK(c) /\ ~Holding(c)
    BY <1>1, <1>3 DEF CallOK, Formed, Recorded, Written, Holding, MayDelete
  <1> QED BY <1>1, <1>2, <1>3, <1>4, QuietKeeps DEF StartDelete, At, Writing

LEMMA OpenObjectKeeps ==
  ASSUME IInv, NEW r \in Requests, OpenObject(r) PROVE IInv'
  <1>1. ~Writing(r)
    BY DEF OpenObject, At, Writing
  <1> QED BY <1>1, IdleIsOK, QuietKeeps DEF OpenObject

\* Only the owner or a superuser removes an object, so it stays accounted for.
LEMMA RemoveObjectKeeps ==
  ASSUME IInv, NEW r \in Requests, RemoveObject(r) PROVE IInv'
  <1>1. PICK b \in Procs : b = proc[r] /\ CallOK(b)
    BY Types
  <1>2. PICK k \in Keys : k = b.key
    BY <1>1 DEF RemoveObject, At, CallOK, Formed
  <1>3. b.op = "remove" /\ MayDelete(b.user, b.superuser, k) /\ ~Writing(r) /\ ~Holding(b)
    BY <1>1, <1>2 DEF RemoveObject, At, CallOK, Formed, Writing, Holding
  <1>4. CASE ~(Open(r) /\ objects[k] # None)
    BY <1>1, <1>2, <1>3, <1>4, IdleIsOK, QuietKeeps DEF RemoveObject, history
  <1>5. CASE Open(r) /\ objects[k] # None
    <2>1. /\ proc' = [proc EXCEPT ![r] = Idle]
          /\ objects' = [objects EXCEPT ![k] = None]
          /\ unsynced' = unsynced \ {k}
          /\ gone' = IF b.superuser \/ b.user = upload[k.id].owner
                     THEN gone \cup {k} ELSE gone
          /\ UNCHANGED <<root, starts, temps, upload, disturbed>>
      BY <1>1, <1>2, <1>5 DEF RemoveObject
    <2>2. upload[k.id].owner = k.owner
      BY <1>5, Types DEF Kept, VisibleWhole
    <2>3. gone' = gone \cup {k}
      BY <1>3, <2>1, <2>2 DEF MayDelete
    <2>4. /\ objects'[k] = None /\ \A x \in Keys : x # k => objects'[x] = objects[x]
          /\ objects' \in [Keys -> Nat \cup {None}]
      BY <2>1, Types DEF TypeOK
    <2>5. \A j \in Ids : Traces(j)' = Traces(j)
      BY <1>5, <2>3, <2>4 DEF Traces
    <2>6. Moves(r, Idle)
      BY <1>3, <2>1, <2>5, IdleIsOK DEF Moves, Same
    <2>7. Kept'
      <3>1. VisibleWhole'
        BY <2>1, <2>4, Types DEF Kept, VisibleWhole
      <3>2. AnswersHold'
        BY <2>1, <2>5, Types DEF Kept, AnswersHold, Traces
      <3>3. \A x \in unsynced' : objects'[x] # None
        BY <2>1, <2>4, Types DEF Kept, TypeOK
      <3> QED BY <2>1, <2>5, <3>1, <3>2, <3>3, Types DEF Kept
    <2>8. CallOK(Idle)'
      BY IdleIsOK, CallKept
    <2>9. OwnLeftover(Idle)
      BY IdleIsOK DEF OwnLeftover
    <2> QED BY <2>1, <2>3, <2>4, <2>6, <2>7, <2>8, <2>9, IdleIsOK, StepKeeps, Types DEF TypeOK
  <1> QED BY <1>4, <1>5

LEMMA AnswerKeeps ==
  ASSUME IInv, NEW r \in Requests, Answer(r) PROVE IInv'
  <1>1. PICK b \in Procs : b = proc[r] /\ CallOK(b)
    BY Types
  <1>2. b.pc = "done" /\ b.op = "upload" /\ ~Writing(r)
    BY <1>1 DEF Answer, At, CallOK, Formed, Writing
  <1>3. CASE b.key = None
    BY <1>1, <1>2, <1>3, IdleIsOK, QuietKeeps DEF Answer, history
  <1>4. CASE b.key # None
    <2>1. Holding(b)
      BY <1>2, <1>4 DEF Holding
    <2>2. PICK i \in Ids : i = b.key.id
      BY <1>1, <2>1, HoldingFacts
    <2>3. PICK answer \in {"created", "failed"} : answer = IF b.err = {} THEN "created" ELSE "failed"
      OBVIOUS
    <2>4. /\ proc' = [proc EXCEPT ![r] = Idle]
          /\ upload' = [upload EXCEPT ![i].answer = answer]
          /\ UNCHANGED <<root, starts, objects, temps, unsynced, gone, disturbed>>
      BY <1>1, <1>2, <1>4, <2>2, <2>3 DEF Answer
    <2>5. /\ upload'[i].owner = upload[i].owner /\ upload'[i].stream = upload[i].stream
          /\ upload'[i].answer = answer
          /\ \A j \in Ids : j # i => upload'[j] = upload[j]
          /\ upload' \in [Ids -> [owner : Users \cup {None}, stream : Streams \cup {None},
                                 answer : {"none", "open", "created", "failed"}]]
      BY <2>4, Types DEF TypeOK
    <2>6. \A j \in Ids : Traces(j)' = Traces(j)
      BY <2>4 DEF Traces
    <2>7. Moves(r, Idle)
      BY <1>1, <1>2, <2>1, <2>2, <2>4, <2>5, <2>6, IdleIsOK DEF Moves, Same
    <2>8. answer = "created" <=> Traces(i) # {}
      BY <1>1, <1>2, <2>1, <2>2, <2>3, HoldingFacts
    <2>9. Kept'
      <3>1. VisibleWhole'
        BY <2>4, <2>5, NotNone, Types DEF Kept, VisibleWhole
      <3>2. AnswersHold'
        BY <2>4, <2>5, <2>8, Types DEF Kept, AnswersHold, Traces
      <3> QED BY <2>4, <2>5, <2>6, <3>1, <3>2, Types DEF Kept
    <2>10. CallOK(Idle)'
      BY IdleIsOK, CallKept
    <2>11. OwnLeftover(Idle)
      BY IdleIsOK DEF OwnLeftover
    <2> QED BY <2>4, <2>5, <2>7, <2>9, <2>10, <2>11, IdleIsOK, StepKeeps, Types DEF TypeOK
  <1> QED BY <1>3, <1>4

----------------------------------------------------------------------------
LEMMA InitHolds == Init => IInv
  <1> SUFFICES ASSUME Init PROVE IInv
    OBVIOUS
  <1>1. \A r \in Requests : proc[r] = Idle
    BY DEF Init
  <1>2. TypeOK
    BY IdleIsOK DEF Init, TypeOK, Unsent
  <1>3. Kept
    BY DEF Init, Kept, VisibleWhole, AnswersHold, Traces, Unsent
  <1>4. LeftoversHaveACause
    BY DEF Init, LeftoversHaveACause
  <1>5. Distinct /\ \A r \in Requests : CallOK(proc[r])
    BY <1>1, IdleIsOK DEF Distinct
  <1> QED BY <1>2, <1>3, <1>4, <1>5 DEF IInv

LEMMA NextKeeps == IInv /\ [Next]_vars => IInv'
  <1> SUFFICES ASSUME IInv, [Next]_vars PROVE IInv'
    OBVIOUS
  <1>1. CASE UNCHANGED vars
    <2>1. TypeOK' /\ LeftoversHaveACause'
      BY <1>1, Types DEF vars, history, TypeOK, LeftoversHaveACause, Writing, Open, TempOf
    <2> QED BY <1>1, <2>1, FilesStay, KeptStays DEF vars, history, IInv
  <1>2. CASE Start \/ Stop \/ Crash \/ PowerLoss \/ WriteBack
    BY <1>2, StartKeeps, StopKeeps, CrashKeeps, PowerLossKeeps, WriteBackKeeps
  <1>3. ASSUME NEW r \in Requests,
               \/ StartUpload(r) \/ ReadHeader(r) \/ TakeRoot(r) \/ CreateTemp(r) \/ CopyBlock(r)
               \/ CopyEnd(r) \/ Rename(r) \/ Fail(r) \/ Cleanup(r)
        PROVE  IInv'
    BY <1>3, StartUploadKeeps, ReadHeaderKeeps, TakeRootKeeps, CreateTempKeeps, CopyBlockKeeps,
       CopyEndKeeps, RenameKeeps, FailKeeps, CleanupKeeps
  <1>4. ASSUME NEW r \in Requests,
               StartOpen(r) \/ OpenObject(r) \/ StartDelete(r) \/ RemoveObject(r) \/ Answer(r)
        PROVE  IInv'
    BY <1>4, StartOpenKeeps, OpenObjectKeeps, StartDeleteKeeps, RemoveObjectKeeps, AnswerKeeps
  <1> QED BY <1>1, <1>2, <1>3, <1>4 DEF Next

\* The inductive invariant holds in every reachable state.
THEOREM FilesInvariant == Spec => []IInv
  BY InitHolds, NextKeeps, PTL DEF Spec

\* The directory, the root and the requests keep their types: no step of a request runs
\* with a key, a root or a stream it does not have.
THEOREM FilesTyped == Spec => []TypeOK
  <1>1. IInv => TypeOK
    BY DEF IInv
  <1> QED BY <1>1, FilesInvariant, PTL

\* An object that can be downloaded is one upload of its owner, complete, of an allowed
\* type and within the limit, whatever stopped, failed or was killed on the way.
THEOREM FilesVisibleWhole == Spec => []VisibleWhole
  <1>1. IInv => VisibleWhole
    BY DEF IInv, Kept
  <1> QED BY <1>1, FilesInvariant, PTL

\* A temporary file that no upload can remove any more was left by a kill, a power loss,
\* a Stop under the upload or a removal that failed.
THEOREM FilesLeftoversHaveACause == Spec => []LeftoversHaveACause
  <1>1. IInv => LeftoversHaveACause
    BY DEF IInv
  <1> QED BY <1>1, FilesInvariant, PTL

\* What was answered 201 is there until its owner or a superuser deletes it or the power
\* is lost, and what was answered with an error never is.
THEOREM FilesAnswersHold == Spec => []AnswersHold
  <1>1. IInv => AnswersHold
    BY DEF IInv, Kept
  <1> QED BY <1>1, FilesInvariant, PTL

\* Who sends too much is told so, unless the store itself failed first.
THEOREM FilesTooLargeIsSaid == Spec => []TooLargeIsSaid
  <1>1. IInv => TooLargeIsSaid
    <2> SUFFICES ASSUME IInv, NEW r \in Requests,
                        proc[r].pc = "done", proc[r].op = "upload", ~proc[r].blocked,
                        Limit[proc[r].stream.kind] > 0,
                        proc[r].stream.size > Limit[proc[r].stream.kind]
                          \/ (proc[r].stream.end = "large" /\ proc[r].stream.size > 0)
                 PROVE  Status(proc[r].err) = 413
      BY DEF TooLargeIsSaid
    <2> QED BY Types DEF CallOK, Written
  <1> QED BY <1>1, FilesInvariant, PTL
====
