--------------------------- MODULE HttpServerProofs ---------------------------
(***************************************************************************)
(* Proofs about HttpServer, for any number of connections, any requests    *)
(* and any settings.                                                       *)
(*                                                                         *)
(* The invariant, ServerInv, follows a request through the server: a task  *)
(* is queued once and belongs to a connection nobody has taken (TasksOK);  *)
(* what a worker does was decided for the request it holds (RequestsOK);   *)
(* the waiters' count and the upload flag are held by exactly the handlers *)
(* between taking and releasing them (SlotsOK); every run has a submitter  *)
(* who was authorized (RunsOK); and an answer that is on its way is still  *)
(* true of its run (AnswersOK).  That the routes let only an authorized    *)
(* client through to a handler that changes something is a fact about      *)
(* their operators: DecidedIsAuthorized.  The last part is about the       *)
(* settings a server is started with.                                      *)
(***************************************************************************)
EXTENDS HttpServer, FiniteSetTheorems, SequenceTheorems, WellFoundedInduction, TLAPS

Counted == {"full", "waiting"}
Served  == {"handling", "counting", "full", "waiting", "staging", "posted"}
Past    == {"counting", "full", "waiting", "posted", "closed"}
SessOf(states) == {c \in Conn : sess[c] \in states}
Stagers == SessOf({"staging"})

TypesOK ==
  /\ config \in {Options(s) : s \in Configs} /\ main \in MainStates
  /\ sess \in [Conn -> SessStates] /\ run \in [Runs -> RunStates]
  /\ req = [c \in Conn |-> req[c]] /\ todo = [c \in Conn |-> todo[c]] /\ answer = [c \in Conn |-> answer[c]]
  /\ waiters \in Nat /\ staging \in BOOLEAN

(* A request that is queued for a worker is queued once, and nothing is    *)
(* in a worker's hands before the pool runs or after it was joined.        *)
TasksOK ==
  /\ tasks \in Seq(Conn)
  /\ \A i \in 1..Len(tasks) : sess[tasks[i]] = "dispatched"
  /\ \A i, j \in 1..Len(tasks) : tasks[i] = tasks[j] => i = j
  /\ InWorker # {} => PoolRuns

(* What was decided about a request is decided for that very request.      *)
RequestsOK ==
  \A c \in Conn :
    /\ sess[c] \in Served \cup {"dispatched"} => req[c] \in Requests[c]
    /\ sess[c] \in Served => todo[c] = Decide(config, req[c])

(* The slots and the upload flag are held by the clients in between.       *)
SlotsOK ==
  /\ waiters = Cardinality(SessOf(Counted))
  /\ config.threads < UIntValues /\ Waiting # {} => Cardinality(Waiting) < config.pool
  /\ IF staging THEN \E c \in Conn : Stagers = {c} ELSE Stagers = {}

(* A run is its submitter's, who was authorized and still is on record.    *)
RunsOK ==
  /\ \A c \in Conn :
       /\ run[c] # "none" => /\ sess[c] \in Past /\ req[c] \in Requests[c] /\ Authorized(req[c])
       /\ sess[c] \in {"counting", "full", "waiting"} => todo[c].op = "submit" /\ run[c] # "none"
       /\ sess[c] = "staging" => todo[c].op = "stage" /\ Authorized(req[c]) /\ config.authRequired
  /\ main \in {"starting", "serving"} /\ run[JobRun] = "cancelling" =>
       \E c \in Conn : /\ sess[c] \in {"posted", "closed"}
                       /\ req[c] \in Requests[c] /\ req[c].path[1] = "api"
                       /\ req[c].run = JobRun /\ Authorized(req[c])

(* An answer is on its way while its connection is posted.                 *)
AnswersOK == AnswersTrue /\ \A c \in Conn : answer[c] # 0 => sess[c] = "posted"

ServerInv == TypesOK /\ TasksOK /\ RequestsOK /\ SlotsOK /\ RunsOK /\ AnswersOK

-----------------------------------------------------------------------------
(* The options                                                             *)

(* A number of workers that an unsigned int can hold is the pool's.        *)
LEMMA PoolOf ==
  ASSUME NEW n \in Nat \ {0}
  PROVE  /\ AtLeast(1, n % UIntValues) \in Nat \ {0}
         /\ n < UIntValues => AtLeast(1, n % UIntValues) = n
<1>1. n % UIntValues \in Nat /\ (n < UIntValues => n % UIntValues = n)
  BY UIntAssumption
<1> QED BY <1>1 DEF AtLeast

(* There is a worker, and uploads are off where nobody has to log in.      *)
LEMMA OptionFacts ==
  ASSUME NEW s \in Configs
  PROVE  /\ Options(s).threads \in Nat \ {0} /\ Options(s).pool \in Nat \ {0}
         /\ Options(s).threads < UIntValues => Options(s).pool = Options(s).threads
         /\ Options(s).uploads => Options(s).authRequired
<1>1. Options(s).threads \in Nat \ {0}
  <2>1. PICK n \in Int : n = Setting(s, "server.worker_threads", 4)
    <3>1. Lookup(s, "server.worker_threads") \subseteq Int
      BY ConfigsAssumption DEF Numeric, NumberKeys
    <3> QED BY <3>1 DEF Setting
  <2>2. Options(s).threads = IF n < 1 THEN 1 ELSE n
    BY <2>1 DEF Options, ServerConfig, AtLeast
  <2> QED BY <2>2
<1>2. Options(s).uploads => Options(s).authRequired
  BY DEF Options, AdminConfig, UploadsEnabled
<1>3. Options(s).pool = AtLeast(1, Options(s).threads % UIntValues)
  BY DEF Options, WorkerPool
<1> QED BY <1>1, <1>2, <1>3, PoolOf

-----------------------------------------------------------------------------
(* Routing                                                                 *)

LEMMA LeastOf ==
  ASSUME NEW S, S \subseteq Nat, S # {}
  PROVE  \E x \in S : \A y \in S : x <= y
<1>1. PICK x \in S : \A y \in S : ~(<<y, x>> \in OpToRel(<, Nat))
  BY WFMin, NatLessThanWellFounded
<1>2. \A y \in S : ~(y < x)
  BY <1>1 DEF OpToRel
<1> QED BY <1>2

(* The handler of a request is a registered one that accepts it.           *)
LEMMA HandlerAccepts ==
  ASSUME NEW k, NEW q, HandlerFor(k, q) # "none"
  PROVE  /\ \E i \in DOMAIN Handlers(k) : HandlerFor(k, q) = Handlers(k)[i] /\ CanHandle(Handlers(k)[i], q)
<1> DEFINE hs   == Handlers(k)
           hits == {i \in DOMAIN hs : CanHandle(hs[i], q)}
           Least(i) == i \in hits /\ \A j \in hits : i <= j
<1>1. hits # {} /\ HandlerFor(k, q) = hs[CHOOSE i \in hits : \A j \in hits : i <= j]
  BY DEF HandlerFor
<1>2. DOMAIN hs \subseteq 1..9
  BY DEF Handlers
<1>3. \E i \in hits : \A j \in hits : i <= j
  <2>1. hits \subseteq Nat
    BY <1>2
  <2> HIDE DEF hits
  <2> QED BY <1>1, <2>1, LeastOf
<1>4. (CHOOSE i \in hits : \A j \in hits : i <= j) \in hits
  <2> HIDE DEF hits
  <2> QED BY <1>3
<1> QED BY <1>1, <1>4

(* The operations of each handler, and the replies that are no operation.  *)
LEMMA Decisions ==
  ASSUME NEW op, NEW code
  PROVE  Do(op).op = op /\ Reply(code).op = "reply" /\ Reply(code).code = code
BY DEF Do, Reply

LEMMA WorkflowOps ==
  ASSUME NEW q
  PROVE  \/ q.path = <<"workflow">> /\ WorkflowOp(q) = BodyVerdict(q)
         \/ WorkflowOp(q) \in {Do("get"), Do("cancelVisible"), Reply(405), Reply(404)}
BY DEF WorkflowOp

LEMMA BodyVerdicts ==
  ASSUME NEW q
  PROVE  BodyVerdict(q) \in {Do("submit"), Reply(415), Reply(413), Reply(400)}
BY DEF BodyVerdict

LEMMA JobOps ==
  ASSUME NEW q
  PROVE  JobOp(q) \in {Do("history"), Do("cancel"), Do("jobs"), Do("runJob"), Reply(405), Reply(404)}
BY DEF JobOp

LEMMA UploadOps ==
  ASSUME NEW k, NEW q
  PROVE  UploadOp(k, q) \in {Do("uploads"), Do("stage"), Reply(405), Reply(400), Reply(UploadErrorCode("Disabled")),
                             Reply(404)}
BY DEF UploadOp

LEMMA OtherOps ==
  ASSUME NEW q
  PROVE  /\ PluginAdminOp(q) \in {Do("plugins"), Do("watch"), Do("pluginAction"), Reply(405), Reply(404)}
         /\ DefinitionOp(q) \in {Reply(405), Reply(415), Reply(413), Reply(200), Reply(400)}
         /\ BreakerOp(q) \in {Do("breakers"), Reply(405), Reply(404)}
<1>1. PluginAdminOp(q) \in {Do("plugins"), Do("watch"), Do("pluginAction"), Reply(405), Reply(404)}
  BY DEF PluginAdminOp
<1>2. DefinitionOp(q) \in {Reply(405), Reply(415), Reply(413), Reply(200), Reply(400)}
  BY DEF DefinitionOp
<1>3. BreakerOp(q) \in {Do("breakers"), Reply(405), Reply(404)}
  BY DEF BreakerOp
<1> QED BY <1>1, <1>2, <1>3

(* A path under a prefix starts with the first segment of the prefix.      *)
LEMMA FirstSegment ==
  ASSUME NEW path \in Seq(STRING), NEW s, NEW prefix,
         prefix \in {<<s>>, <<s, "jobs">>, <<s, "runs">>, <<s, "plugins", "_uploads">>},
         StartsWith(path, prefix)
  PROVE  path[1] = s /\ StartsWith(path, <<s>>)
<1>1. Len(prefix) \in 1..3 /\ prefix[1] = s
  OBVIOUS
<1>2. Len(path) \in Nat /\ Len(path) >= Len(prefix) /\ SubSeq(path, 1, Len(prefix)) = prefix
  BY DEF StartsWith
<1>3. path[1] = s
  <2>1. SubSeq(path, 1, Len(prefix))[1] = path[1]
    BY <1>1, <1>2
  <2> QED BY <1>1, <1>2, <2>1
<1>4. SubSeq(path, 1, 1) = <<s>>
  <2>1. SubSeq(path, 1, 1) \in Seq(STRING) /\ Len(SubSeq(path, 1, 1)) = 1 /\ SubSeq(path, 1, 1)[1] = path[1]
    BY <1>1, <1>2
  <2>2. PICK t : t = SubSeq(path, 1, 1)
    OBVIOUS
  <2>3. PICK u : u = <<s>>
    OBVIOUS
  <2>4. t \in Seq(STRING) /\ Len(t) = 1 /\ t[1] = s /\ s \in STRING
    BY <1>1, <1>2, <1>3, <2>1, <2>2
  <2>5. u \in Seq(STRING) /\ Len(u) = 1 /\ u[1] = s
    BY <2>3, <2>4
  <2>6. t = u
    BY <2>4, <2>5, SeqEqual
  <2> QED BY <2>2, <2>3, <2>6
<1> QED BY <1>1, <1>2, <1>3, <1>4 DEF StartsWith

(* Only these handlers lead to a change of a run or to an upload, and the  *)
(* admin's exist only where the admin surface is served.                   *)
LEMMA HandlerOfOp ==
  ASSUME NEW k, NEW q, q.path \in Seq(STRING), NEW d, d = OpOf(k, HandlerFor(k, q), q)
  PROVE  /\ d.op = "submit" => q.path = <<"workflow">>
         /\ d.op \in {"stage", "cancel"} => IsServiceable(k) /\ StartsWith(q.path, <<"api">>)
<1> PICK h : h = HandlerFor(k, q)
  OBVIOUS
<1>1. CASE h = "none"
  <2>1. d = Reply(404)
    BY <1>1, Zenon DEF OpOf
  <2> QED BY <2>1, Decisions
<1>2. CASE h # "none"
  <2>1. PICK i \in DOMAIN Handlers(k) : h = Handlers(k)[i] /\ CanHandle(h, q)
    BY <1>2, HandlerAccepts
  <2>2. /\ h \in {"Health", "Workflow", "Swagger", "PluginUpload", "PluginAdmin", "Dashboard", "Definition", "Job",
                  "CircuitBreaker"}
        /\ h \in {"PluginUpload", "Job"} => IsServiceable(k)
    BY <2>1 DEF Handlers
  <2>3. CASE h = "Workflow"
    <3>1. d = WorkflowOp(q)
      BY <2>3, Zenon DEF OpOf
    <3> QED BY <3>1, WorkflowOps, BodyVerdicts, Decisions
  <2>4. CASE h = "PluginUpload"
    <3>1. StartsWith(q.path, <<"api", "plugins", "_uploads">>)
      BY <2>1, <2>4, Zenon DEF CanHandle
    <3>2. d = UploadOp(k, q)
      BY <2>4, Zenon DEF OpOf
    <3>3. StartsWith(q.path, <<"api">>)
      BY <3>1, FirstSegment
    <3>4. d.op # "submit"
      BY <3>2, UploadOps, Decisions
    <3> QED BY <2>2, <2>4, <3>3, <3>4
  <2>5. CASE h = "Job"
    <3>1. StartsWith(q.path, <<"api", "jobs">>) \/ StartsWith(q.path, <<"api", "runs">>)
      BY <2>1, <2>5, Zenon DEF CanHandle
    <3>2. d = JobOp(q)
      BY <2>5, Zenon DEF OpOf
    <3>3. StartsWith(q.path, <<"api">>)
      BY <3>1, FirstSegment
    <3>4. d.op # "submit"
      BY <3>2, JobOps, Decisions
    <3> QED BY <2>2, <2>5, <3>3, <3>4
  <2>6. CASE h \in {"Health", "Swagger", "PluginAdmin", "Dashboard", "Definition", "CircuitBreaker"}
    <3>1. d \in {PluginAdminOp(q), DefinitionOp(q), BreakerOp(q), Reply(200)}
      BY <2>6, Zenon DEF OpOf
    <3> QED BY <3>1, OtherOps, Decisions
  <2> QED BY <2>2, <2>3, <2>4, <2>5, <2>6
<1> QED BY <1>1, <1>2

(* What an operation that changes something requires of the client.        *)
LEMMA DecidedIsAuthorized ==
  ASSUME NEW c \in Conn, NEW q \in Requests[c], NEW d, d = Decide(config, q)
  PROVE  /\ d.op = "submit" => Authorized(q)
         /\ d.op \in {"stage", "cancel"} => Authorized(q) /\ q.path[1] = "api"
<1>1. q.path \in Seq(STRING)
  BY RequestsAssumption DEF Conn
<1>2. d.op \in {"submit", "stage", "cancel"} =>
        /\ ApiAuth(config, q).op # "reply" /\ BasicAuth(config, q).op # "reply"
        /\ d = OpOf(config, HandlerFor(config, q), q)
  BY DEF Decide
<1>3. ASSUME d.op = "submit" PROVE Authorized(q)
  <2>1. q.path = <<"workflow">>
    BY <1>1, <1>2, <1>3, HandlerOfOp
  <2>2. StartsWith(q.path, <<"workflow">>) /\ q.path[1] = "workflow"
    <3>1. PICK p : p = <<"workflow">>
      OBVIOUS
    <3>2. Len(p) = 1 /\ p[1] = "workflow" /\ p \in Seq({"workflow"})
      BY <3>1
    <3>3. SubSeq(p, 1, 1) = p
      BY <3>2
    <3> QED BY <2>1, <3>1, <3>2, <3>3 DEF StartsWith
  <2> QED BY <1>2, <1>3, <2>2 DEF ApiAuth, Reply, Do, BearerOk, BasicOk, IsServiceable, Authorized
<1>4. ASSUME d.op \in {"stage", "cancel"} PROVE Authorized(q) /\ q.path[1] = "api"
  <2>1. IsServiceable(config) /\ StartsWith(q.path, <<"api">>)
    BY <1>1, <1>2, <1>4, HandlerOfOp
  <2>2. q.path[1] = "api"
    BY <1>1, <2>1, FirstSegment
  <2> QED BY <1>2, <1>4, <2>1, <2>2 DEF BasicAuth, Reply, Do, BasicOk, IsServiceable, Authorized
<1> QED BY <1>3, <1>4

-----------------------------------------------------------------------------
(* Slots                                                                   *)

LEMMA ConnsFinite ==
  ASSUME NEW S, S \subseteq Conn
  PROVE  IsFiniteSet(S) /\ Cardinality(S) \in Nat
<1>1. IsFiniteSet(Conn)
  BY ConnsAssumption, FS_Interval DEF Conn
<1>2. IsFiniteSet(S)
  BY <1>1, FS_Subset
<1> QED BY <1>2, FS_CardinalityType

(* A worker leaves Counted only with its slot.                             *)
LEMMA SlotHeld ==
  ASSUME TypesOK, SlotsOK, NEW c \in Conn, sess[c] \in Counted
  PROVE  waiters - 1 \in Nat /\ waiters - 1 = Cardinality(SessOf(Counted) \ {c})
<1>1. SessOf(Counted) \subseteq Conn /\ c \in SessOf(Counted)
  BY DEF SessOf
<1>2. IsFiniteSet(SessOf(Counted)) /\ waiters = Cardinality(SessOf(Counted)) /\ waiters \in Nat
  BY <1>1, ConnsFinite DEF SlotsOK, TypesOK
<1>3. Cardinality(SessOf(Counted) \ {c}) = waiters - 1
  BY <1>1, <1>2, FS_RemoveElement
<1>4. Cardinality(SessOf(Counted) \ {c}) \in Nat
  BY <1>1, ConnsFinite
<1> QED BY <1>3, <1>4

(* A step that takes and gives no slot.                                    *)
Quiet ==
  /\ SessOf(Counted)' = SessOf(Counted) /\ Waiting' = Waiting /\ Stagers' = Stagers
  /\ UNCHANGED <<config, waiters, staging>>

LEMMA QuietKeeps ==
  ASSUME SlotsOK, Quiet
  PROVE  SlotsOK'
BY DEF SlotsOK, Quiet

(* One that gives a waiter's slot back.                                    *)
Leaves(c) ==
  /\ sess[c] \in Counted /\ sess'[c] = "posted" /\ sess' = [sess EXCEPT ![c] = "posted"]
  /\ waiters' = waiters - 1 /\ UNCHANGED <<config, staging>>

LEMMA LeavesKeeps ==
  ASSUME TypesOK, SlotsOK, NEW c \in Conn, Leaves(c)
  PROVE  SlotsOK'
<1>1. SessOf(Counted)' = SessOf(Counted) \ {c} /\ Waiting' = Waiting \ {c} /\ Stagers' = Stagers
  BY DEF SessOf, Counted, Waiting, Stagers, Leaves, TypesOK
<1>2. waiters' = Cardinality(SessOf(Counted)')
  BY <1>1, SlotHeld DEF Leaves
<1>3. config'.threads < UIntValues /\ Waiting' # {} => Cardinality(Waiting') < config'.pool
  <2>1. Waiting \subseteq Conn /\ Waiting' \subseteq Waiting
    BY <1>1 DEF Waiting
  <2>2. Cardinality(Waiting') <= Cardinality(Waiting)
    BY <2>1, ConnsFinite, FS_Subset
  <2>3. Cardinality(Waiting) \in Nat /\ Cardinality(Waiting') \in Nat
    BY <2>1, ConnsFinite
  <2>4. PICK s \in Configs : config = Options(s)
    BY DEF TypesOK
  <2>5. config.pool \in Nat
    BY <2>4, OptionFacts
  <2> QED BY <2>1, <2>2, <2>3, <2>5 DEF SlotsOK, Leaves
<1> QED BY <1>1, <1>2, <1>3 DEF SlotsOK, Leaves

(* A slot is counted before it is known to be one too many.                *)
LEMMA CountKeeps ==
  ASSUME TypesOK, SlotsOK, NEW c \in Conn, CountWaiter(c)
  PROVE  SlotsOK'
<1>0. /\ sess[c] = "counting" /\ waiters' = waiters + 1 /\ UNCHANGED <<config, staging>>
      /\ sess' = [sess EXCEPT ![c] = IF waiters >= MaxWaiters THEN "full" ELSE "waiting"]
  BY DEF CountWaiter, serverVars
<1>1. /\ SessOf(Counted)' = SessOf(Counted) \cup {c} /\ c \notin SessOf(Counted) /\ Stagers' = Stagers
      /\ Waiting' = (IF waiters >= MaxWaiters THEN Waiting ELSE Waiting \cup {c}) /\ c \notin Waiting
  BY <1>0 DEF SessOf, Counted, Waiting, Stagers, TypesOK
<1>2. SessOf(Counted) \subseteq Conn /\ Waiting \subseteq SessOf(Counted)
  BY DEF SessOf, Waiting, Counted
<1>3. waiters = Cardinality(SessOf(Counted)) /\ waiters \in Nat /\ IsFiniteSet(SessOf(Counted)) /\ IsFiniteSet(Waiting)
  BY <1>2, ConnsFinite DEF SlotsOK, TypesOK, Waiting
<1>4. waiters' = Cardinality(SessOf(Counted)')
  BY <1>0, <1>1, <1>3, FS_AddElement
<1>5. config'.threads < UIntValues /\ Waiting' # {} => Cardinality(Waiting') < config'.pool
  <2>1. PICK s \in Configs : config = Options(s)
    BY DEF TypesOK
  <2>2. config.threads \in Nat \ {0} /\ (config.threads < UIntValues => config.pool = config.threads)
    BY <2>1, OptionFacts
  <2>3. CASE waiters >= MaxWaiters
    BY <1>0, <1>1, <2>3 DEF SlotsOK
  <2>4. CASE ~(waiters >= MaxWaiters)
    <3>1. Cardinality(Waiting) <= waiters /\ Cardinality(Waiting) \in Nat
      BY <1>2, <1>3, FS_Subset, FS_CardinalityType
    <3>2. Cardinality(Waiting') = Cardinality(Waiting) + 1
      BY <1>1, <1>3, <2>4, FS_AddElement
    <3>3. waiters < config.threads - 1
      BY <1>3, <2>2, <2>4 DEF MaxWaiters
    <3> QED BY <1>0, <2>2, <3>1, <3>2, <3>3, <1>3
  <2> QED BY <2>3, <2>4
<1> QED BY <1>0, <1>1, <1>4, <1>5 DEF SlotsOK

LEMMA SlotsNext ==
  ASSUME TypesOK, TasksOK, SlotsOK, Next
  PROVE  SlotsOK'
<1> USE DEF SessOf, Counted, Waiting, Stagers, Quiet, TypesOK, serverVars
<1>1. ASSUME NEW c \in Conn, Arrive(c) \/ OnRead(c) \/ IoStep(c) PROVE Quiet
  BY <1>1 DEF Arrive, OnRead, IoStep, Accept, Write, ReadFails, Enter
<1>2. ASSUME NEW c \in Conn, HandleReadOnly(c) \/ HandleCancel(c) PROVE Quiet
  BY <1>2 DEF HandleReadOnly, HandleCancel, Respond
<1>3. ASSUME NEW c \in Conn, NEW error \in {"ShuttingDown", "QueueFull", "StoreError"}, SubmitRefused(c, error)
      PROVE  Quiet
  BY <1>3 DEF SubmitRefused, Respond
<1>4. ASSUME NEW c \in Conn, SubmitAccepted(c) PROVE Quiet
  BY <1>4 DEF SubmitAccepted, Respond
<1>5. ASSUME NEW c \in Conn, CountWaiter(c) PROVE SlotsOK'
  BY <1>5, CountKeeps
<1>6. ASSUME NEW c \in Conn, LeaveFull(c) \/ WaitFinished(c) \/ WaitTimeout(c) PROVE Leaves(c)
  BY <1>6 DEF LeaveFull, WaitFinished, WaitTimeout, Respond, Leaves
<1>7. ASSUME NEW c \in Conn, StageBegin(c) PROVE SlotsOK'
  <2>1. CASE staging \/ ~config.uploads
    <3>1. Quiet
      BY <1>7, <2>1 DEF StageBegin, Respond
    <3> QED BY <3>1, QuietKeeps
  <2>2. CASE ~staging /\ config.uploads
    <3>1. Stagers = {} /\ SessOf(Counted)' = SessOf(Counted) /\ Waiting' = Waiting /\ staging'
      BY <1>7, <2>2 DEF StageBegin, SlotsOK
    <3>2. Stagers' = {c}
      BY <1>7, <2>2, <3>1 DEF StageBegin
    <3> QED BY <1>7, <3>1, <3>2 DEF StageBegin, SlotsOK
  <2> QED BY <2>1, <2>2
<1>8. ASSUME NEW c \in Conn, StageEnd(c) PROVE SlotsOK'
  <2>1. Stagers = {c}
    BY <1>8 DEF StageEnd, SlotsOK
  <2>2. Stagers' = {} /\ SessOf(Counted)' = SessOf(Counted) /\ Waiting' = Waiting /\ ~staging'
    BY <1>8, <2>1 DEF StageEnd, Respond
  <2> QED BY <1>8, <2>2 DEF StageEnd, SlotsOK
<1>9. ASSUME NEW c \in Conn, HandlerThrows(c) PROVE SlotsOK'
  <2>1. CASE sess[c] = "handling"
    <3>1. Quiet
      BY <1>9, <2>1 DEF HandlerThrows, Respond
    <3> QED BY <3>1, QuietKeeps
  <2>2. CASE sess[c] = "waiting"
    <3>1. Leaves(c)
      BY <1>9, <2>2 DEF HandlerThrows, Respond, Leaves
    <3> QED BY <3>1, LeavesKeeps
  <2>3. CASE sess[c] = "staging"
    <3>1. Stagers = {c}
      BY <2>3 DEF SlotsOK
    <3>2. Stagers' = {} /\ SessOf(Counted)' = SessOf(Counted) /\ Waiting' = Waiting /\ ~staging'
      BY <1>9, <2>3, <3>1 DEF HandlerThrows, Respond
    <3> QED BY <1>9, <2>3, <3>2 DEF HandlerThrows, SlotsOK
  <2> QED BY <1>9, <2>1, <2>2, <2>3 DEF HandlerThrows
<1>10. CASE TakeTask
  <2>1. PICK c \in Conn : c = Head(tasks) /\ sess[c] = "dispatched"
    BY <1>10 DEF TakeTask, TasksOK
  <2>2. Quiet
    BY <1>10, <2>1 DEF TakeTask
  <2> QED BY <2>2, QuietKeeps
<1>11. CASE StopAccepting
  BY <1>11, QuietKeeps DEF StopAccepting
<1>12. ASSUME NEW r \in Runs, EndRun(r) \/ EndCancelled(r) PROVE Quiet
  BY <1>12 DEF EndRun, EndCancelled
<1>13. ASSUME NEW ok \in BOOLEAN, Start(ok) PROVE Quiet
  BY <1>13 DEF Start
<1>14. CASE Shutdown \/ StopServer \/ JoinWorkers \/ Ended
  BY <1>14, QuietKeeps DEF Shutdown, StopServer, JoinWorkers, Ended, vars
<1>15. CASE Release
  <2>1. \A c \in Conn : sess[c] \notin {"full", "waiting", "staging"}
    BY <1>15 DEF Release, TasksOK, InWorker, PoolRuns
  <2>2. Quiet
    BY <1>15, <2>1 DEF Release
  <2> QED BY <2>2, QuietKeeps
<1> QED BY <1>1, <1>2, <1>3, <1>4, <1>5, <1>6, <1>7, <1>8, <1>9, <1>10, <1>11, <1>12, <1>13, <1>14, <1>15,
           QuietKeeps, LeavesKeeps DEF Next, WorkerStep, MainStep

-----------------------------------------------------------------------------
(* Types, tasks and requests                                               *)

(* The task a worker takes is of a connection nobody has taken.            *)
LEMMA TaskTaken ==
  ASSUME TypesOK, TasksOK, TakeTask, NEW c, c = Head(tasks)
  PROVE  /\ c \in Conn /\ sess[c] = "dispatched" /\ PoolRuns
         /\ sess' = [sess EXCEPT ![c] = "handling"]
         /\ todo' = [todo EXCEPT ![c] = Decide(config, req[c])]
         /\ UNCHANGED <<serverVars, req, waiters, staging, run, answer>>
BY DEF TakeTask, TasksOK

LEMMA CancelCodes ==
  /\ CancelCode("NotFound") = 404 /\ CancelCode("AlreadyFinished") = 409
  /\ CancelCode("Cancelled") = 200 /\ CancelCode("Cancelling") = 202
  /\ CancelCode("NotCancellable") = 409
BY DEF CancelCode

LEMMA CancelCases ==
  ASSUME NEW r, run[r] \in RunStates
  PROVE  /\ run[r] = "none" => CancelOutcomes(r) = {[outcome |-> "NotFound", state |-> "none"]}
         /\ run[r] = "ended" => CancelOutcomes(r) = {[outcome |-> "AlreadyFinished", state |-> "ended"]}
         /\ run[r] = "live" => CancelOutcomes(r) = {[outcome |-> "Cancelled", state |-> "ended"],
                                                   [outcome |-> "Cancelling", state |-> "cancelling"],
                                                   [outcome |-> "NotCancellable", state |-> "live"]}
         /\ run[r] = "cancelling" =>
              CancelOutcomes(r) = {[outcome |-> "Cancelling", state |-> "cancelling"],
                                   [outcome |-> "NotCancellable", state |-> "cancelling"]}
BY DEF CancelOutcomes

(* What a cancel does to its run, and what the client is told.             *)
CancelDoes(c, r, code, state) ==
  /\ answer' = [answer EXCEPT ![c] = code] /\ run' = [run EXCEPT ![r] = state]
  /\ \/ code \in {404, 409} /\ state = run[r]
     \/ code = 200 /\ run[r] = "live" /\ state = "ended"
     \/ code = 202 /\ run[r] \in {"live", "cancelling"} /\ state = "cancelling"

LEMMA CancelStep ==
  ASSUME NEW c \in Conn, HandleCancel(c), NEW r \in Runs, r = req[c].run, TypesOK
  PROVE  /\ sess[c] = "handling" /\ sess' = [sess EXCEPT ![c] = "posted"]
         /\ todo[c].op \in {"cancel", "cancelVisible"} /\ (todo[c].op = "cancelVisible" => r # JobRun)
         /\ \E code \in {404, 409, 200, 202}, state \in RunStates : CancelDoes(c, r, code, state)
         /\ UNCHANGED <<serverVars, req, todo, tasks, waiters, staging>>
<1>1. /\ sess[c] = "handling" /\ todo[c].op \in {"cancel", "cancelVisible"}
      /\ todo[c].op = "cancelVisible" => r # JobRun
      /\ UNCHANGED <<serverVars, req, todo, tasks, waiters, staging>>
  BY DEF HandleCancel, Visible
<1>2. PICK o \in CancelOutcomes(r) : Respond(c, CancelCode(o.outcome)) /\ run' = [run EXCEPT ![r] = o.state]
  BY DEF HandleCancel
<1>3. PICK code : code = CancelCode(o.outcome)
  OBVIOUS
<1>4. run[r] \in RunStates
  BY DEF TypesOK
<1>5. /\ code \in {404, 409, 200, 202} /\ o.state \in RunStates
      /\ \/ code \in {404, 409} /\ o.state = run[r]
         \/ code = 200 /\ run[r] = "live" /\ o.state = "ended"
         \/ code = 202 /\ run[r] \in {"live", "cancelling"} /\ o.state = "cancelling"
  BY <1>2, <1>3, <1>4, CancelCases, CancelCodes DEF RunStates
<1>6. PICK state : state = o.state
  OBVIOUS
<1>7. /\ sess' = [sess EXCEPT ![c] = "posted"] /\ answer' = [answer EXCEPT ![c] = code]
      /\ run' = [run EXCEPT ![r] = state]
  BY <1>2, <1>3, <1>6 DEF Respond
<1>8. code \in {404, 409, 200, 202} /\ state \in RunStates /\ CancelDoes(c, r, code, state)
  BY <1>5, <1>6, <1>7 DEF CancelDoes
<1> QED BY <1>1, <1>7, <1>8

(* A worker's request is one the client sent; it names a run.              *)
LEMMA NamedRun ==
  ASSUME RequestsOK, NEW c \in Conn, sess[c] \in Served
  PROVE  req[c] \in Requests[c] /\ req[c].run \in Runs /\ todo[c] = Decide(config, req[c])
BY RequestsAssumption DEF RequestsOK, Conn, Runs

LEMMA TypesNext ==
  ASSUME TypesOK, TasksOK, RequestsOK, SlotsOK, Next
  PROVE  TypesOK'
<1> USE DEF TypesOK, SessStates, RunStates, MainStates, serverVars, Respond
<1>1. ASSUME NEW c \in Conn, Arrive(c) \/ OnRead(c) \/ IoStep(c) PROVE TypesOK'
  BY <1>1 DEF Arrive, OnRead, IoStep, Accept, Write, ReadFails, Enter
<1>2. ASSUME NEW c \in Conn, HandleReadOnly(c) PROVE TypesOK'
  BY <1>2 DEF HandleReadOnly
<1>3. ASSUME NEW c \in Conn, HandleCancel(c) PROVE TypesOK'
  <2>1. PICK r \in Runs : r = req[c].run
    BY <1>3, NamedRun DEF HandleCancel, Served
  <2> QED BY <1>3, <2>1, CancelStep DEF CancelDoes
<1>4. ASSUME NEW c \in Conn, NEW error \in {"ShuttingDown", "QueueFull", "StoreError"}, SubmitRefused(c, error)
      PROVE  TypesOK'
  BY <1>4 DEF SubmitRefused
<1>5. ASSUME NEW c \in Conn, SubmitAccepted(c) \/ CountWaiter(c) PROVE TypesOK'
  BY <1>5 DEF SubmitAccepted, CountWaiter, Runs
<1>6. ASSUME NEW c \in Conn, LeaveFull(c) \/ WaitFinished(c) \/ WaitTimeout(c) PROVE TypesOK'
  <2>1. waiters - 1 \in Nat
    BY <1>6, SlotHeld DEF LeaveFull, WaitFinished, WaitTimeout, Counted
  <2> QED BY <1>6, <2>1 DEF LeaveFull, WaitFinished, WaitTimeout
<1>7. ASSUME NEW c \in Conn, StageBegin(c) \/ StageEnd(c) PROVE TypesOK'
  BY <1>7 DEF StageBegin, StageEnd
<1>8. ASSUME NEW c \in Conn, HandlerThrows(c) PROVE TypesOK'
  <2>1. waiters' \in Nat
    BY <1>8, SlotHeld DEF HandlerThrows, Counted
  <2>2. staging' \in BOOLEAN
    BY <1>8, Zenon DEF HandlerThrows
  <2> QED BY <1>8, <2>1, <2>2 DEF HandlerThrows
<1>9. CASE TakeTask
  BY <1>9, TaskTaken
<1>10. ASSUME NEW r \in Runs, EndRun(r) \/ EndCancelled(r) PROVE TypesOK'
  BY <1>10 DEF EndRun, EndCancelled
<1>11. ASSUME NEW ok \in BOOLEAN, Start(ok) PROVE TypesOK'
  BY <1>11 DEF Start
<1>12. CASE StopAccepting \/ Shutdown
  BY <1>12 DEF StopAccepting, Shutdown
<1>13. CASE StopServer \/ JoinWorkers \/ Ended \/ Release
  BY <1>13 DEF StopServer, JoinWorkers, Release, Ended, vars
<1> QED BY <1>1, <1>2, <1>3, <1>4, <1>5, <1>6, <1>7, <1>8, <1>9, <1>10, <1>11, <1>12, <1>13 DEF Next, WorkerStep,
           MainStep

LEMMA TasksNext ==
  ASSUME TypesOK, TasksOK, Next
  PROVE  TasksOK'
<1> USE DEF TypesOK, TasksOK, InWorker, PoolRuns, serverVars, Respond
<1>1. ASSUME NEW c \in Conn, OnRead(c) PROVE TasksOK'
  <2>1. CASE Stopping
    BY <1>1, <2>1 DEF OnRead, Enter
  <2>2. CASE ~Stopping
    <3>1. /\ sess[c] = "reading" /\ sess' = [sess EXCEPT ![c] = "dispatched"]
          /\ tasks' = Append(tasks, c) /\ UNCHANGED main
      BY <1>1, <2>2 DEF OnRead, Enter
    <3>2. /\ tasks' \in Seq(Conn) /\ Len(tasks') = Len(tasks) + 1 /\ tasks'[Len(tasks) + 1] = c
          /\ \A i \in 1..Len(tasks) : tasks'[i] = tasks[i] /\ tasks[i] # c
      BY <3>1
    <3>3. \A i \in 1..Len(tasks') : sess'[tasks'[i]] = "dispatched"
      BY <3>1, <3>2
    <3>4. ASSUME NEW i \in 1..Len(tasks'), NEW j \in 1..Len(tasks'), tasks'[i] = tasks'[j] PROVE i = j
      <4>1. i \in 1..Len(tasks) \/ i = Len(tasks) + 1
        BY <3>2
      <4>2. j \in 1..Len(tasks) \/ j = Len(tasks) + 1
        BY <3>2
      <4> QED BY <3>2, <3>4, <4>1, <4>2
    <3> QED BY <3>1, <3>2, <3>3, <3>4
  <2> QED BY <2>1, <2>2
<1>2. ASSUME NEW c \in Conn, Arrive(c) \/ IoStep(c) PROVE TasksOK'
  BY <1>2 DEF Arrive, IoStep, Accept, Write, ReadFails, Enter
<1>3. ASSUME NEW c \in Conn, HandleReadOnly(c) \/ HandleCancel(c) PROVE TasksOK'
  BY <1>3 DEF HandleReadOnly, HandleCancel
<1>4. ASSUME NEW c \in Conn, NEW error \in {"ShuttingDown", "QueueFull", "StoreError"}, SubmitRefused(c, error)
      PROVE  TasksOK'
  BY <1>4 DEF SubmitRefused
<1>5. ASSUME NEW c \in Conn, SubmitAccepted(c) PROVE TasksOK'
  <2>1. /\ sess[c] = "handling" /\ UNCHANGED <<main, tasks>>
        /\ \E s \in {"counting", "posted"} : sess' = [sess EXCEPT ![c] = s]
    BY <1>5 DEF SubmitAccepted
  <2> QED BY <2>1
<1>6. ASSUME NEW c \in Conn, CountWaiter(c) \/ LeaveFull(c) \/ WaitFinished(c) \/ WaitTimeout(c) PROVE TasksOK'
  BY <1>6 DEF CountWaiter, LeaveFull, WaitFinished, WaitTimeout
<1>7. ASSUME NEW c \in Conn, StageBegin(c) \/ StageEnd(c) \/ HandlerThrows(c) PROVE TasksOK'
  <2>1. /\ sess[c] \in {"handling", "waiting", "staging"} /\ UNCHANGED <<main, tasks>>
        /\ \E s \in {"staging", "posted"} : sess' = [sess EXCEPT ![c] = s]
    BY <1>7 DEF StageBegin, StageEnd, HandlerThrows
  <2> QED BY <2>1
<1>8. CASE TakeTask
  <2>1. PICK c \in Conn : /\ c = Head(tasks) /\ sess[c] = "dispatched" /\ PoolRuns
                          /\ sess' = [sess EXCEPT ![c] = "handling"]
    BY <1>8, TaskTaken
  <2>2. tasks # <<>> /\ tasks' = Tail(tasks) /\ UNCHANGED main
    BY <1>8 DEF TakeTask
  <2>3. /\ tasks' \in Seq(Conn) /\ Len(tasks') = Len(tasks) - 1 /\ c = tasks[1]
        /\ \A i \in 1..Len(tasks') : tasks'[i] = tasks[i + 1] /\ i + 1 \in 1..Len(tasks)
    BY <2>1, <2>2
  <2>4. ASSUME NEW i \in 1..Len(tasks'), tasks'[i] = c PROVE FALSE
    <3>1. i \in Int /\ i >= 1 /\ i + 1 \in 1..Len(tasks) /\ 1 \in 1..Len(tasks) /\ tasks[i + 1] = tasks[1]
      BY <2>2, <2>3, <2>4
    <3>2. i + 1 = 1
      BY <3>1
    <3> QED BY <3>1, <3>2
  <2>5. \A i \in 1..Len(tasks') : sess'[tasks'[i]] = "dispatched"
    BY <2>1, <2>3, <2>4
  <2>6. ASSUME NEW i \in 1..Len(tasks'), NEW j \in 1..Len(tasks'), tasks'[i] = tasks'[j] PROVE i = j
    <3>1. /\ i + 1 \in 1..Len(tasks) /\ j + 1 \in 1..Len(tasks) /\ i \in Int /\ j \in Int
          /\ tasks[i + 1] = tasks[j + 1]
      BY <2>3, <2>6
    <3>2. i + 1 = j + 1
      BY <3>1
    <3> QED BY <3>1, <3>2
  <2> QED BY <2>1, <2>2, <2>3, <2>5, <2>6
<1>9. CASE StopAccepting
  <2>1. \A c \in Conn : sess'[c] = (IF sess[c] = "reading" THEN "closed" ELSE sess[c]) /\ UNCHANGED <<main, tasks>>
    BY <1>9 DEF StopAccepting
  <2>2. InWorker' = InWorker /\ \A i \in 1..Len(tasks) : tasks[i] \in Conn
    BY <2>1
  <2> QED BY <1>9, <2>1, <2>2 DEF StopAccepting
<1>10. ASSUME NEW r \in Runs, EndRun(r) \/ EndCancelled(r) PROVE TasksOK'
  BY <1>10 DEF EndRun, EndCancelled
<1>11. ASSUME NEW ok \in BOOLEAN, Start(ok) PROVE TasksOK'
  BY <1>11 DEF Start
<1>12. CASE Shutdown \/ StopServer \/ JoinWorkers \/ Ended
  BY <1>12 DEF Shutdown, StopServer, JoinWorkers, Ended, vars
<1>13. CASE Release
  BY <1>13 DEF Release
<1> QED BY <1>1, <1>2, <1>3, <1>4, <1>5, <1>6, <1>7, <1>8, <1>9, <1>10, <1>11, <1>12, <1>13 DEF Next, WorkerStep,
           MainStep

LEMMA RequestsNext ==
  ASSUME TypesOK, TasksOK, RequestsOK, Next
  PROVE  RequestsOK'
<1> USE DEF TypesOK, RequestsOK, Served, serverVars, Respond
<1>1. ASSUME NEW c \in Conn, Arrive(c) \/ OnRead(c) \/ IoStep(c) PROVE RequestsOK'
  BY <1>1 DEF Arrive, OnRead, IoStep, Accept, Write, ReadFails, Enter
<1>2. ASSUME NEW c \in Conn, HandleReadOnly(c) \/ HandleCancel(c) PROVE RequestsOK'
  BY <1>2 DEF HandleReadOnly, HandleCancel
<1>3. ASSUME NEW c \in Conn, NEW error \in {"ShuttingDown", "QueueFull", "StoreError"}, SubmitRefused(c, error)
      PROVE  RequestsOK'
  BY <1>3 DEF SubmitRefused
<1>4. ASSUME NEW c \in Conn, SubmitAccepted(c) \/ CountWaiter(c) PROVE RequestsOK'
  BY <1>4 DEF SubmitAccepted, CountWaiter
<1>5. ASSUME NEW c \in Conn, LeaveFull(c) \/ WaitFinished(c) \/ WaitTimeout(c) PROVE RequestsOK'
  BY <1>5 DEF LeaveFull, WaitFinished, WaitTimeout
<1>6. ASSUME NEW c \in Conn, StageBegin(c) \/ StageEnd(c) \/ HandlerThrows(c) PROVE RequestsOK'
  BY <1>6 DEF StageBegin, StageEnd, HandlerThrows
<1>7. CASE TakeTask
  BY <1>7, TaskTaken
<1>8. CASE StopAccepting \/ Release
  BY <1>8 DEF StopAccepting, Release
<1>9. ASSUME NEW r \in Runs, EndRun(r) \/ EndCancelled(r) PROVE RequestsOK'
  BY <1>9 DEF EndRun, EndCancelled
<1>10. ASSUME NEW ok \in BOOLEAN, Start(ok) PROVE RequestsOK'
  BY <1>10 DEF Start
<1>11. CASE Shutdown \/ StopServer \/ JoinWorkers \/ Ended
  BY <1>11 DEF Shutdown, StopServer, JoinWorkers, Ended, vars
<1> QED BY <1>1, <1>2, <1>3, <1>4, <1>5, <1>6, <1>7, <1>8, <1>9, <1>10, <1>11 DEF Next, WorkerStep, MainStep

-----------------------------------------------------------------------------
(* Runs and answers                                                        *)

(* Who is authorized follows from the request and the options alone.       *)
LEMMA AuthorizationKeeps ==
  ASSUME UNCHANGED config, NEW d \in Conn, req'[d] = req[d]
  PROVE  Authorized(req[d])' <=> Authorized(req[d])
BY DEF Authorized

(* A request past its handler keeps its connection and its credentials.    *)
LEMMA RunsNext ==
  ASSUME TypesOK, TasksOK, RequestsOK, RunsOK, Next
  PROVE  RunsOK'
<1> USE JobRunAssumption DEF TypesOK, RunsOK, Past, Served, Runs, Conn, serverVars, vars, Respond, SessStates,
           RunStates, MainStates
<1>0. ASSUME UNCHANGED config, UNCHANGED req PROVE \A d \in Conn : Authorized(req[d])' <=> Authorized(req[d])
  BY <1>0, AuthorizationKeeps
<1>1. ASSUME NEW c \in Conn, OnRead(c) PROVE RunsOK'
  <2>1. /\ sess[c] = "reading" /\ \E s \in {"closed", "dispatched"} : sess' = [sess EXCEPT ![c] = s]
        /\ \E q : req' = [req EXCEPT ![c] = q]
        /\ UNCHANGED <<config, main, todo, run>>
    BY <1>1 DEF OnRead, Enter
  <2>2. run[c] = "none"
    BY <2>1
  <2>3. ASSUME NEW d \in Conn, d # c
        PROVE  sess'[d] = sess[d] /\ req'[d] = req[d] /\ (Authorized(req[d])' <=> Authorized(req[d]))
    BY <2>1, <2>3, AuthorizationKeeps
  <2> QED BY <1>0, <2>1, <2>2, <2>3
<1>2. ASSUME NEW c \in Conn, Arrive(c) \/ IoStep(c) PROVE RunsOK'
  <2>1. CASE Arrive(c)
    BY <1>0, <2>1 DEF Arrive, Enter
  <2>2. CASE Accept(c)
    BY <1>0, <2>2 DEF Accept, Enter
  <2>3. CASE Write(c)
    BY <1>0, <2>3 DEF Write, Enter
  <2>4. CASE ReadFails(c)
    BY <1>0, <2>4 DEF ReadFails, Enter
  <2> QED BY <1>2, <2>1, <2>2, <2>3, <2>4 DEF IoStep
<1>3. ASSUME NEW c \in Conn, HandleReadOnly(c) PROVE RunsOK'
  BY <1>0, <1>3 DEF HandleReadOnly
<1>4. ASSUME NEW c \in Conn, HandleCancel(c) PROVE RunsOK'
  <2>1. PICK r \in Runs : r = req[c].run
    BY <1>4, NamedRun DEF HandleCancel
  <2>2. PICK code \in {404, 409, 200, 202}, state \in RunStates : CancelDoes(c, r, code, state)
    BY <1>4, <2>1, CancelStep
  <2>3. /\ sess[c] = "handling" /\ sess' = [sess EXCEPT ![c] = "posted"] /\ UNCHANGED <<config, main, req, todo>>
        /\ run' = [run EXCEPT ![r] = state] /\ (state = "none" <=> run[r] = "none")
    <3>1. sess[c] = "handling" /\ UNCHANGED <<config, main, req, todo>>
      BY <1>4, <2>1, CancelStep
    <3>2. sess' = [sess EXCEPT ![c] = "posted"]
      BY <1>4, <2>1, CancelStep
    <3>3. run' = [run EXCEPT ![r] = state] /\ (state = "none" <=> run[r] = "none")
      BY <2>2 DEF CancelDoes
    <3> QED BY <3>1, <3>2, <3>3
  <2>4. ASSUME r = JobRun PROVE Authorized(req[c]) /\ req[c].path[1] = "api" /\ req[c] \in Requests[c]
    <3>1. todo[c].op = "cancel" /\ todo[c] = Decide(config, req[c]) /\ req[c] \in Requests[c]
      BY <1>4, <2>1, <2>3, <2>4, CancelStep, NamedRun
    <3> QED BY <3>1, DecidedIsAuthorized
  <2>5. \A d \in Conn : run'[d] # "none" => run[d] # "none"
    BY <2>3
  <2>6. ASSUME r # JobRun PROVE run'[JobRun] = run[JobRun]
    BY <2>3, <2>6
  <2> QED BY <1>0, <2>1, <2>3, <2>4, <2>5, <2>6
<1>5. ASSUME NEW c \in Conn, NEW error \in {"ShuttingDown", "QueueFull", "StoreError"}, SubmitRefused(c, error)
      PROVE  RunsOK'
  BY <1>0, <1>5 DEF SubmitRefused
<1>6. ASSUME NEW c \in Conn, SubmitAccepted(c) PROVE RunsOK'
  <2>1. /\ sess[c] = "handling" /\ todo[c].op = "submit" /\ run' = [run EXCEPT ![c] = "live"]
        /\ \E s \in {"counting", "posted"} : sess' = [sess EXCEPT ![c] = s]
        /\ UNCHANGED <<config, main, req, todo>>
    BY <1>6 DEF SubmitAccepted
  <2>2. req[c] \in Requests[c] /\ Authorized(req[c])
    <3>1. req[c] \in Requests[c] /\ todo[c] = Decide(config, req[c])
      BY <2>1, NamedRun
    <3> QED BY <2>1, <3>1, DecidedIsAuthorized
  <2>3. run'[JobRun] = run[JobRun]
    BY <2>1
  <2> QED BY <1>0, <2>1, <2>2, <2>3
<1>7. ASSUME NEW c \in Conn, CountWaiter(c) \/ LeaveFull(c) \/ WaitFinished(c) \/ WaitTimeout(c) PROVE RunsOK'
  <2>1. CASE CountWaiter(c)
    BY <1>0, <2>1 DEF CountWaiter
  <2>2. CASE LeaveFull(c)
    BY <1>0, <2>2 DEF LeaveFull
  <2>3. CASE WaitFinished(c)
    BY <1>0, <2>3 DEF WaitFinished
  <2>4. CASE WaitTimeout(c)
    BY <1>0, <2>4 DEF WaitTimeout
  <2> QED BY <1>7, <2>1, <2>2, <2>3, <2>4
<1>8. ASSUME NEW c \in Conn, StageBegin(c) PROVE RunsOK'
  <2>1. /\ sess[c] = "handling" /\ todo[c].op = "stage" /\ UNCHANGED <<config, main, req, todo, run>>
        /\ \/ sess' = [sess EXCEPT ![c] = "staging"] /\ config.uploads
           \/ sess' = [sess EXCEPT ![c] = "posted"]
    BY <1>8 DEF StageBegin
  <2>2. Authorized(req[c])
    <3>1. req[c] \in Requests[c] /\ todo[c] = Decide(config, req[c])
      BY <2>1, NamedRun
    <3> QED BY <2>1, <3>1, DecidedIsAuthorized
  <2>3. config.uploads => config.authRequired
    BY OptionFacts
  <2>4. CASE sess' = [sess EXCEPT ![c] = "staging"] /\ config.uploads
    BY <1>0, <2>1, <2>2, <2>3, <2>4
  <2>5. CASE sess' = [sess EXCEPT ![c] = "posted"]
    BY <1>0, <2>1, <2>5
  <2> QED BY <2>1, <2>4, <2>5
<1>9. ASSUME NEW c \in Conn, StageEnd(c) \/ HandlerThrows(c) PROVE RunsOK'
  <2>1. CASE StageEnd(c)
    BY <1>0, <2>1 DEF StageEnd
  <2>2. CASE HandlerThrows(c)
    BY <1>0, <2>2 DEF HandlerThrows
  <2> QED BY <1>9, <2>1, <2>2
<1>10. CASE TakeTask
  <2>1. PICK c \in Conn : /\ sess[c] = "dispatched" /\ sess' = [sess EXCEPT ![c] = "handling"]
                          /\ todo' = [todo EXCEPT ![c] = Decide(config, req[c])]
                          /\ UNCHANGED <<config, main, req, run>>
    BY <1>10, TaskTaken
  <2>2. ASSUME NEW d \in Conn, d # c PROVE sess'[d] = sess[d] /\ todo'[d] = todo[d]
    BY <2>1, <2>2
  <2>3. sess'[c] = "handling" /\ run[c] = "none"
    BY <2>1
  <2> QED BY <1>0, <2>1, <2>2, <2>3
<1>11. CASE StopAccepting \/ Shutdown \/ Release
  <2>1. CASE StopAccepting
    BY <1>0, <2>1 DEF StopAccepting
  <2>2. CASE Shutdown
    BY <1>0, <2>2 DEF Shutdown
  <2>3. CASE Release
    BY <1>0, <2>3 DEF Release
  <2> QED BY <1>11, <2>1, <2>2, <2>3
<1>12. ASSUME NEW r \in Runs, EndRun(r) \/ EndCancelled(r) PROVE RunsOK'
  <2>1. CASE EndRun(r)
    BY <1>0, <2>1 DEF EndRun
  <2>2. CASE EndCancelled(r)
    BY <1>0, <2>2 DEF EndCancelled
  <2> QED BY <1>12, <2>1, <2>2
<1>13. ASSUME NEW ok \in BOOLEAN, Start(ok) PROVE RunsOK'
  BY <1>0, <1>13 DEF Start
<1>14. CASE StopServer \/ JoinWorkers \/ Ended
  BY <1>0, <1>14 DEF StopServer, JoinWorkers, Ended, vars
<1> QED BY <1>1, <1>2, <1>3, <1>4, <1>5, <1>6, <1>7, <1>8, <1>9, <1>10, <1>11, <1>12, <1>13, <1>14 DEF Next, WorkerStep,
           MainStep

(* A refusal never sounds like success.                                    *)
LEMMA SubmitCodes ==
  ASSUME NEW error \in {"ShuttingDown", "QueueFull", "StoreError"}
  PROVE  SubmitErrorCode(error) \in {503, 429, 500}
BY DEF SubmitErrorCode

LEMMA AnswersNext ==
  ASSUME TypesOK, TasksOK, RequestsOK, RunsOK, AnswersOK, Next
  PROVE  AnswersOK'
<1> USE JobRunAssumption DEF TypesOK, AnswersOK, AnswersTrue, Runs, Conn, serverVars, vars, Respond, SessStates,
           RunStates, MainStates
<1>1. ASSUME NEW c \in Conn, OnRead(c) PROVE AnswersOK'
  <2>1. /\ sess[c] = "reading" /\ \E s \in {"closed", "dispatched"} : sess' = [sess EXCEPT ![c] = s]
        /\ \E q : req' = [req EXCEPT ![c] = q]
        /\ UNCHANGED <<todo, run, answer>>
    BY <1>1 DEF OnRead, Enter
  <2>2. answer[c] = 0
    BY <2>1
  <2>3. ASSUME NEW d \in Conn, d # c PROVE sess'[d] = sess[d] /\ req'[d] = req[d]
    BY <2>1, <2>3
  <2> QED BY <2>1, <2>2, <2>3
<1>2. ASSUME NEW c \in Conn, Arrive(c) \/ IoStep(c) PROVE AnswersOK'
  <2>1. CASE Arrive(c)
    BY <2>1 DEF Arrive, Enter
  <2>2. CASE Accept(c)
    BY <2>2 DEF Accept, Enter
  <2>3. CASE Write(c)
    BY <2>3 DEF Write, Enter
  <2>4. CASE ReadFails(c)
    BY <2>4 DEF ReadFails, Enter
  <2> QED BY <1>2, <2>1, <2>2, <2>3, <2>4 DEF IoStep
<1>3. ASSUME NEW c \in Conn, HandleReadOnly(c) PROVE AnswersOK'
  BY <1>3 DEF HandleReadOnly, Visible
<1>4. ASSUME NEW c \in Conn, HandleCancel(c) PROVE AnswersOK'
  <2>1. PICK r \in Runs : r = req[c].run
    BY <1>4, NamedRun DEF HandleCancel, Served
  <2>2. PICK code \in {404, 409, 200, 202}, state \in RunStates : CancelDoes(c, r, code, state)
    BY <1>4, <2>1, CancelStep
  <2>3. sess[c] = "handling" /\ todo[c].op \in {"cancel", "cancelVisible"} /\ UNCHANGED <<req, todo>>
    BY <1>4, <2>1, CancelStep
  <2>4. /\ sess' = [sess EXCEPT ![c] = "posted"] /\ answer' = [answer EXCEPT ![c] = code]
        /\ run' = [run EXCEPT ![r] = state]
    <3>1. sess' = [sess EXCEPT ![c] = "posted"]
      BY <1>4, <2>1, CancelStep
    <3>2. answer' = [answer EXCEPT ![c] = code] /\ run' = [run EXCEPT ![r] = state]
      BY <2>2 DEF CancelDoes
    <3> QED BY <3>1, <3>2
  <2>5. \/ code \in {404, 409} /\ state = run[r]
        \/ code = 200 /\ run[r] = "live" /\ state = "ended"
        \/ code = 202 /\ run[r] \in {"live", "cancelling"} /\ state = "cancelling"
    BY <2>2 DEF CancelDoes
  <2>6. ASSUME NEW x \in Runs
        PROVE  /\ run[x] = "ended" => run'[x] = "ended"
               /\ run[x] # "none" <=> run'[x] # "none"
               /\ run[x] # "live" => run'[x] # "live"
    BY <2>4, <2>5
  <2>7. /\ code = 200 => run'[r] = "ended"
        /\ code = 202 => run'[r] = "cancelling"
    BY <2>4, <2>5
  <2>8. ASSUME NEW d \in Conn, answer'[d] # 0, todo[d].op \in {"submit", "cancel", "cancelVisible"},
               NEW x, x = IF todo[d].op \in {"cancel", "cancelVisible"} THEN req[d].run ELSE d
        PROVE  /\ answer'[d] = 200 => run'[x] = "ended"
               /\ answer'[d] = 202 => run'[x] # "none" /\ (x # d => run'[x] # "live")
               /\ (x = d /\ answer'[d] \in {429, 503}) => run'[x] = "none"
    <3>1. CASE d = c
      BY <2>1, <2>3, <2>4, <2>7, <2>8, <3>1
    <3>2. CASE d # c
      <4>1. answer'[d] = answer[d] /\ sess[d] = "posted"
        BY <2>4, <2>8, <3>2
      <4>2. x \in Runs
        BY <2>8, <4>1, NamedRun DEF Served
      <4> QED BY <2>6, <2>8, <4>1, <4>2
    <3> QED BY <3>1, <3>2
  <2> QED BY <2>3, <2>4, <2>8
<1>5. ASSUME NEW c \in Conn, NEW error \in {"ShuttingDown", "QueueFull", "StoreError"}, SubmitRefused(c, error)
      PROVE  AnswersOK'
  <2>1. PICK code \in {503, 429, 500} : code = SubmitErrorCode(error)
    BY SubmitCodes
  <2>2. /\ sess[c] = "handling" /\ todo[c].op = "submit"
        /\ sess' = [sess EXCEPT ![c] = "posted"] /\ answer' = [answer EXCEPT ![c] = code]
        /\ UNCHANGED <<req, todo, run>>
    BY <1>5, <2>1 DEF SubmitRefused
  <2>3. run[c] = "none"
    BY <2>2 DEF RunsOK, Past
  <2> QED BY <2>1, <2>2, <2>3
<1>6. ASSUME NEW c \in Conn, SubmitAccepted(c) PROVE AnswersOK'
  <2>1. /\ sess[c] = "handling" /\ todo[c].op = "submit" /\ run' = [run EXCEPT ![c] = "live"]
        /\ \/ sess' = [sess EXCEPT ![c] = "counting"] /\ answer' = answer
           \/ sess' = [sess EXCEPT ![c] = "posted"] /\ answer' = [answer EXCEPT ![c] = 202]
        /\ UNCHANGED <<req, todo>>
    BY <1>6 DEF SubmitAccepted
  <2>2. run[c] = "none" /\ answer[c] = 0
    BY <2>1 DEF RunsOK, Past
  <2>3. CASE sess' = [sess EXCEPT ![c] = "counting"] /\ answer' = answer
    BY <2>1, <2>2, <2>3
  <2>4. CASE sess' = [sess EXCEPT ![c] = "posted"] /\ answer' = [answer EXCEPT ![c] = 202]
    BY <2>1, <2>2, <2>4
  <2> QED BY <2>1, <2>3, <2>4
<1>7. ASSUME NEW c \in Conn, CountWaiter(c) \/ LeaveFull(c) \/ WaitFinished(c) \/ WaitTimeout(c) PROVE AnswersOK'
  <2>1. CASE CountWaiter(c)
    BY <2>1 DEF CountWaiter
  <2>2. CASE LeaveFull(c)
    BY <2>2 DEF LeaveFull, RunsOK
  <2>3. CASE WaitFinished(c)
    BY <2>3 DEF WaitFinished, RunsOK
  <2>4. CASE WaitTimeout(c)
    BY <2>4 DEF WaitTimeout, RunsOK
  <2> QED BY <1>7, <2>1, <2>2, <2>3, <2>4
<1>8. ASSUME NEW c \in Conn, StageBegin(c) PROVE AnswersOK'
  <2>1. PICK code : \/ sess' = [sess EXCEPT ![c] = "staging"] /\ answer' = answer
                    \/ sess' = [sess EXCEPT ![c] = "posted"] /\ answer' = [answer EXCEPT ![c] = code]
    BY <1>8 DEF StageBegin
  <2>2. sess[c] = "handling" /\ todo[c].op = "stage" /\ UNCHANGED <<req, todo, run>>
    BY <1>8 DEF StageBegin
  <2>3. CASE sess' = [sess EXCEPT ![c] = "staging"] /\ answer' = answer
    BY <2>2, <2>3
  <2>4. CASE sess' = [sess EXCEPT ![c] = "posted"] /\ answer' = [answer EXCEPT ![c] = code]
    BY <2>2, <2>4
  <2> QED BY <2>1, <2>3, <2>4
<1>9. ASSUME NEW c \in Conn, StageEnd(c) \/ HandlerThrows(c) PROVE AnswersOK'
  <2>1. CASE StageEnd(c)
    <3>1. PICK code : Respond(c, code)
      BY <2>1 DEF StageEnd
    <3>2. sess[c] = "staging" /\ todo[c].op = "stage" /\ UNCHANGED <<req, todo, run>>
      BY <2>1 DEF StageEnd, RunsOK
    <3> QED BY <3>1, <3>2
  <2>2. CASE HandlerThrows(c)
    BY <2>2 DEF HandlerThrows
  <2> QED BY <1>9, <2>1, <2>2
<1>10. CASE TakeTask
  <2>1. PICK c \in Conn : /\ sess[c] = "dispatched" /\ sess' = [sess EXCEPT ![c] = "handling"]
                          /\ todo' = [todo EXCEPT ![c] = Decide(config, req[c])]
                          /\ UNCHANGED <<req, run, answer>>
    BY <1>10, TaskTaken
  <2>2. answer[c] = 0
    BY <2>1
  <2>3. ASSUME NEW d \in Conn, d # c PROVE sess'[d] = sess[d] /\ todo'[d] = todo[d]
    BY <2>1, <2>3
  <2> QED BY <2>1, <2>2, <2>3
<1>11. CASE StopAccepting \/ Shutdown \/ Release
  <2>1. CASE StopAccepting
    BY <2>1 DEF StopAccepting
  <2>2. CASE Shutdown
    <3>1. /\ run' = [r \in Runs |-> IF run[r] = "live" THEN "cancelling" ELSE run[r]]
          /\ UNCHANGED <<sess, req, todo, answer>>
      BY <2>2 DEF Shutdown
    <3>2. ASSUME NEW d \in Conn, answer[d] # 0, todo[d].op \in {"cancel", "cancelVisible"}
          PROVE  req[d].run \in Runs
      BY <3>2, NamedRun DEF Served
    <3> QED BY <3>1, <3>2
  <2>3. CASE Release
    BY <2>3 DEF Release
  <2> QED BY <1>11, <2>1, <2>2, <2>3
<1>12. ASSUME NEW r \in Runs, EndRun(r) \/ EndCancelled(r) PROVE AnswersOK'
  <2>1. CASE EndRun(r)
    BY <2>1 DEF EndRun
  <2>2. CASE EndCancelled(r)
    BY <2>2 DEF EndCancelled
  <2> QED BY <1>12, <2>1, <2>2
<1>13. ASSUME NEW ok \in BOOLEAN, Start(ok) PROVE AnswersOK'
  BY <1>13 DEF Start
<1>14. CASE StopServer \/ JoinWorkers \/ Ended
  <2>1. UNCHANGED <<sess, req, todo, run, answer>>
    BY <1>14 DEF StopServer, JoinWorkers, Ended
  <2> QED BY <2>1
<1> QED BY <1>1, <1>2, <1>3, <1>4, <1>5, <1>6, <1>7, <1>8, <1>9, <1>10, <1>11, <1>12, <1>13, <1>14 DEF Next, WorkerStep,
           MainStep

-----------------------------------------------------------------------------
(* The invariant and what follows from it                                  *)

LEMMA InitInv == Init => ServerInv
<1> SUFFICES ASSUME Init PROVE ServerInv
  OBVIOUS
<1> USE JobRunAssumption DEF Init, Runs, Conn
<1>1. TypesOK
  BY DEF TypesOK, SessStates, RunStates, MainStates
<1>2. TasksOK
  BY DEF TasksOK, InWorker, PoolRuns
<1>3. RequestsOK
  BY DEF RequestsOK, Served
<1>4. SlotsOK
  <2>1. SessOf(Counted) = {} /\ Waiting = {} /\ Stagers = {}
    BY DEF SessOf, Counted, Waiting, Stagers
  <2> QED BY <2>1, FS_EmptySet DEF SlotsOK
<1>5. RunsOK
  BY DEF RunsOK
<1>6. AnswersOK
  BY DEF AnswersOK, AnswersTrue
<1> QED BY <1>1, <1>2, <1>3, <1>4, <1>5, <1>6 DEF ServerInv

LEMMA NextInv == ServerInv /\ Next => ServerInv'
<1> SUFFICES ASSUME ServerInv, Next PROVE ServerInv'
  OBVIOUS
<1>1. TypesOK /\ TasksOK /\ RequestsOK /\ SlotsOK /\ RunsOK /\ AnswersOK
  BY DEF ServerInv
<1>2. TypesOK' /\ TasksOK' /\ RequestsOK'
  BY <1>1, TypesNext, TasksNext, RequestsNext
<1>3. SlotsOK' /\ RunsOK' /\ AnswersOK'
  BY <1>1, SlotsNext, RunsNext, AnswersNext
<1> QED BY <1>2, <1>3 DEF ServerInv

LEMMA StutterInv == ServerInv /\ UNCHANGED vars => ServerInv'
<1> SUFFICES ASSUME ServerInv, UNCHANGED vars PROVE ServerInv'
  OBVIOUS
<1> USE DEF ServerInv, vars, serverVars
<1>1. TypesOK' /\ TasksOK'
  BY DEF TypesOK, TasksOK, InWorker, PoolRuns
<1>2. RequestsOK'
  BY DEF RequestsOK
<1>3. SlotsOK'
  BY DEF SlotsOK, SessOf, Waiting, Stagers
<1>4. RunsOK'
  <2>1. \A d \in Conn : Authorized(req[d])' <=> Authorized(req[d])
    BY AuthorizationKeeps
  <2> QED BY <2>1 DEF RunsOK
<1>5. AnswersOK'
  BY DEF AnswersOK, AnswersTrue
<1> QED BY <1>1, <1>2, <1>3, <1>4, <1>5

LEMMA ServerInvariance == Spec => []ServerInv
<1>1. ServerInv /\ [Next]_vars => ServerInv'
  BY NextInv, StutterInv
<1> QED BY InitInv, <1>1, PTL DEF Spec

(* However many clients wait for their runs, a worker is left for polls    *)
(* and cancels, if an unsigned int can hold the number of workers; no waiter's slot is lost or given back twice; and at most  *)
(* one upload is held in memory, by the client the flag was taken for.     *)
THEOREM LimitsAreHeld == Spec => []LimitsHeld
<1>1. ServerInv => LimitsHeld
  <2> SUFFICES ASSUME ServerInv PROVE LimitsHeld
    OBVIOUS
  <2>1. /\ waiters = Cardinality({c \in Conn : sess[c] \in {"full", "waiting"}})
        /\ config.threads < UIntValues /\ Waiting # {} => Cardinality(Waiting) < config.pool
    BY DEF ServerInv, SlotsOK, SessOf, Counted
  <2>2. Cardinality(Stagers) = IF staging THEN 1 ELSE 0
    BY FS_Singleton, FS_EmptySet DEF ServerInv, SlotsOK
  <2>3. Stagers = {c \in Conn : sess[c] = "staging"}
    BY DEF Stagers, SessOf
  <2> QED BY <2>1, <2>2, <2>3 DEF LimitsHeld
<1> QED BY ServerInvariance, <1>1, PTL

(* Runs are started, a job's run is stopped and code is uploaded only for  *)
(* a client that the configuration the server was started with admits:     *)
(* what the routes decide about a request is never applied to another one, *)
(* and holds until the request's effect.                                   *)
THEOREM EffectsAreAllowed == Spec => []OnlyAllowedEffects
<1>1. ServerInv => OnlyAllowedEffects
  <2> SUFFICES ASSUME ServerInv PROVE OnlyAllowedEffects
    OBVIOUS
  <2>1. /\ \A c \in Conn : sess[c] = "staging" => Authorized(req[c]) /\ config.authRequired
        /\ \A c \in Conn : run[c] # "none" => Authorized(req[c])
    BY DEF ServerInv, RunsOK
  <2>2. ASSUME run[JobRun] = "cancelling", main = "serving"
        PROVE  \E c \in Conn : /\ req[c] # NoRequest /\ req[c].path[1] = "api"
                               /\ req[c].run = JobRun /\ Authorized(req[c])
    <3>1. PICK c \in Conn : /\ req[c] \in Requests[c] /\ req[c].path[1] = "api"
                            /\ req[c].run = JobRun /\ Authorized(req[c])
      BY <2>2 DEF ServerInv, RunsOK
    <3>2. req[c] # NoRequest
      BY <3>1, RequestsAssumption DEF Conn
    <3> QED BY <3>1, <3>2
  <2> QED BY <2>1, <2>2 DEF OnlyAllowedEffects
<1> QED BY ServerInvariance, <1>1, PTL

(* A client is told the truth about its run while the answer is on its     *)
(* way, whatever the runs and the other clients do meanwhile.              *)
THEOREM ClientsAreToldTheTruth == Spec => []AnswersTrue
<1>1. ServerInv => AnswersTrue
  BY DEF ServerInv, AnswersOK
<1> QED BY ServerInvariance, <1>1, PTL

-----------------------------------------------------------------------------
(* Settings                                                                *)

LEMMA NumberSetting ==
  ASSUME NEW s, Numeric(s), NEW k \in NumberKeys, NEW default \in Int
  PROVE  Setting(s, k, default) \in Int
<1>1. Lookup(s, k) \subseteq Int
  BY DEF Numeric
<1> QED BY <1>1 DEF Setting

(* A clamp changes no number that is in range.                             *)
LEMMA Clamped ==
  ASSUME NEW least \in Int, NEW n \in Int
  PROVE  AtLeast(least, n) >= least /\ (n >= least => AtLeast(least, n) = n)
BY DEF AtLeast

(* The validator looks only at values that are set; so do its checks of    *)
(* the numbers bound those that are used, unless the default is.           *)
LEMMA NotBelow ==
  ASSUME NEW s, Numeric(s), NEW k \in NumberKeys, NEW least \in Int, NEW default \in Int,
         default >= least, NEW keys, k \in keys, Below(s, keys, least) = {}
  PROVE  AtLeast(least, Setting(s, k, default)) = Setting(s, k, default)
<1>1. \A v \in Lookup(s, k) : v \in Int /\ ~(v < least)
  BY DEF Below, Numeric
<1>2. Setting(s, k, default) \in Int /\ Setting(s, k, default) >= least
  BY <1>1 DEF Setting
<1> QED BY <1>2, Clamped

LEMMA SettingsUsable ==
  ASSUME NEW s, Numeric(s)
  PROVE  Usable(s)
<1> DEFINE port    == Setting(s, "server.port", 8070)
           threads == Setting(s, "server.worker_threads", 4)
           tick    == Setting(s, "jobs.scheduler_tick_seconds", 30)
           bytes   == Setting(s, "plugins.upload.max_bytes", 2^25)
<1>0. /\ {"server.port", "server.worker_threads", "jobs.scheduler_tick_seconds"} \subseteq NumberKeys
      /\ {"workflow.max_concurrent_runs", "workflow.max_queued_runs"} \subseteq NumberKeys
      /\ {"workflow.circuit_breaker.failure_threshold",
          "workflow.circuit_breaker.success_threshold"} \subseteq NumberKeys
  BY DEF NumberKeys
<1>1. port \in Int /\ threads \in Int /\ tick \in Int
  BY <1>0, NumberSetting
<1>2. bytes \in Int
  <2>1. 2^25 \in Int /\ "plugins.upload.max_bytes" \in NumberKeys
    BY DEF NumberKeys
  <2> QED BY <2>1, NumberSetting
<1>3. /\ Setting(s, "workflow.max_concurrent_runs", 4) \in Int
      /\ Setting(s, "workflow.max_queued_runs", 64) \in Int
      /\ Setting(s, "workflow.circuit_breaker.failure_threshold", 5) \in Int
      /\ Setting(s, "workflow.circuit_breaker.success_threshold", 1) \in Int
  BY <1>0, NumberSetting
<1>4. port % 2^16 >= 0 /\ port % 2^16 < 2^16
  <2> HIDE DEF port
  <2> QED BY <1>1
<1>5. SchedulerTick(s) >= 1
  <2> SUFFICES (IF tick > 0 THEN tick ELSE 30) >= 1
    BY DEF SchedulerTick
  <2> HIDE DEF tick
  <2> QED BY <1>1
<1>6. UploadLimit(s) >= 1
  BY <1>2, Clamped DEF UploadLimit, MaxBytes
<1>7. /\ WorkerPool(s) >= 1
      /\ ServerConfig(s).port >= 0 /\ ServerConfig(s).port < 2^16
  <2>1. ServerConfig(s).threads = AtLeast(1, threads) /\ ServerConfig(s).port = port % 2^16
    BY DEF ServerConfig
  <2>2. ServerConfig(s).threads \in Nat \ {0}
    <3> HIDE DEF threads
    <3> QED BY <1>1, <2>1 DEF AtLeast
  <2>3. WorkerPool(s) \in Nat \ {0}
    BY <2>2, PoolOf DEF WorkerPool
  <2> QED BY <1>4, <2>1, <2>3
<1>8. /\ QueueOptions(s).maxConcurrent >= 1 /\ QueueOptions(s).maxQueued >= 0
      /\ EngineOptions(s).failureThreshold >= 1 /\ EngineOptions(s).successThreshold >= 1
  BY <1>3, Clamped DEF QueueOptions, EngineOptions
<1> QED BY <1>5, <1>6, <1>7, <1>8 DEF Usable

LEMMA SettingsGuardUploads ==
  ASSUME NEW s
  PROVE  UploadsGuarded(s)
BY DEF UploadsGuarded, UploadsEnabled, UploadErrors

LEMMA SettingsUsedAsWritten ==
  ASSUME NEW s, Numeric(s), Accepts(s)
  PROVE  UsedAsWritten(s)
<1>1. /\ ServerErrors(s) = {} /\ UploadErrors(s) = {} /\ LoggingErrors(s) = {}
      /\ WorkflowErrors(s) = {}
  BY DEF Accepts
<1>2. ServerConfig(s).port = Setting(s, "server.port", 8070)
  <2> DEFINE port == Setting(s, "server.port", 8070)
  <2>1. \A v \in Lookup(s, "server.port") : v \in Int /\ ~(v < 1 \/ v > 65535)
    <3>1. \A v \in Lookup(s, "server.port") : ~(v < 1 \/ v > 65535)
      BY <1>1 DEF ServerErrors
    <3> QED BY <3>1 DEF Numeric, NumberKeys
  <2>2. port \in Int /\ 1 <= port /\ port <= 65535
    BY <2>1 DEF Setting
  <2>3. port % 2^16 = port
    <3> HIDE DEF port
    <3> QED BY <2>2
  <2> QED BY <2>3 DEF ServerConfig
<1>3. LET workers == Setting(s, "server.worker_threads", 4)
      IN  workers < UIntValues => WorkerPool(s) = workers
  <2> DEFINE workers == Setting(s, "server.worker_threads", 4)
  <2>1. Below(s, {"server.worker_threads"}, 1) = {}
    BY <1>1 DEF ServerErrors
  <2>2. "server.worker_threads" \in NumberKeys
    BY DEF NumberKeys
  <2>3. workers \in Int /\ AtLeast(1, workers) = workers
    BY <2>1, <2>2, NotBelow, NumberSetting
  <2>4. ServerConfig(s).threads = AtLeast(1, workers)
    BY DEF ServerConfig
  <2> HIDE DEF workers
  <2>5. workers \in Nat \ {0}
    BY <2>3 DEF AtLeast
  <2>6. WorkerPool(s) = AtLeast(1, workers % UIntValues)
    BY <2>3, <2>4 DEF WorkerPool
  <2>7. workers < UIntValues => WorkerPool(s) = workers
    BY <2>5, <2>6, PoolOf
  <2> QED BY <2>7 DEF workers
<1> DEFINE Positive == {"workflow.max_concurrent_runs", "workflow.circuit_breaker.failure_threshold",
                        "workflow.circuit_breaker.success_threshold"}
           Natural == {"workflow.default_timeout_ms", "jobs.max_runs", "workflow.max_queued_runs",
                       "server.max_wait_ms", "workflow.circuit_breaker.reset_timeout_ms"}
<1>4. Below(s, Positive, 1) = {} /\ Below(s, Natural, 0) = {}
  BY <1>1 DEF WorkflowErrors
<1>5. \A k \in Positive : k \in NumberKeys
  BY DEF NumberKeys
<1>6. \A k \in Natural : k \in NumberKeys
  BY DEF NumberKeys
<1>7. \A k \in Positive : \A default \in Int : default >= 1 =>
        AtLeast(1, Setting(s, k, default)) = Setting(s, k, default)
  <2> HIDE DEF Positive
  <2> QED BY <1>4, <1>5, NotBelow
<1>8. \A k \in Natural : \A default \in Int : default >= 0 =>
        AtLeast(0, Setting(s, k, default)) = Setting(s, k, default)
  <2> HIDE DEF Natural
  <2> QED BY <1>4, <1>6, NotBelow
<1>9. UploadLimit(s) = MaxBytes(s)
  <2>1. 2^25 \in Int /\ "plugins.upload.max_bytes" \in NumberKeys
    BY DEF NumberKeys
  <2>2. MaxBytes(s) \in Int
    BY <2>1, NumberSetting DEF MaxBytes
  <2>3. ~(MaxBytes(s) <= 0)
    BY <1>1 DEF UploadErrors
  <2> QED BY <2>2, <2>3, Clamped DEF UploadLimit
<1>10. LogLevel(s) = Setting(s, "logging.level", "info")
  <2>1. \A v \in Lookup(s, "logging.level") : v \in LogLevels
    BY <1>1 DEF LoggingErrors, ValidLevels, LogLevels
  <2>2. Setting(s, "logging.level", "info") \in LogLevels
    <3>1. "info" \in LogLevels
      BY DEF LogLevels
    <3> QED BY <2>1, <3>1 DEF Setting
  <2> QED BY <2>2 DEF LogLevel
<1>11. /\ QueueOptions(s).maxConcurrent = Setting(s, "workflow.max_concurrent_runs", 4)
       /\ EngineOptions(s).failureThreshold =
            Setting(s, "workflow.circuit_breaker.failure_threshold", 5)
       /\ EngineOptions(s).successThreshold =
            Setting(s, "workflow.circuit_breaker.success_threshold", 1)
  BY <1>7 DEF QueueOptions, EngineOptions
<1>12. /\ QueueOptions(s).maxQueued = Setting(s, "workflow.max_queued_runs", 64)
       /\ QueueOptions(s).maxRuns = Setting(s, "jobs.max_runs", 10000)
       /\ EngineOptions(s).stepTimeout = Setting(s, "workflow.default_timeout_ms", 0)
       /\ EngineOptions(s).resetTimeout =
            Setting(s, "workflow.circuit_breaker.reset_timeout_ms", 30000)
       /\ ServerConfig(s).maxWait = Setting(s, "server.max_wait_ms", 60000)
  BY <1>8 DEF QueueOptions, EngineOptions, ServerConfig
<1> QED BY <1>2, <1>3, <1>9, <1>10, <1>11, <1>12 DEF UsedAsWritten

(* A file that is empty leaves every setting at its default, and so does   *)
(* none, since the built-in file says what the defaults say.               *)
LEMMA EmptyFile ==
  ASSUME NEW k, NEW default
  PROVE  Setting(Unset, k, default) = default
<1>1. Unset.env = <<>> /\ Unset.file = {<<>>} /\ DOMAIN <<>> = {}
  BY DEF Unset
<1>2. Root(Unset) = <<>>
  BY <1>1 DEF Root
<1>3. Lookup(Unset, k) = {}
  BY <1>1, <1>2 DEF Lookup
<1> QED BY <1>3 DEF Setting

NoFile == [Unset EXCEPT !.file = {}]

LEMMA MissingFile ==
  ASSUME NEW k, NEW default, k \in DefaultKeys => DefaultRoot[k] = {default}
  PROVE  Setting(NoFile, k, default) = default
<1>1. NoFile.env = <<>> /\ NoFile.file = {} /\ DOMAIN <<>> = {}
  BY DEF NoFile, Unset
<1>2. Root(NoFile) = DefaultRoot /\ DOMAIN DefaultRoot = DefaultKeys
  BY <1>1 DEF Root, DefaultRoot
<1>3. Lookup(NoFile, k) = IF k \in DefaultKeys THEN DefaultRoot[k] ELSE {}
  BY <1>1, <1>2 DEF Lookup
<1>4. Lookup(NoFile, k) = {} \/ Lookup(NoFile, k) = {default}
  BY <1>3
<1>5. {default} # {} /\ (CHOOSE x \in {default} : TRUE) = default
  OBVIOUS
<1> QED BY <1>4, <1>5 DEF Setting

LEMMA DefaultValues ==
  /\ DefaultRoot["server.port"] = {8070} /\ DefaultRoot["server.worker_threads"] = {4}
  /\ DefaultRoot["server.host"] = {Localhost}
  /\ DefaultRoot["plugins.directory"] = {<<"commands">>}
  /\ DefaultRoot["admin.enabled"] = {TRUE} /\ DefaultRoot["admin.auth_required"] = {TRUE}
  /\ DefaultRoot["server.api_token"] = {NoText} /\ DefaultRoot["admin.password"] = {NoText}
  /\ DefaultRoot["jobs.scheduler_tick_seconds"] = {30}
<1> USE DEF DefaultRoot, DefaultKeys
<1>1. DefaultRoot["server.port"] = {8070}
  OBVIOUS
<1>2. DefaultRoot["server.worker_threads"] = {4}
  OBVIOUS
<1>3. DefaultRoot["server.host"] = {Localhost}
  OBVIOUS
<1>4. DefaultRoot["plugins.directory"] = {<<"commands">>}
  OBVIOUS
<1>5. DefaultRoot["admin.enabled"] = {TRUE} /\ DefaultRoot["admin.auth_required"] = {TRUE}
  OBVIOUS
<1>6. DefaultRoot["server.api_token"] = {NoText} /\ DefaultRoot["admin.password"] = {NoText}
  OBVIOUS
<1>7. DefaultRoot["jobs.scheduler_tick_seconds"] = {30}
  OBVIOUS
<1> HIDE DEF DefaultRoot, DefaultKeys
<1> QED BY <1>1, <1>2, <1>3, <1>4, <1>5, <1>6, <1>7

LEMMA SameOptions == Options(NoFile) = Options(Unset)
<1>1. /\ DefaultRoot["server.host"] = {Localhost}
      /\ DefaultRoot["plugins.directory"] = {<<"commands">>}
      /\ DefaultRoot["admin.enabled"] = {TRUE} /\ DefaultRoot["admin.auth_required"] = {TRUE}
  BY DefaultValues
<1>2. /\ DefaultRoot["server.port"] = {8070} /\ DefaultRoot["server.worker_threads"] = {4}
      /\ DefaultRoot["server.api_token"] = {NoText} /\ DefaultRoot["admin.password"] = {NoText}
  BY DefaultValues
<1>3. /\ "server.max_wait_ms" \notin DefaultKeys
      /\ "workflow.max_concurrent_runs" \notin DefaultKeys
      /\ "workflow.max_queued_runs" \notin DefaultKeys /\ "jobs.max_runs" \notin DefaultKeys
      /\ "plugins.upload.enabled" \notin DefaultKeys
      /\ "plugins.upload.directory" \notin DefaultKeys
      /\ "plugins.upload.public_keys" \notin DefaultKeys
  BY DEF DefaultKeys
<1>4. ASSUME NEW k, NEW default, k \in DefaultKeys => DefaultRoot[k] = {default}
      PROVE  Setting(NoFile, k, default) = Setting(Unset, k, default)
  BY <1>4, EmptyFile, MissingFile
<1>5. /\ Setting(NoFile, "server.port", 8070) = Setting(Unset, "server.port", 8070)
      /\ Setting(NoFile, "server.worker_threads", 4) = Setting(Unset, "server.worker_threads", 4)
      /\ Setting(NoFile, "server.host", Localhost) = Setting(Unset, "server.host", Localhost)
      /\ Setting(NoFile, "server.max_wait_ms", 60000) = Setting(Unset, "server.max_wait_ms", 60000)
  BY <1>1, <1>2, <1>3, <1>4
<1>6. /\ Setting(NoFile, "server.api_token", NoText) = Setting(Unset, "server.api_token", NoText)
      /\ Setting(NoFile, "admin.password", NoText) = Setting(Unset, "admin.password", NoText)
  BY <1>2, <1>4
<1>7. /\ Setting(NoFile, "admin.enabled", TRUE) = Setting(Unset, "admin.enabled", TRUE)
      /\ Setting(NoFile, "admin.auth_required", TRUE) = Setting(Unset, "admin.auth_required", TRUE)
      /\ Setting(NoFile, "plugins.upload.enabled", FALSE) = Setting(Unset, "plugins.upload.enabled", FALSE)
  BY <1>1, <1>3, <1>4
<1>8. QueueOptions(NoFile) = QueueOptions(Unset)
  BY <1>3, <1>4 DEF QueueOptions
<1>9. ServerConfig(NoFile) = ServerConfig(Unset) /\ WorkerPool(NoFile) = WorkerPool(Unset)
  <2>1. ServerConfig(NoFile) = ServerConfig(Unset)
    BY <1>5, <1>6 DEF ServerConfig
  <2> QED BY <2>1, Zenon DEF WorkerPool
<1>10. AdminConfig(NoFile) = AdminConfig(Unset)
  BY <1>6, <1>7, Zenon DEF AdminConfig
<1>11. UploadsEnabled(NoFile) = UploadsEnabled(Unset)
  <2>1. BundledDir(NoFile) = BundledDir(Unset)
    BY <1>1, <1>4 DEF BundledDir
  <2>2. UploadDir(NoFile) = UploadDir(Unset) /\ PublicKeys(NoFile) = PublicKeys(Unset)
    BY <1>3, <1>4 DEF UploadDir, PublicKeys
  <2>3. KeyErrors(NoFile) = KeyErrors(Unset)
    BY <2>2, Zenon DEF KeyErrors
  <2> QED BY <1>7, <1>10, <2>1, <2>2, <2>3, Zenon DEF UploadsEnabled
<1> QED BY <1>8, <1>9, <1>10, <1>11, Zenon DEF Options

(* Settings that set a key or two to candidates set no number to a text.   *)
LEMMA CandidatesNumeric ==
  ASSUME NEW k \in DOMAIN Candidates, NEW l \in DOMAIN Candidates,
         NEW v \in Candidates[k], NEW w \in Candidates[l]
  PROVE  /\ Numeric([file |-> {Only(k, v)}, env |-> Only(l, w)])
         /\ Numeric([file |-> {}, env |-> Both(k, v, l, w)])
<1>1. /\ k \in NumberKeys => v \subseteq Int
      /\ l \in NumberKeys => w \subseteq Int
  BY CandidatesAssumption
<1>2. ASSUME NEW n \in NumberKeys
      PROVE  /\ n \in DOMAIN Only(k, v) => Only(k, v)[n] \subseteq Int
             /\ n \in DOMAIN Only(l, w) => Only(l, w)[n] \subseteq Int
             /\ n \in DOMAIN Both(k, v, l, w) => Both(k, v, l, w)[n] \subseteq Int
  BY <1>1 DEF Only, Both
<1>3. ASSUME NEW n \in NumberKeys
      PROVE  n \in DefaultKeys => DefaultRoot[n] \subseteq Int
  <2>1. /\ DefaultRoot["server.port"] = {8070} /\ DefaultRoot["server.worker_threads"] = {4}
        /\ DefaultRoot["jobs.scheduler_tick_seconds"] = {30}
    BY DefaultValues
  <2>2. n \in DefaultKeys => n \in {"server.port", "server.worker_threads", "jobs.scheduler_tick_seconds"}
    BY DEF NumberKeys, DefaultKeys
  <2> QED BY <2>1, <2>2
<1> DEFINE s == [file |-> {Only(k, v)}, env |-> Only(l, w)]
           t == [file |-> {}, env |-> Both(k, v, l, w)]
<1>4. Root(s) = Only(k, v) /\ s.env = Only(l, w)
  BY DEF Root
<1>5. Root(t) = DefaultRoot /\ t.env = Both(k, v, l, w) /\ DOMAIN DefaultRoot = DefaultKeys
  BY DEF Root, DefaultRoot
<1> HIDE DEF s, t
<1>6. ASSUME NEW n \in NumberKeys PROVE Lookup(s, n) \subseteq Int /\ Lookup(t, n) \subseteq Int
  BY <1>2, <1>3, <1>4, <1>5 DEF Lookup
<1> QED BY <1>6 DEF Numeric, s, t

(* The from_config functions, ConfigValidator and the rules for plugin     *)
(* uploads, for any settings that hold numbers where numbers are asked     *)
(* for.                                                                    *)
THEOREM AnySettingsAreSound ==
  ASSUME NEW s, Numeric(s)
  PROVE  Usable(s) /\ UploadsGuarded(s) /\ (Accepts(s) => UsedAsWritten(s))
BY SettingsUsable, SettingsGuardUploads, SettingsUsedAsWritten

(* main.cpp, before the server starts, for any candidates with numbers     *)
(* where numbers are asked for: what a server is started with is what it   *)
(* relies on and what the validator promised, and a server without a       *)
(* configuration file is one with an empty one.                            *)
THEOREM SettingsAreSound == Spec => []SettingsSound
<1>1. SettingsSound
  <2>1. Options([Unset EXCEPT !.file = {}]) = Options(Unset)
    BY SameOptions DEF NoFile
  <2>2. ASSUME NEW k \in DOMAIN Candidates, NEW l \in DOMAIN Candidates,
               NEW v \in Candidates[k], NEW w \in Candidates[l],
               NEW s \in {[file |-> {Only(k, v)}, env |-> Only(l, w)],
                          [file |-> {}, env |-> Both(k, v, l, w)]}
        PROVE  Usable(s) /\ UploadsGuarded(s) /\ (Accepts(s) => UsedAsWritten(s))
    <3>1. Numeric(s)
      BY CandidatesNumeric
    <3> QED BY <3>1, AnySettingsAreSound
  <2> QED BY <2>1, <2>2, Zenon DEF SettingsSound
<1> QED BY <1>1, PTL
=============================================================================
