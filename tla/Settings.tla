------------------------------ MODULE Settings ------------------------------
(***************************************************************************)
(* Configuration: how settings are read (config/YamlConfiguration.cpp),    *)
(* what each component is started with (the from_config functions and      *)
(* bootstrap_services in main.cpp), and what ConfigValidator says of them. *)
(*                                                                         *)
(* The settings of a server are a record: file, the set that holds the     *)
(* contents of orcha.yaml, empty when there is none or it does not parse;  *)
(* env, the ORCHA_ variables.  Both map keys to sets of at most one value, *)
(* where {} is a text that is not of the type that is asked for.           *)
(* A directory is the sequence of its segments, and a host that of its     *)
(* parts between the dots; <<>> is the empty string.  A list of public     *)
(* keys is the sequence of the classes of its entries.                     *)
(***************************************************************************)
EXTENDS Integers, Sequences

CONSTANT UIntValues   \* the values of an unsigned int: 2^32

ASSUME UIntAssumption == UIntValues \in Nat \ {0}

NoText == ""   \* no text at all

AtLeast(least, n) == IF n < least THEN least ELSE n

(***************************************************************************)
(* Reading.                                                                *)
(***************************************************************************)

Localhost == <<"127", "0", "0", "1">>

(* create_default(): what holds while there is no file.                    *)
DefaultKeys ==
  {"server.host", "server.port", "server.worker_threads", "server.api_token", "logging.level",
   "plugins.directory", "admin.enabled", "admin.auth_required", "admin.password",
   "jobs.scheduler_tick_seconds"}

DefaultRoot ==
  [k \in DefaultKeys |->
     CASE k = "server.host" -> {Localhost}
       [] k = "server.port" -> {8070}
       [] k = "server.worker_threads" -> {4}
       [] k = "jobs.scheduler_tick_seconds" -> {30}
       [] k = "logging.level" -> {"info"}
       [] k = "plugins.directory" -> {<<"commands">>}
       [] k \in {"server.api_token", "admin.password"} -> {NoText}
       [] k \in {"admin.enabled", "admin.auth_required"} -> {TRUE}]

(* main() loads the file over the defaults: a file that parses replaces    *)
(* them as a whole, any other leaves them.                                 *)
Root(s) == IF s.file = {} THEN DefaultRoot ELSE CHOOSE f \in s.file : TRUE

(* navigate_to_key: a variable hides the file even if it holds no value.   *)
Lookup(s, key) ==
  IF key \in DOMAIN s.env THEN s.env[key]
  ELSE IF key \in DOMAIN Root(s) THEN Root(s)[key] ELSE {}

(* get_string, get_int and get_bool with a default.                        *)
Setting(s, key, default) ==
  LET v == Lookup(s, key) IN IF v = {} THEN default ELSE CHOOSE x \in v : TRUE

(***************************************************************************)
(* What the components are started with.                                   *)
(***************************************************************************)
IsLoopbackHost(host) ==
  \/ host \in {<<"localhost">>, <<"::1">>, <<"[::1]">>}
  \/ Len(host) > 1 /\ host[1] = "127"

ServerConfig(s) ==
  [port     |-> Setting(s, "server.port", 8070) % 2^16,
   threads  |-> AtLeast(1, Setting(s, "server.worker_threads", 4)),
   token    |-> Setting(s, "server.api_token", NoText) # NoText,
   loopback |-> IsLoopbackHost(Setting(s, "server.host", Localhost)),
   maxWait  |-> AtLeast(0, Setting(s, "server.max_wait_ms", 60000))]

(* CommandAgent::start passes the number on as an unsigned int; HttpServer *)
(* makes a pool of at least one thread.                                    *)
WorkerPool(s) == AtLeast(1, ServerConfig(s).threads % UIntValues)

AdminConfig(s) ==
  [adminEnabled |-> Setting(s, "admin.enabled", TRUE),
   authRequired |-> Setting(s, "admin.auth_required", TRUE),
   password     |-> Setting(s, "admin.password", NoText) # NoText]

(* EngineOptions, with the thresholds of every circuit breaker.            *)
EngineOptions_AsGiven(s) ==
  [stepTimeout      |-> AtLeast(0, Setting(s, "workflow.default_timeout_ms", 0)),
   failureThreshold |-> AtLeast(1, Setting(s, "workflow.circuit_breaker.failure_threshold", 5)),
   successThreshold |-> Setting(s, "workflow.circuit_breaker.success_threshold", 1),
   resetTimeout     |-> AtLeast(0, Setting(s, "workflow.circuit_breaker.reset_timeout_ms", 30000))]

EngineOptions(s) ==
  [stepTimeout      |-> AtLeast(0, Setting(s, "workflow.default_timeout_ms", 0)),
   failureThreshold |-> AtLeast(1, Setting(s, "workflow.circuit_breaker.failure_threshold", 5)),
   successThreshold |-> AtLeast(1, Setting(s, "workflow.circuit_breaker.success_threshold", 1)),
   resetTimeout     |-> AtLeast(0, Setting(s, "workflow.circuit_breaker.reset_timeout_ms", 30000))]

(* The store's limit (0 keeps every run) and the run queue's.              *)
QueueOptions(s) ==
  [maxRuns       |-> AtLeast(0, Setting(s, "jobs.max_runs", 10000)),
   maxConcurrent |-> AtLeast(1, Setting(s, "workflow.max_concurrent_runs", 4)),
   maxQueued     |-> AtLeast(0, Setting(s, "workflow.max_queued_runs", 64))]

(* The scheduler replaces a period that is not positive.                   *)
SchedulerTick(s) ==
  LET t == Setting(s, "jobs.scheduler_tick_seconds", 30) IN IF t > 0 THEN t ELSE 30

(* parse_log_level on the text in lower case; INFO for any other.          *)
LogLevels == {"trace", "debug", "info", "warn", "warning", "error", "fatal", "off"}
LogLevel(s) ==
  LET level == Setting(s, "logging.level", "info") IN IF level \in LogLevels THEN level ELSE "info"

(***************************************************************************)
(* Plugin uploads, which stay off unless every condition holds.            *)
(***************************************************************************)
BundledDir(s)  == Setting(s, "plugins.directory", <<"commands">>)
UploadDir(s)   == Setting(s, "plugins.upload.directory", <<"uploaded-plugins">>)
MaxBytes(s)    == Setting(s, "plugins.upload.max_bytes", 2^25)
PublicKeys(s)  == Setting(s, "plugins.upload.public_keys", <<>>)

(* Entries of public_keys: a "key" or a "scoped" one; "malformed", which   *)
(* from_config reports; "notakey" (not 32 bytes of base64) and "badglob",  *)
(* which only the installer's constructor finds.                           *)
KeyErrors(s) == {i \in DOMAIN PublicKeys(s) : PublicKeys(s)[i] = "malformed"}

Within(child, parent) ==
  /\ child # <<>> /\ parent # <<>>
  /\ Len(child) >= Len(parent) /\ SubSeq(child, 1, Len(parent)) = parent

Overlapping(bundled, uploaded) == Within(uploaded, bundled) \/ Within(bundled, uploaded)

UploadsEnabled(s) ==
  /\ KeyErrors(s) = {}
  /\ \A i \in DOMAIN PublicKeys(s) : PublicKeys(s)[i] \in {"key", "scoped"}
  /\ Setting(s, "plugins.upload.enabled", FALSE)
  /\ AdminConfig(s).authRequired
  /\ PublicKeys(s) # <<>>
  /\ UploadDir(s) # <<>>
  /\ ~Overlapping(BundledDir(s), UploadDir(s))

(* options.max_bytes                                                       *)
UploadLimit(s) == AtLeast(1, MaxBytes(s))

(***************************************************************************)
(* ConfigValidator: the keys it reports an error for.  A key that is not   *)
(* set, or not to a number, is not looked at.                              *)
(***************************************************************************)
Below(s, keys, least) == {k \in keys : \E v \in Lookup(s, k) : v < least}

ServerErrors(s) ==
  {k \in {"server.port"} : \E v \in Lookup(s, k) : v < 1 \/ v > 65535} \cup
  {k \in {"server.host"} : \E v \in Lookup(s, k) : v = <<>>} \cup
  Below(s, {"server.worker_threads"}, 1)

PluginErrors(s) ==
  {k \in {"plugins.directory"} : \E v \in Lookup(s, k) : v = <<>>}

UploadErrors(s) ==
  {k \in {"plugins.upload.directory"} :
     UploadDir(s) = <<>> \/ Overlapping(BundledDir(s), UploadDir(s))} \cup
  {k \in {"plugins.upload.max_bytes"} : MaxBytes(s) <= 0} \cup
  {k \in {"plugins.upload.public_keys"} :
     Setting(s, "plugins.upload.enabled", FALSE) /\ KeyErrors(s) # {}}

ValidLevels == {"trace", "debug", "info", "warn", "warning", "error", "fatal", "off"}

LoggingErrors(s) == {k \in {"logging.level"} : \E v \in Lookup(s, k) : v \notin ValidLevels}

WorkflowErrors(s) ==
  Below(s, {"workflow.max_concurrent_runs", "workflow.circuit_breaker.failure_threshold",
            "workflow.circuit_breaker.success_threshold"}, 1) \cup
  Below(s, {"workflow.default_timeout_ms", "jobs.max_runs", "workflow.max_queued_runs",
            "server.max_wait_ms", "workflow.circuit_breaker.reset_timeout_ms"}, 0)

Accepts(s) ==
  ServerErrors(s) \cup PluginErrors(s) \cup UploadErrors(s) \cup LoggingErrors(s)
    \cup WorkflowErrors(s) = {}
-----------------------------------------------------------------------------
(***************************************************************************)
(* What the settings promise.                                              *)
(***************************************************************************)

(* The keys that are asked for with get_int, which finds nothing but       *)
(* numbers.                                                                *)
NumberKeys ==
  {"server.port", "server.worker_threads", "server.max_wait_ms", "workflow.default_timeout_ms",
   "workflow.circuit_breaker.failure_threshold", "workflow.circuit_breaker.success_threshold",
   "workflow.circuit_breaker.reset_timeout_ms", "workflow.max_concurrent_runs",
   "workflow.max_queued_runs", "jobs.max_runs", "jobs.scheduler_tick_seconds",
   "plugins.upload.max_bytes"}
Numeric(s) == \A k \in NumberKeys : Lookup(s, k) \subseteq Int

Unset == [file |-> {<<>>}, env |-> <<>>]

(* Every component gets what it relies on, whatever is set: a worker for   *)
(* each pool, a runner, thresholds that can be reached, a period.          *)
Usable(s) ==
  /\ WorkerPool(s) >= 1
  /\ ServerConfig(s).port >= 0 /\ ServerConfig(s).port < 2^16
  /\ QueueOptions(s).maxConcurrent >= 1 /\ QueueOptions(s).maxQueued >= 0
  /\ EngineOptions(s).failureThreshold >= 1 /\ EngineOptions(s).successThreshold >= 1
  /\ SchedulerTick(s) >= 1 /\ UploadLimit(s) >= 1

(* Settings the validator accepts are used as they are written; it lets    *)
(* pass more workers than an unsigned int can count, which are not.        *)
UsedAsWritten(s) ==
  /\ ServerConfig(s).port = Setting(s, "server.port", 8070)
  /\ LET workers == Setting(s, "server.worker_threads", 4)
     IN  workers < UIntValues => WorkerPool(s) = workers
  /\ ServerConfig(s).maxWait = Setting(s, "server.max_wait_ms", 60000)
  /\ EngineOptions(s).stepTimeout = Setting(s, "workflow.default_timeout_ms", 0)
  /\ EngineOptions(s).failureThreshold = Setting(s, "workflow.circuit_breaker.failure_threshold", 5)
  /\ EngineOptions(s).successThreshold = Setting(s, "workflow.circuit_breaker.success_threshold", 1)
  /\ EngineOptions(s).resetTimeout = Setting(s, "workflow.circuit_breaker.reset_timeout_ms", 30000)
  /\ QueueOptions(s).maxRuns = Setting(s, "jobs.max_runs", 10000)
  /\ QueueOptions(s).maxConcurrent = Setting(s, "workflow.max_concurrent_runs", 4)
  /\ QueueOptions(s).maxQueued = Setting(s, "workflow.max_queued_runs", 64)
  /\ UploadLimit(s) = MaxBytes(s)
  /\ LogLevel(s) = Setting(s, "logging.level", "info")

(* Uploads run code in the server: they need an admin who logged in, a key *)
(* list without a mistake, and directories the validator would accept.     *)
UploadsGuarded(s) ==
  UploadsEnabled(s) =>
    /\ AdminConfig(s).authRequired /\ KeyErrors(s) = {}
    /\ UploadErrors(s) \subseteq {"plugins.upload.max_bytes"}
=============================================================================
