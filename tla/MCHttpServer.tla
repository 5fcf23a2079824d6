---------------------------- MODULE MCHttpServer ----------------------------
(* A small server for TLC: at most two workers, three connections.         *)
EXTENDS HttpServer, TLC
Ask(method, path, auth, body, prefer, r) ==
  [method |-> method, path |-> path, auth |-> auth, body |-> body, prefer |-> prefer, run |-> r]

Submit(auth, prefer) == Ask("POST", <<"workflow">>, auth, "ok", prefer, 1)

Cancel(r) == Ask("POST", <<"workflow", "runs", "id", "cancel">>, "bearer", "ok", "none", r)

Upload(body) == Ask("POST", <<"api", "plugins", "_uploads">>, "basic", body, "none", 1)

(* Submissions that wait, one that is not authorized, uploads, and a poll  *)
(* or a cancel, of a client's run or of the job's through each API.        *)
SomeRequests ==
  <<{Submit("bearer", "wait")},
    {Submit("bearer", "wait"), Upload("unsigned")},
    {Submit("absent", "none"), Upload("ok"),
     Ask("GET", <<"workflow", "runs", "id">>, "bearer", "ok", "none", 1),
     Cancel(1), Cancel(JobRun),
     Ask("POST", <<"api", "runs", "id", "cancel">>, "basic", "ok", "none", JobRun)}>>

(* Two workers, token and password; the defaults with a single worker and  *)
(* no room in the queue; everything open, which serves no workflows.       *)
Everywhere == <<"0", "0", "0", "0">>
SomeConfigs ==
  {[file |-> {"server.worker_threads" :> {2} @@ "server.host" :> {Everywhere} @@
              "server.api_token" :> {"a"} @@ "admin.password" :> {"b"} @@
              "plugins.upload.enabled" :> {TRUE} @@ "plugins.upload.public_keys" :> {<<"key">>} @@
              "workflow.max_concurrent_runs" :> {2} @@ "workflow.max_queued_runs" :> {1}},
    env  |-> <<>>],
   [file |-> {},
    env  |-> "server.worker_threads" :> {0} @@ "workflow.max_concurrent_runs" :> {1} @@
             "workflow.max_queued_runs" :> {-1}],
   [file |-> {"server.host" :> {Everywhere} @@ "server.api_token" :> {"a"} @@
              "plugins.upload.enabled" :> {TRUE} @@ "plugins.upload.public_keys" :> {<<"key">>}},
    env  |-> "server.worker_threads" :> {2} @@ "server.api_token" :> {""} @@
             "admin.auth_required" :> {FALSE}]}

(* More workers than an unsigned int can count (8 values stand for 2^32).  *)
WideConfig ==
  {[file |-> {"server.worker_threads" :> {8} @@ "workflow.max_concurrent_runs" :> {2}}, env |-> <<>>]}

(* Around every bound the code compares a setting with or cuts it to.      *)
Counts == {{}, {-1}, {0}, {1}, {2}}
SomeCandidates ==
  "server.port" :> {{0}, {1}, {65535}, {65536}} @@ "server.host" :> {{<<>>}, {Everywhere}, {<<"::1">>}, {<<"127", "1">>}} @@
  "server.worker_threads" :> Counts \cup {{7}, {8}, {9}} @@ "server.max_wait_ms" :> Counts @@
  "workflow.default_timeout_ms" :> Counts @@ "workflow.max_concurrent_runs" :> Counts @@
  "workflow.max_queued_runs" :> Counts @@ "jobs.max_runs" :> Counts @@
  "workflow.circuit_breaker.failure_threshold" :> Counts @@
  "workflow.circuit_breaker.success_threshold" :> Counts @@
  "workflow.circuit_breaker.reset_timeout_ms" :> Counts @@
  "jobs.scheduler_tick_seconds" :> Counts \cup {{60}} @@ "plugins.upload.max_bytes" :> Counts @@
  "logging.level" :> {{"warning"}, {"loud"}} @@
  "admin.auth_required" :> {{}, {FALSE}} @@ "plugins.upload.enabled" :> {{TRUE}} @@
  "plugins.directory" :> {{<<>>}, {<<"commands">>}, {<<"uploaded-plugins", "x">>}} @@
  "plugins.upload.directory" :> {{<<>>}, {<<"commands">>}, {<<"commands", "x">>}, {<<"up">>}} @@
  "plugins.upload.public_keys" :>
     {{<<"key">>}, {<<"key", "malformed">>}, {<<"notakey">>}, {<<"scoped", "badglob">>}}
=============================================================================
