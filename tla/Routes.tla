------------------------------- MODULE Routes -------------------------------
(***************************************************************************)
(* What the agent does with one request before anything runs: the two      *)
(* authentication middlewares, the handlers in registration order, and the *)
(* table by which each handler turns a method and a path into an operation.*)
(*                                                                         *)
(* A request is a record: method; path, the sequence of its segments;      *)
(* auth, the class of its Authorization header; body, what parsing finds;  *)
(* prefer, the class of its Prefer header; run, the run it names.          *)
(* A decision is [op, code]: an operation to perform, or op "reply" with   *)
(* the status code that is the whole answer.                               *)
(***************************************************************************)
EXTENDS Integers, Sequences

Reply(code) == [op |-> "reply", code |-> code]
Do(op)      == [op |-> op, code |-> 0]

(* The admin surface is served unless it is switched off, or wants a       *)
(* password that is not configured.                                        *)
IsServiceable(config) == config.adminEnabled /\ (config.authRequired => config.password)

StartsWith(path, prefix) ==
  Len(path) >= Len(prefix) /\ SubSeq(path, 1, Len(prefix)) = prefix

(* Headers: "absent", a good or a bad credential of each scheme, or text   *)
(* that is neither.  A Basic header counts only if it decodes to user:pass *)
(* with both parts equal to the configured ones.                           *)
BasicOk(config, q) == q.auth = "basic" /\ config.password

BearerOk(config, q) == q.auth = "bearer" /\ config.token

(* make_api_auth, guarding /workflow.                                      *)
ApiAuth(config, q) ==
  IF ~StartsWith(q.path, <<"workflow">>) THEN Do("continue")
  ELSE IF ~config.token
       THEN IF config.loopback THEN Do("continue") ELSE Reply(503)
       ELSE IF \/ BearerOk(config, q)
               \/ IsServiceable(config) /\ config.authRequired /\ BasicOk(config, q)
            THEN Do("continue") ELSE Reply(401)

(* make_basic_auth, guarding /api/; installed with the admin routes.       *)
BasicAuth(config, q) ==
  IF \/ ~IsServiceable(config) \/ ~StartsWith(q.path, <<"api">>)
     \/ ~config.authRequired \/ BasicOk(config, q)
  THEN Do("continue") ELSE Reply(401)

(* Handlers in the order they are registered: uploads before the plugin    *)
(* routes, whose prefix contains theirs.                                   *)
Handlers(config) ==
  <<"Health", "Workflow", "Swagger">> \o
  IF IsServiceable(config)
  THEN <<"PluginUpload", "PluginAdmin", "Dashboard", "Definition", "Job", "CircuitBreaker">>
  ELSE <<>>

CanHandle(h, q) ==
  CASE h = "Health"         -> q.method = "GET" /\ q.path = <<>>
    [] h = "Workflow"       -> \/ q.method = "POST" /\ q.path = <<"workflow">>
                               \/ StartsWith(q.path, <<"workflow", "runs">>) /\ Len(q.path) > 2
    [] h = "Swagger"        -> /\ q.method = "GET"
                               /\ q.path \in {<<"swagger">>, <<"swagger.json">>, <<"sample">>, <<"commands">>}
    [] h = "PluginUpload"   -> StartsWith(q.path, <<"api", "plugins", "_uploads">>)
    [] h = "PluginAdmin"    -> StartsWith(q.path, <<"api", "plugins">>)
    [] h = "Dashboard"      -> q.method = "GET" /\ q.path = <<"admin">>
    [] h = "Definition"     -> q.path = <<"api", "definitions", "convert">>
    [] h = "Job"            -> \/ StartsWith(q.path, <<"api", "jobs">>)
                               \/ StartsWith(q.path, <<"api", "runs">>)
    [] h = "CircuitBreaker" -> StartsWith(q.path, <<"api", "circuit-breakers">>)

(* Router::route picks the first handler that accepts the request.         *)
HandlerFor(config, q) ==
  LET hs   == Handlers(config)
      hits == {i \in DOMAIN hs : CanHandle(hs[i], q)}
  IN  IF hits = {} THEN "none" ELSE hs[CHOOSE i \in hits : \A j \in hits : i <= j]

(***************************************************************************)
(* The operation tables of the handlers.                                   *)
(***************************************************************************)

(* parse_request_body and the checks of WorkflowRoute::submit.             *)
BodyVerdict(q) ==
  CASE q.body = "media"    -> Reply(415)
    [] q.body = "toolarge" -> Reply(413)
    [] q.body \in {"unparsable", "nosteps", "settings"} -> Reply(400)
    [] OTHER -> Do("submit")

(* `Prefer: wait=n' with n > 0; anything malformed is no preference.       *)
PreferredWait(q) == q.prefer = "wait"

WorkflowOp(q) ==
  IF q.path = <<"workflow">> THEN BodyVerdict(q)
  ELSE IF Len(q.path) = 3
       THEN IF q.method = "GET" THEN Do("get") ELSE Reply(405)
  ELSE IF Len(q.path) = 4 /\ q.path[4] = "cancel"
       THEN IF q.method = "POST" THEN Do("cancelVisible") ELSE Reply(405)
  ELSE Reply(404)

JobOp(q) ==
  LET n == Len(q.path) IN
  IF q.path[2] = "runs"
  THEN IF n \in {2, 3} /\ q.method = "GET" THEN Do("history")
       ELSE IF n = 4 /\ q.path[4] = "cancel" /\ q.method = "POST" THEN Do("cancel")
       ELSE Reply(405)
  ELSE CASE n = 2 -> IF q.method \in {"GET", "POST"} THEN Do("jobs") ELSE Reply(405)
         [] n = 3 -> IF q.method \in {"GET", "PUT", "DELETE"} THEN Do("jobs") ELSE Reply(405)
         [] n = 4 /\ q.path[4] = "run" /\ q.method = "POST" -> Do("runJob")
         [] n = 4 /\ q.path[4] = "runs" /\ q.method = "GET" -> Do("history")
         [] OTHER -> Reply(404)

PluginAdminOp(q) ==
  LET n == Len(q.path) IN
  CASE n = 2 -> IF q.method = "GET" THEN Do("plugins") ELSE Reply(405)
    [] n > 2 /\ q.path[3] = "_watch" ->
         IF q.method \in {"GET", "PUT"} THEN Do("watch") ELSE Reply(405)
    [] n = 3 /\ q.path[3] # "_watch" -> IF q.method = "GET" THEN Do("plugins") ELSE Reply(405)
    [] n = 4 /\ q.path[3] # "_watch" /\ q.method = "POST" ->
         IF q.path[4] \in {"reload", "disable", "enable"} THEN Do("pluginAction") ELSE Reply(404)
    [] OTHER -> Reply(404)

(* PluginUploadRoute::status_for                                           *)
UploadErrorCode(kind) ==
  CASE kind \in {"Disabled", "NotAllowed"}       -> 403
    [] kind = "Invalid"                          -> 400
    [] kind = "TooLarge"                         -> 413
    [] kind \in {"BadSignature", "LoadFailed"}   -> 422
    [] kind = "NotFound"                         -> 404
    [] kind = "Conflict"                         -> 409
    [] kind = "Internal"                         -> 500

UploadOp(config, q) ==
  LET n == Len(q.path) IN
  CASE n = 3 -> CASE q.method = "GET"  -> Do("uploads")
                  [] q.method = "POST" -> Do("stage")
                  [] OTHER             -> Reply(405)
    [] n = 4 /\ q.method = "DELETE" -> Do("uploads")
    [] n = 5 /\ q.path[5] = "install" /\ q.method = "POST" ->
         IF q.body # "ok" THEN Reply(400)
         ELSE IF config.uploads THEN Do("uploads") ELSE Reply(UploadErrorCode("Disabled"))
    [] OTHER -> Reply(404)

BreakerOp(q) ==
  LET n == Len(q.path) IN
  CASE n = 2 -> IF q.method = "GET" THEN Do("breakers") ELSE Reply(405)
    [] n = 4 /\ q.path[4] = "reset" -> IF q.method = "POST" THEN Do("breakers") ELSE Reply(405)
    [] OTHER -> Reply(404)

(* Stateless: the definition is parsed and written back in both forms.     *)
DefinitionOp(q) ==
  CASE q.method # "POST"   -> Reply(405)
    [] q.body = "media"    -> Reply(415)
    [] q.body = "toolarge" -> Reply(413)
    [] q.body \in {"ok", "nosteps", "settings"} -> Reply(200)
    [] OTHER               -> Reply(400)

OpOf(config, h, q) ==
  CASE h = "Workflow"       -> WorkflowOp(q)
    [] h = "Job"            -> JobOp(q)
    [] h = "PluginAdmin"    -> PluginAdminOp(q)
    [] h = "PluginUpload"   -> UploadOp(config, q)
    [] h = "CircuitBreaker" -> BreakerOp(q)
    [] h = "Definition"     -> DefinitionOp(q)
    [] h \in {"Health", "Swagger", "Dashboard"} -> Reply(200)
    [] OTHER                -> Reply(404)

(* CommandAgent::handle_request: middlewares, then the first handler, then *)
(* 404.                                                                    *)
Decide(config, q) ==
  LET api == ApiAuth(config, q)
      basic == BasicAuth(config, q)
  IN  IF api.op = "reply" THEN api
      ELSE IF basic.op = "reply" THEN basic
      ELSE OpOf(config, HandlerFor(config, q), q)

(***************************************************************************)
(* Outcomes of the other components as status codes.                       *)
(***************************************************************************)
SubmitErrorCode(error) ==
  CASE error = "QueueFull" -> 429 [] error = "ShuttingDown" -> 503 [] error = "StoreError" -> 500

CancelCode(outcome) ==
  CASE outcome = "NotFound" -> 404 [] outcome = "AlreadyFinished" -> 409
    [] outcome = "Cancelled" -> 200 [] outcome = "Cancelling" -> 202
    [] outcome = "NotCancellable" -> 409
=============================================================================
