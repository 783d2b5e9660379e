-------------------------------- MODULE Wire --------------------------------
(***************************************************************************)
(* What one call of the site to a service comes back as, over HTTP and in  *)
(* process: the errors each operation of a service returns, the envelope   *)
(* its API puts them in (httpapi, pkg/httpx/server.go), what the client    *)
(* makes of the response (pkg/httpx/client.go) and the sentinel the site's *)
(* adapter gives to the page (web/remote), beside the adapter of the       *)
(* single binary (app/direct.go).                                          *)
(*                                                                         *)
(* A success is "value", or, where a page looks at it, what it says.  An   *)
(* error is named by the sentinel it wraps; "failure" is any other one: a  *)
(* database, a network, a reference that does not parse.                   *)
(***************************************************************************)
EXTENDS Naturals

Values == {"value", "yes", "no", "draft", "published"}

Codes == {"not_found", "invalid_input", "conflict"}

Sentinels == {"ErrNotFound", "ErrInvalidInput", "ErrConflict"}

-----------------------------------------------------------------------------
(* What the operations of the services return.                             *)

AuthResults ==
  [ResolveSession |-> {"value", "ErrSessionNotFound", "ErrUserNotFound"},
   GetUserByRef   |-> {"value", "ErrUserNotFound"},
   ListUsers      |-> {"value"},
   UpdateProfile  |-> {"value", "ErrInvalidUsername", "ErrUserNotFound", "ErrUsernameTaken"},
   DeleteUser     |-> {"value", "ErrUserNotFound"},
   SetupOpen      |-> {"yes", "no"}]

AuthzResults ==
  [Can           |-> {"yes", "no", "ErrInvalidAction"},
   Grant         |-> {"value", "ErrInvalidAction"},
   AssignRole    |-> {"value", "ErrUnknownRole"},
   RevokeRole    |-> {"value"},
   SubjectRoles  |-> {"value"},
   ListRoles     |-> {"value"},
   PurgeResource |-> {"value"},
   PurgeSubject  |-> {"value"}]

ContentResults ==
  [GetPost    |-> {"draft", "published", "ErrPostNotFound"},
   ListPosts  |-> {"value", "ErrInvalidStatus"},
   CreatePost |-> {"value", "ErrInvalidPost", "ErrUnsupportedContent"},
   UpdatePost |-> {"value", "ErrInvalidPost", "ErrUnsupportedContent", "ErrPostNotFound"},
   SetStatus  |-> {"value", "ErrPostNotFound", "ErrInvalidStatus", "ErrInvalidTransition"},
   DeletePost |-> {"value", "ErrPostNotFound"}]

AuthOps == DOMAIN AuthResults
AuthzOps == DOMAIN AuthzResults
ContentOps == DOMAIN ContentResults

ResultsOf(op) ==
  {"failure"} \cup CASE op \in AuthOps -> AuthResults[op]
                     [] op \in AuthzOps -> AuthzResults[op]
                     [] op \in ContentOps -> ContentResults[op]

Results == Values \cup
  {"failure", "ErrSessionNotFound", "ErrUserNotFound", "ErrUsernameTaken",
   "ErrInvalidUsername", "ErrUnknownRole", "ErrInvalidAction", "ErrPostNotFound",
   "ErrInvalidPost", "ErrInvalidStatus", "ErrInvalidTransition", "ErrUnsupportedContent"}

-----------------------------------------------------------------------------
(* Classify, the one place an error becomes a code; "" is no code.         *)

AuthClassify(result) ==
  CASE result \in {"ErrSessionNotFound", "ErrUserNotFound"} -> "not_found"
    [] result = "ErrUsernameTaken" -> "conflict"
    [] result \in {"ErrInvalidUsername", "ErrPasswordTooShort", "ErrPasswordTooLong"}
         -> "invalid_input"
    [] OTHER -> ""

AuthzClassify(result) ==
  IF result \in {"ErrUnknownRole", "ErrInvalidAction"} THEN "invalid_input" ELSE ""

ContentClassify(result) ==
  CASE result = "ErrPostNotFound" -> "not_found"
    [] result \in {"ErrInvalidPost", "ErrInvalidStatus", "ErrInvalidTransition",
                   "ErrUnsupportedContent"} -> "invalid_input"
    [] OTHER -> ""

-----------------------------------------------------------------------------
(* The response of an API.  json is its content type; a body is a value, a *)
(* code in its envelope, or something that is neither.                     *)

Response == [status : Nat, json : BOOLEAN, body : Values \cup Codes \cup {"other"}]

Status(code) ==
  CASE code = "not_found" -> 404
    [] code = "invalid_input" -> 400
    [] code = "conflict" -> 409
    [] OTHER -> 500

WriteJSON(value) == [status |-> 200, json |-> TRUE, body |-> value]
WriteError(code) == [status |-> Status(code), json |-> TRUE, body |-> code]
WriteInternal == [status |-> 500, json |-> FALSE, body |-> "other"]

\* DecodeJSON refuses a body over its limit, cut short or with a field it does
\* not know, before the service is asked.
Unreadable == WriteError("invalid_input")

Respond(code, result) ==
  CASE result \in Values -> WriteJSON(result)
    [] result \notin Values /\ code \in Codes -> WriteError(code)
    [] OTHER -> WriteInternal

\* Two operations take the account out of its reference themselves.
TakesReference(op) == op \in {"UpdateProfile", "DeleteUser"}

AuthAPI(op, wellFormed, result) ==
  IF TakesReference(op) /\ ~wellFormed
  THEN WriteError("not_found")
  ELSE Respond(AuthClassify(result), result)

AuthzAPI(result) == Respond(AuthzClassify(result), result)

ContentAPI(result) == Respond(ContentClassify(result), result)

-----------------------------------------------------------------------------
(* The client: a domain failure is recognised positively or not at all.    *)

Known(code) == code \in Codes

DecodeAnyJSON(response) ==
  IF response.json /\ Known(response.body) THEN response.body ELSE "failure"
DecodeAnyStatus404(response) ==
  IF response.status = 404 THEN "not_found" ELSE DecodeAnyJSON(response)
DecodeError(response) ==
  IF response.status \in {400, 404, 409} /\ response.json /\ Known(response.body)
  THEN response.body
  ELSE "failure"

\* Without a response to fill in, any 200 is a success, whoever sent it.
Call(response, wanted) ==
  CASE response.status # 200 -> DecodeError(response)
    [] response.status = 200 /\ ~wanted -> "value"
    [] response.status = 200 /\ wanted ->
         IF response.body \in Values THEN response.body ELSE "failure"

AuthClient(op, response) == Call(response, op # "DeleteUser")

AuthzClient(op, response) == Call(response, op \in {"Can", "SubjectRoles", "ListRoles"})

ContentClient(op, response) == Call(response, op # "DeletePost")

-----------------------------------------------------------------------------
(* The site's adapters, remote and direct.                                 *)

ErrorFromCode(code) ==
  CASE code = "not_found" -> "ErrNotFound"
    [] code = "invalid_input" -> "ErrInvalidInput"
    [] code = "conflict" -> "ErrConflict"

TranslateNothing(got) == got
Translate(got) == IF got \in Codes THEN ErrorFromCode(got) ELSE got

RemoteAuth(op, response) == Translate(AuthClient(op, response))

RemoteAuthz(op, response) == Translate(AuthzClient(op, response))

RemoteContent(op, response) == Translate(ContentClient(op, response))

Remote(op, response) ==
  CASE op \in AuthOps -> RemoteAuth(op, response)
    [] op \in AuthzOps -> RemoteAuthz(op, response)
    [] op \in ContentOps -> RemoteContent(op, response)

API(op, result) ==
  CASE op \in AuthOps -> AuthAPI(op, TRUE, result)
    [] op \in AuthzOps -> AuthzAPI(result)
    [] op \in ContentOps -> ContentAPI(result)

TranslateDirect(code, result) ==
  CASE result \in Values -> result
    [] result \notin Values /\ code \in Codes -> ErrorFromCode(code)
    [] OTHER -> "failure"

DirectAuth(op, wellFormed, result) ==
  CASE TakesReference(op) /\ ~wellFormed -> "ErrNotFound"
    [] op = "SetupOpen" -> IF result \in Values THEN result ELSE "failure"
    [] OTHER -> TranslateDirect(AuthClassify(result), result)

DirectAuthz(result) == TranslateDirect(AuthzClassify(result), result)

DirectContent(result) == TranslateDirect(ContentClassify(result), result)

Direct(op, result) ==
  CASE op \in AuthOps -> DirectAuth(op, TRUE, result)
    [] op \in AuthzOps -> DirectAuthz(result)
    [] op \in ContentOps -> DirectContent(result)
=============================================================================
