------------------------------- MODULE Remote -------------------------------
(***************************************************************************)
(* The site split from its services: a browser's request works through the *)
(* calls its page makes (web), each one sent to a service over HTTP and    *)
(* answered, refused, cut short, lost or served after the page gave up.    *)
(* The exchange itself, response by response, is in Wire.                  *)
(*                                                                         *)
(* What a service decides is any of its results: the services have models  *)
(* of their own.  Only the answer about a session is tied to the state it  *)
(* speaks of, as nobody may be signed out by a failure.                    *)
(*                                                                         *)
(* Three things are left out that change no answer given here: the layout  *)
(* asks whether to show a link to the administration and goes on without   *)
(* an answer (web/render.go:80); a form over the limit is turned away      *)
(* before any write (parseForm); and the body of a stored post renders, as *)
(* its content type was checked when it was written.                       *)
(***************************************************************************)
EXTENDS Wire

CONSTANTS Requests, Tokens, None

ASSUME NoneIsNoValue ==
  /\ None \notin Tokens
  /\ None \notin Results \cup {"unread"}
  /\ None \notin Values \cup Sentinels \cup {"failure"}
  /\ None \notin Response

VARIABLES
  page,      \* page[q]: what the request asks for
  cookie,    \* cookie[q]: the session token it presents, or None
  signedIn,  \* signedIn[q]: withSession found a user
  at,        \* at[q]: the call it waits for, or how it was answered
  live,      \* tokens of sessions that have neither ended nor expired
  sent,      \* calls on their way to a service
  reply,     \* reply[c]: the response on its way back
  verdict,   \* verdict[c]: what the service decided
  applied,   \* calls whose write is stored
  told,      \* told[c]: what the page was given
  mistaken   \* history: calls whose success was not the service's to tell

vars == <<page, cookie, signedIn, at, live, sent, reply, verdict, applied, told, mistaken>>

-----------------------------------------------------------------------------
Pages == {"index", "showPost", "accountSubmit", "createPost", "updatePost",
          "setPostStatus", "deletePost"}

Steps == {"ResolveSession", "SetupOpen", "ListPosts", "UpdateProfile", "Can", "GetPost",
          "CanRead", "CreatePost", "Grant", "GrantAgain", "UpdatePost", "SetStatus",
          "PurgeResource", "DeletePost"}

Outcomes == {"200", "303", "/setup", "400", "401", "403", "404", "409", "500", "unowned", "503"}

Calls == Requests \X Steps

Op(step) ==
  CASE step = "CanRead" -> "Can"
    [] step = "GrantAgain" -> "Grant"
    [] OTHER -> step

Writes == {"UpdateProfile", "CreatePost", "Grant", "GrantAgain", "UpdatePost", "SetStatus",
           "PurgeResource", "DeletePost"}

\* A form's fields travel in these; in JSON they can outgrow what a service reads.
CarriesForm == {"UpdateProfile", "CreatePost", "UpdatePost", "SetStatus"}

\* Calls of which the page wants no response, only that there was no error.
Blind == {"Grant", "GrantAgain", "PurgeResource", "DeletePost"}

Found == {"draft", "published"}

-----------------------------------------------------------------------------
(* The pages: what each does with the answer to a call.                    *)

Index(step, got) ==
  CASE step = "SetupOpen" /\ got = "yes" -> "/setup"
    [] step = "SetupOpen" /\ got = "no" -> "ListPosts"
    [] step = "ListPosts" /\ got = "value" -> "200"
    [] OTHER -> "500"

ShowPost(step, got, user) ==
  CASE step = "GetPost" /\ got = "published" -> "200"
    [] step = "GetPost" /\ got = "draft" -> IF user THEN "CanRead" ELSE "404"
    [] step = "GetPost" /\ got = "ErrNotFound" -> "404"
    [] step = "CanRead" /\ got = "yes" -> "200"
    [] step = "CanRead" /\ got = "no" -> "404"
    [] OTHER -> "500"

AccountSubmit(got) ==
  CASE got = "value" -> "303"
    [] got = "ErrInvalidInput" -> "400"
    [] got = "ErrConflict" -> "409"
    [] OTHER -> "500"

RequirePermissionUnlessRefused(got, next) == IF got = "no" THEN "403" ELSE next
RequirePermission(got, next) ==
  CASE got = "yes" -> next
    [] got = "no" -> "403"
    [] OTHER -> "500"

AuthorizePost(step, got, next) ==
  CASE step = "Can" -> RequirePermission(got, "GetPost")
    [] step = "GetPost" /\ got \in Found -> next
    [] step = "GetPost" /\ got = "ErrNotFound" -> "404"
    [] OTHER -> "500"

PostFormErrorAsInput(got) == "400"
PostFormError(got) == IF got = "ErrInvalidInput" THEN "400" ELSE "500"

GrantUntilDone(step, got) == IF got = "value" THEN "303" ELSE step
GrantPostOwnership(step, got) ==
  CASE got = "value" -> "303"
    [] got # "value" /\ step = "Grant" -> "GrantAgain"
    [] OTHER -> "unowned"

CreatePost(step, got) ==
  CASE step = "Can" -> RequirePermission(got, "CreatePost")
    [] step = "CreatePost" -> IF got = "value" THEN "Grant" ELSE PostFormError(got)
    [] OTHER -> GrantPostOwnership(step, got)

UpdatePost(step, got) ==
  CASE step = "UpdatePost" -> IF got = "value" THEN "303" ELSE PostFormError(got)
    [] OTHER -> AuthorizePost(step, got, "UpdatePost")

SetPostStatus(step, got) ==
  CASE step = "SetStatus" /\ got = "value" -> "303"
    [] step = "SetStatus" /\ got = "ErrInvalidInput" -> "400"
    [] OTHER -> AuthorizePost(step, got, "SetStatus")

DeletePost(step, got) ==
  CASE step = "PurgeResource" /\ got = "value" -> "DeletePost"
    [] step = "DeletePost" /\ got = "value" -> "303"
    [] OTHER -> AuthorizePost(step, got, "PurgeResource")

\* Where a page begins; requireUser turns a form away without a session.
First(p, user) ==
  CASE p = "index" -> "SetupOpen"
    [] p = "showPost" -> "GetPost"
    [] p = "accountSubmit" -> IF user THEN "UpdateProfile" ELSE "401"
    [] OTHER -> IF user THEN "Can" ELSE "401"

\* withSession: only a session the service does not know makes the visitor
\* anonymous, and has the cookie cleared.
Resolve(p, got) ==
  CASE got = "value" -> First(p, TRUE)
    [] got = "ErrNotFound" -> First(p, FALSE)
    [] OTHER -> "503"

After(p, step, got, user) ==
  CASE step = "ResolveSession" -> Resolve(p, got)
    [] step # "ResolveSession" /\ p = "index" -> Index(step, got)
    [] step # "ResolveSession" /\ p = "showPost" -> ShowPost(step, got, user)
    [] step # "ResolveSession" /\ p = "accountSubmit" -> AccountSubmit(got)
    [] step # "ResolveSession" /\ p = "createPost" -> CreatePost(step, got)
    [] step # "ResolveSession" /\ p = "updatePost" -> UpdatePost(step, got)
    [] step # "ResolveSession" /\ p = "setPostStatus" -> SetPostStatus(step, got)
    [] step # "ResolveSession" /\ p = "deletePost" -> DeletePost(step, got)

-----------------------------------------------------------------------------
Init ==
  /\ page = [q \in Requests |-> None]
  /\ cookie = [q \in Requests |-> None]
  /\ signedIn = [q \in Requests |-> FALSE]
  /\ at = [q \in Requests |-> "browser"]
  /\ live = Tokens
  /\ sent = {}
  /\ reply = [c \in Calls |-> None]
  /\ verdict = [c \in Calls |-> None]
  /\ applied = {}
  /\ told = [c \in Calls |-> None]
  /\ mistaken = {}

\* at[q] becomes next; when that is a call, it is sent.
Go(q, next, before) ==
  /\ at' = [at EXCEPT ![q] = next]
  /\ sent' = before \cup ({<<q, next>>} \cap Calls)

Begin(q) ==
  /\ at[q] = "browser"
  /\ \E p \in Pages, token \in Tokens \cup {None} :
       /\ page' = [page EXCEPT ![q] = p]
       /\ cookie' = [cookie EXCEPT ![q] = token]
       /\ Go(q, IF token = None THEN First(p, FALSE) ELSE "ResolveSession", sent)
  /\ UNCHANGED <<signedIn, live, reply, verdict, applied, told, mistaken>>

\* The service's handler runs, whether or not the page still waits.  A session
\* is found while it lives; a write that fails may have been stored.
Serve(q, step) ==
  LET c == <<q, step>>
      response(result) == API(Op(step), result)
  IN /\ c \in sent
     /\ sent' = sent \ {c}
     /\ \E result \in ResultsOf(Op(step)) :
          /\ step = "ResolveSession" /\ result # "failure"
               => (result = "value" <=> cookie[q] \in live)
          /\ verdict' = [verdict EXCEPT ![c] = result]
          /\ \/ applied' = applied \cup {c}
                /\ step \in Writes
                /\ result \in {"value", "failure"}
             \/ applied' = applied
                /\ ~(step \in Writes /\ result = "value")
          /\ reply' = [reply EXCEPT ![c] = IF at[q] = step THEN response(result) ELSE None]
     /\ UNCHANGED <<page, cookie, signedIn, at, live, told, mistaken>>

\* The handler turns the body away before the service sees it.
Unread(q, step) ==
  LET c == <<q, step>>
  IN /\ c \in sent
     /\ step \in CarriesForm
     /\ sent' = sent \ {c}
     /\ verdict' = [verdict EXCEPT ![c] = "unread"]
     /\ reply' = [reply EXCEPT ![c] = IF at[q] = step THEN Unreadable ELSE None]
     /\ UNCHANGED <<page, cookie, signedIn, at, live, applied, told, mistaken>>

\* The page goes on with what the call came to.  A later response has no reader.
Continue(q, got, before) ==
  /\ told' = [told EXCEPT ![<<q, at[q]>>] = got]
  /\ signedIn' = [signedIn EXCEPT ![q] = @ \/ (at[q] = "ResolveSession" /\ got = "value")]
  /\ reply' = [reply EXCEPT ![<<q, at[q]>>] = None]
  /\ Go(q, After(page[q], at[q], got, signedIn[q]), before)
  /\ UNCHANGED <<page, cookie, live, verdict, applied>>

\* The page of something else under status 200: the default page of a proxy, or
\* what a redirect leads to.
OtherPage == [status |-> 200, json |-> FALSE, body |-> "other"]

Receive(q) ==
  LET c == <<q, at[q]>>
      got == Remote(Op(at[q]), reply[c])
  IN /\ at[q] \in Steps
     /\ reply[c] # None
     /\ mistaken' = IF reply[c] = OtherPage /\ got \in Values THEN mistaken \cup {c} ELSE mistaken
     /\ Continue(q, got, sent)

\* Refused, reset or timed out: the service may never see the call, or see it
\* after the page has gone on.
CallFails(q) ==
  /\ at[q] \in Steps
  /\ \E before \in {sent, sent \ {<<q, at[q]>>}} : Continue(q, "failure", before)
  /\ UNCHANGED mistaken

\* What something in between answers in the service's place.  Two answers that
\* pass for the service's own are left out, and nothing here is claimed of them: a
\* well-formed envelope of a code under the status of that code, and, where a
\* response is wanted, a 200 with JSON that decodes: without the fields it should
\* have it comes out as an empty user or post, or as "no".
Foreign ==
  {OtherPage,
   [status |-> 502, json |-> FALSE, body |-> "other"],
   [status |-> 503, json |-> FALSE, body |-> "other"],
   [status |-> 404, json |-> FALSE, body |-> "other"],
   [status |-> 404, json |-> TRUE, body |-> "other"],
   [status |-> 500, json |-> TRUE, body |-> "not_found"]}

Interpose(q) ==
  /\ at[q] \in Steps
  /\ \E response \in Foreign :
       reply' = [reply EXCEPT ![<<q, at[q]>>] = response]
  /\ UNCHANGED <<page, cookie, signedIn, at, live, sent, verdict, applied, told, mistaken>>

CutShort(q) ==
  LET c == <<q, at[q]>>
  IN /\ at[q] \in Steps
     /\ reply[c] # None
     /\ reply' = [reply EXCEPT ![c] = [@ EXCEPT !.body = "other"]]
     /\ UNCHANGED <<page, cookie, signedIn, at, live, sent, verdict, applied, told, mistaken>>

\* Signing out, expiry, a changed password, a deleted account.
EndSession(token) ==
  /\ live' = live \ {token}
  /\ token \in live
  /\ UNCHANGED <<page, cookie, signedIn, at, sent, reply, verdict, applied, told, mistaken>>

Settle(q) == Receive(q) \/ CallFails(q)

Next ==
  \/ \E q \in Requests :
       Begin(q) \/ Receive(q) \/ CallFails(q) \/ Interpose(q) \/ CutShort(q)
  \/ \E q \in Requests, step \in Steps : Serve(q, step) \/ Unread(q, step)
  \/ \E token \in Tokens : EndSession(token)

\* The client's timeout settles every call.
Fairness == \A q \in Requests : WF_vars(Settle(q))

Spec == Init /\ [][Next]_vars /\ Fairness

-----------------------------------------------------------------------------
TypeOK ==
  /\ page \in [Requests -> Pages \cup {None}]
  /\ cookie \in [Requests -> Tokens \cup {None}]
  /\ signedIn \in [Requests -> BOOLEAN]
  /\ at \in [Requests -> Steps \cup Outcomes \cup {"browser"}]
  /\ live \subseteq Tokens
  /\ sent \subseteq Calls
  /\ reply \in [Calls -> Response \cup {None}]
  /\ verdict \in [Calls -> Results \cup {"unread", None}]
  /\ applied \subseteq Calls
  /\ told \in [Calls -> Values \cup Sentinels \cup {"failure", None}]
  /\ mistaken \subseteq Calls

\* Whoever presents a session that still lives is either signed in or told that
\* sign-in is unavailable: never treated as a stranger, with the cookie cleared,
\* because the identity service did not answer, or something in Foreign did
\* (web/session.go:26, web/remote).
NobodyIsSignedOutByAFailure ==
  \A q \in Requests :
    /\ cookie[q] \in live
    /\ at[q] \notin {"browser", "ResolveSession", "503"}
    => signedIn[q]

\* Nothing guarded is stored, or even asked for, and no draft is shown, unless the
\* authorization service really said yes to this request (web/guard.go).
NothingWithoutPermission ==
  \A q \in Requests :
    /\ \A step \in Writes \ {"UpdateProfile"} :
         <<q, step>> \in applied \cup sent => verdict[<<q, "Can">>] = "yes"
    /\ page[q] = "showPost" /\ at[q] = "200" /\ verdict[<<q, "GetPost">>] = "draft"
         => verdict[<<q, "CanRead">>] = "yes"

Stored(q) == {step \in Writes : <<q, step>> \in applied}
Pending(q) == {step \in Writes : <<q, step>> \in sent}

\* The calls of which something else, not the service, told the page that they
\* succeeded.
Mistaken(q) == {step \in Steps : <<q, step>> \in mistaken}

\* What a visitor is told is so, but for calls that something else answered with a
\* page under status 200 (pkg/httpx/client.go:127 takes it for the service's success
\* where no response is wanted: deletePost, and the grants of createPost).  A form
\* that succeeded has all its other writes stored; one that was turned away has
\* stored nothing, and nothing of it is still on its way to a service; the message
\* of createPost that the post was saved is true, and a visitor sent to set the
\* instance up was sent because it has no accounts.
AnswersAreTrue ==
  \A q \in Requests :
    /\ at[q] = "303" =>
         CASE page[q] = "accountSubmit" -> "UpdateProfile" \in Stored(q)
           [] page[q] = "createPost" ->
                /\ "CreatePost" \in Stored(q)
                /\ (Stored(q) \cup Mistaken(q)) \cap {"Grant", "GrantAgain"} # {}
           [] page[q] = "updatePost" -> "UpdatePost" \in Stored(q)
           [] page[q] = "setPostStatus" -> "SetStatus" \in Stored(q)
           [] page[q] = "deletePost" ->
                {"PurgeResource", "DeletePost"} \subseteq Stored(q) \cup Mistaken(q)
    /\ at[q] = "/setup" => verdict[<<q, "SetupOpen">>] = "yes"
    /\ at[q] = "unowned" => "CreatePost" \in Stored(q)
    /\ at[q] \in {"400", "401", "403", "404", "409", "503"} => Stored(q) \cup Pending(q) = {}

\* Each call keeps the contract of Exchange: the page is told of the service's own
\* verdict in the words the single binary has for it, or of a failure.  The one
\* thing else it may be told is a success that something in between made up, and
\* only of a call whose caller wants no response: no refusal, no yes and no post is
\* ever made up by anything in Foreign.
InOneProcess(c, v) == IF v = "unread" THEN "ErrInvalidInput" ELSE Direct(Op(c[2]), v)

Contract == INSTANCE Exchange WITH
  Verdicts <- Results \cup {"unread"},
  Plainly <- InOneProcess,
  Unheard <- Requests \X Blind

CallsKeepTheirContract == Contract!Spec

\* Every page is answered, whatever becomes of the services (pkg/httpx/client.go:61-64).
EveryPageIsAnswered == \A q \in Requests : at[q] \in Steps ~> at[q] \in Outcomes
=============================================================================
