---------------------------- MODULE RemoteProofs ----------------------------
(***************************************************************************)
(* Proofs about Wire and Remote, for any requests and sessions: the split  *)
(* site is told what the single binary would be told, or of a failure; a   *)
(* page of something else under status 200 can only tell it of a success   *)
(* of a call that wants no response.                                       *)
(***************************************************************************)
EXTENDS Remote, TLAPS

Answers == Values \cup Sentinels \cup {"failure"}

-----------------------------------------------------------------------------
(* The responses.                                                          *)

LEMMA OpsAre ==
  /\ AuthOps = {"ResolveSession", "GetUserByRef", "ListUsers", "UpdateProfile",
                "DeleteUser", "SetupOpen"}
  /\ AuthzOps = {"Can", "Grant", "AssignRole", "RevokeRole", "SubjectRoles", "ListRoles",
                 "PurgeResource", "PurgeSubject"}
  /\ ContentOps = {"GetPost", "ListPosts", "CreatePost", "UpdatePost", "SetStatus",
                   "DeletePost"}
BY DEF AuthOps, AuthzOps, ContentOps, AuthResults, AuthzResults, ContentResults

LEMMA ValueComesBack ==
  ASSUME NEW value \in Values, NEW wanted \in BOOLEAN
  PROVE  Call(WriteJSON(value), wanted) = IF wanted THEN value ELSE "value"
BY DEF Call, WriteJSON, Values

LEMMA CodeComesBack ==
  ASSUME NEW code \in Codes, NEW wanted \in BOOLEAN
  PROVE  Call(WriteError(code), wanted) = code
<1>1. /\ WriteError(code).status \in {400, 404, 409}
      /\ WriteError(code).json
      /\ WriteError(code).body = code
  BY DEF WriteError, Status, Codes
<1>2. QED BY <1>1 DEF Call, DecodeError, Known

LEMMA InternalComesBack ==
  ASSUME NEW wanted \in BOOLEAN
  PROVE  Call(WriteInternal, wanted) = "failure"
BY DEF Call, DecodeError, WriteInternal

LEMMA SameWords ==
  ASSUME NEW code \in Codes \cup {""}, NEW result \in Results, NEW wanted \in BOOLEAN,
         wanted \/ result \notin Values \ {"value"}
  PROVE  Translate(Call(Respond(code, result), wanted)) = TranslateDirect(code, result)
<1>1. CASE result \in Values
  <2>1. Call(Respond(code, result), wanted) = result
    BY <1>1, ValueComesBack DEF Respond
  <2>2. QED BY <1>1, <2>1 DEF Translate, TranslateDirect, Values, Codes
<1>2. CASE result \notin Values /\ code \in Codes
  <2>1. Call(Respond(code, result), wanted) = code
    BY <1>2, CodeComesBack DEF Respond
  <2>2. QED BY <1>2, <2>1 DEF Translate, TranslateDirect
<1>3. CASE result \notin Values /\ code \notin Codes
  <2>1. Call(Respond(code, result), wanted) = "failure"
    BY <1>3, InternalComesBack DEF Respond
  <2>2. QED BY <1>3, <2>1 DEF Translate, TranslateDirect, Codes
<1>4. QED BY <1>1, <1>2, <1>3

LEMMA ResultsAreResults ==
  ASSUME NEW op \in AuthOps \cup AuthzOps \cup ContentOps
  PROVE  ResultsOf(op) \subseteq Results
BY OpsAre DEF ResultsOf, AuthResults, AuthzResults, ContentResults, Results, Values

LEMMA ClassifyTypes ==
  ASSUME NEW result
  PROVE  /\ AuthClassify(result) \in Codes \cup {""}
         /\ AuthzClassify(result) \in Codes \cup {""}
         /\ ContentClassify(result) \in Codes \cup {""}
BY DEF AuthClassify, AuthzClassify, ContentClassify, Codes

\* The split site is told of an identity call what the single binary is told,
\* also of a reference that does not parse (auth/httpapi/handler.go:146).
THEOREM SameAnswerOfAuth ==
  ASSUME NEW op \in AuthOps, NEW wellFormed \in BOOLEAN, NEW result \in ResultsOf(op)
  PROVE  RemoteAuth(op, AuthAPI(op, wellFormed, result)) = DirectAuth(op, wellFormed, result)
<1>1. CASE TakesReference(op) /\ ~wellFormed
  <2>1. Call(WriteError("not_found"), op # "DeleteUser") = "not_found"
    BY CodeComesBack DEF Codes
  <2>2. AuthAPI(op, wellFormed, result) = WriteError("not_found")
    BY <1>1, Zenon DEF AuthAPI
  <2>3. RemoteAuth(op, WriteError("not_found")) = Translate("not_found")
    BY <2>1, Zenon DEF RemoteAuth, AuthClient
  <2>4. DirectAuth(op, wellFormed, result) = "ErrNotFound"
    BY <1>1 DEF DirectAuth, TakesReference
  <2>5. QED BY <2>2, <2>3, <2>4 DEF Translate, ErrorFromCode, Codes
<1>2. CASE ~(TakesReference(op) /\ ~wellFormed)
  <2>1. result \in Results
    BY ResultsAreResults
  <2>2. op = "DeleteUser" => result \notin Values \ {"value"}
    BY OpsAre DEF ResultsOf, AuthResults, Values
  <2>3. Translate(Call(Respond(AuthClassify(result), result), op # "DeleteUser"))
          = TranslateDirect(AuthClassify(result), result)
    BY <2>1, <2>2, ClassifyTypes, SameWords
  <2>4. op = "SetupOpen" => result \in {"yes", "no", "failure"}
    BY OpsAre DEF ResultsOf, AuthResults
  <2>5. op = "SetupOpen" =>
          TranslateDirect(AuthClassify(result), result)
            = IF result \in Values THEN result ELSE "failure"
    BY <2>4 DEF TranslateDirect, AuthClassify, Values, Codes
  <2>6. DirectAuth(op, wellFormed, result) = TranslateDirect(AuthClassify(result), result)
    BY <1>2, <2>5, Zenon DEF DirectAuth
  <2>7. AuthAPI(op, wellFormed, result) = Respond(AuthClassify(result), result)
    BY <1>2, Zenon DEF AuthAPI
  <2>8. QED
    BY <2>3, <2>6, <2>7, Zenon DEF RemoteAuth, AuthClient
<1>3. QED BY <1>1, <1>2

\* The same of a call to the authorization service.
THEOREM SameAnswerOfAuthz ==
  ASSUME NEW op \in AuthzOps, NEW result \in ResultsOf(op)
  PROVE  RemoteAuthz(op, AuthzAPI(result)) = DirectAuthz(result)
<1>1. result \in Results
  BY ResultsAreResults
<1>2. op \notin {"Can", "SubjectRoles", "ListRoles"} => result \notin Values \ {"value"}
  BY OpsAre DEF ResultsOf, AuthzResults, Values
<1> DEFINE wanted == op \in {"Can", "SubjectRoles", "ListRoles"}
<1>3. wanted \in BOOLEAN /\ (wanted \/ result \notin Values \ {"value"})
  BY <1>2
<1> HIDE DEF wanted
<1>4. Translate(Call(Respond(AuthzClassify(result), result), wanted))
        = TranslateDirect(AuthzClassify(result), result)
  BY <1>1, <1>3, ClassifyTypes, SameWords
<1>5. QED
  BY <1>4, Zenon DEF RemoteAuthz, AuthzAPI, DirectAuthz, AuthzClient, wanted

\* The same of a call to the content service.
THEOREM SameAnswerOfContent ==
  ASSUME NEW op \in ContentOps, NEW result \in ResultsOf(op)
  PROVE  RemoteContent(op, ContentAPI(result)) = DirectContent(result)
<1>1. result \in Results
  BY ResultsAreResults
<1>2. op = "DeletePost" => result \notin Values \ {"value"}
  BY OpsAre DEF ResultsOf, ContentResults, Values
<1>3. QED
  BY <1>1, <1>2, ClassifyTypes, SameWords DEF RemoteContent, ContentAPI, DirectContent, ContentClient

LEMMA SameAnswer ==
  ASSUME NEW op \in AuthOps \cup AuthzOps \cup ContentOps, NEW result \in ResultsOf(op)
  PROVE  Remote(op, API(op, result)) = Direct(op, result)
<1>1. CASE op \in AuthOps
  <2>1. RemoteAuth(op, AuthAPI(op, TRUE, result)) = DirectAuth(op, TRUE, result)
    BY <1>1, SameAnswerOfAuth
  <2>2. op \notin AuthzOps /\ op \notin ContentOps
    BY <1>1, OpsAre
  <2>3. QED BY <1>1, <2>1, <2>2, Zenon DEF Remote, API, Direct
<1>2. CASE op \in AuthzOps
  <2>1. op \notin AuthOps
    BY <1>2, OpsAre
  <2>2. RemoteAuthz(op, AuthzAPI(result)) = DirectAuthz(result)
    BY <1>2, SameAnswerOfAuthz
  <2>3. QED BY <1>2, <2>1, <2>2, OpsAre DEF Remote, API, Direct
<1>3. CASE op \in ContentOps
  <2>1. op \notin AuthOps /\ op \notin AuthzOps
    BY <1>3, OpsAre
  <2>2. RemoteContent(op, ContentAPI(result)) = DirectContent(result)
    BY <1>3, SameAnswerOfContent
  <2>3. QED BY <1>3, <2>1, <2>2 DEF Remote, API, Direct
<1>4. QED BY <1>1, <1>2, <1>3

-----------------------------------------------------------------------------
(* Whatever else answers in the service's place, or cuts its answer short. *)

Wanted(op) == op \notin {"DeleteUser", "DeletePost", "Grant", "AssignRole", "RevokeRole",
                         "PurgeResource", "PurgeSubject"}

LEMMA RemoteIs ==
  ASSUME NEW op \in AuthOps \cup AuthzOps \cup ContentOps, NEW response
  PROVE  Remote(op, response) = Translate(Call(response, Wanted(op)))
BY OpsAre DEF Remote, RemoteAuth, RemoteAuthz, RemoteContent, AuthClient, AuthzClient,
   ContentClient, Wanted

LEMMA ForeignIsFailure ==
  ASSUME NEW op \in AuthOps \cup AuthzOps \cup ContentOps, NEW response \in Foreign \ {OtherPage}
  PROVE  Remote(op, response) = "failure"
<1>1. Call(response, Wanted(op)) = "failure"
  BY DEF Foreign, Call, DecodeError, Known, Codes
<1>2. QED BY <1>1, RemoteIs DEF Translate, Codes

LEMMA OtherPageIs ==
  ASSUME NEW step \in Steps
  PROVE  Remote(Op(step), OtherPage) = IF step \in Blind THEN "value" ELSE "failure"
<1>1. Wanted(Op(step)) <=> step \notin Blind
  BY DEF Wanted, Op, Blind, Steps
<1>2. \A wanted \in BOOLEAN : Call(OtherPage, wanted) = IF wanted THEN "failure" ELSE "value"
  BY DEF Call, OtherPage, Values
<1>3. Wanted(Op(step)) \in BOOLEAN
  BY DEF Wanted
<1>4. Translate("value") = "value" /\ Translate("failure") = "failure"
  BY DEF Translate, Codes
<1>5. Op(step) \in AuthOps \cup AuthzOps \cup ContentOps
  BY OpsAre DEF Steps, Op
<1>6. QED BY <1>1, <1>2, <1>3, <1>4, <1>5, RemoteIs

LEMMA OtherPageCutShort == [OtherPage EXCEPT !.body = "other"] = OtherPage
BY DEF OtherPage

LEMMA CutShortIsFailureOrNothingLost ==
  ASSUME NEW op \in AuthOps \cup AuthzOps \cup ContentOps, NEW response \in Response
  PROVE  Remote(op, [response EXCEPT !.body = "other"]) \in {"failure", Remote(op, response)}
<1> DEFINE cut == [response EXCEPT !.body = "other"]
<1>1. cut.status = response.status /\ cut.json = response.json /\ cut.body = "other"
  BY DEF Response
<1>2. Call(cut, Wanted(op)) \in {"failure", Call(response, Wanted(op))}
  BY <1>1 DEF Call, DecodeError, Known, Codes, Values
<1>3. QED BY <1>2, RemoteIs DEF Translate, Codes

LEMMA UnreadableIsInvalid ==
  ASSUME NEW op \in AuthOps \cup AuthzOps \cup ContentOps
  PROVE  Remote(op, Unreadable) = "ErrInvalidInput"
<1>1. Call(Unreadable, Wanted(op)) = "invalid_input"
  BY CodeComesBack DEF Unreadable, Codes, Wanted
<1>2. QED BY <1>1, RemoteIs DEF Translate, ErrorFromCode, Codes

LEMMA ResponseTypes ==
  ASSUME NEW op \in AuthOps \cup AuthzOps \cup ContentOps, NEW result
  PROVE  API(op, result) \in Response /\ Unreadable \in Response /\ Foreign \subseteq Response
<1>1. \A value \in Values : WriteJSON(value) \in Response
  BY DEF WriteJSON, Response
<1>2. \A code \in Codes : WriteError(code) \in Response
  BY DEF WriteError, Response, Status
<1>3. WriteInternal \in Response
  BY DEF WriteInternal, Response
<1>4. \A code : Respond(code, result) \in Response
  BY <1>1, <1>2, <1>3 DEF Respond
<1>5. Unreadable \in Response
  BY <1>2 DEF Unreadable, Codes
<1>6. Foreign \subseteq Response
  BY DEF Foreign, OtherPage, Response, Codes
<1>7. WriteError("not_found") \in Response
  BY <1>2 DEF Codes
<1>8. API(op, result) \in Response
  BY <1>4, <1>7, OpsAre DEF API, AuthAPI, AuthzAPI, ContentAPI
<1>9. QED BY <1>5, <1>6, <1>8

LEMMA AnswerTypes ==
  ASSUME NEW op \in AuthOps \cup AuthzOps \cup ContentOps, NEW response \in Response
  PROVE  Remote(op, response) \in Answers
<1>1. response.body \in Values \cup Codes \cup {"other"}
  BY DEF Response
<1>2. Call(response, Wanted(op)) \in Values \cup Codes \cup {"failure"}
  BY <1>1 DEF Call, DecodeError, Known, Values
<1>3. QED BY <1>2, RemoteIs DEF Translate, ErrorFromCode, Answers, Sentinels, Codes

-----------------------------------------------------------------------------
(* The pages.  Every call is made once, as a page only goes forward.       *)

Rank(a) ==
  CASE a = "browser" -> 0
    [] a = "ResolveSession" -> 1
    [] a \in {"SetupOpen", "UpdateProfile", "Can"} -> 2
    [] a \in {"ListPosts", "GetPost"} -> 3
    [] a \in {"CanRead", "CreatePost", "UpdatePost", "SetStatus", "PurgeResource"} -> 4
    [] a \in {"DeletePost", "Grant"} -> 5
    [] a = "GrantAgain" -> 6
    [] OTHER -> 9

Places == Steps \cup Outcomes \cup {"browser"}

LEMMA RankType == \A a : Rank(a) \in Nat
BY DEF Rank

LEMMA StepsAreCalls ==
  ASSUME NEW step \in Steps
  PROVE  Op(step) \in AuthOps \cup AuthzOps \cup ContentOps
BY OpsAre DEF Steps, Op

\* Where a page may be after the answer to a step.
Forward(step, next) == next \in Steps \cup Outcomes /\ Rank(step) < Rank(next)

LEMMA FirstIsForward ==
  ASSUME NEW p \in Pages, NEW user \in BOOLEAN
  PROVE  /\ First(p, user) \in {"SetupOpen", "GetPost", "UpdateProfile", "Can", "401"}
         /\ First(p, user) = "GetPost" => p = "showPost"
         /\ Forward("ResolveSession", First(p, user))
<1>1. First(p, user) \in {"SetupOpen", "GetPost", "UpdateProfile", "Can", "401"}
  BY DEF First, Pages
<1>2. First(p, user) = "GetPost" => p = "showPost"
  BY DEF First, Pages
<1>3. QED BY <1>1, <1>2 DEF Forward, Rank, Steps, Outcomes

LEMMA ResolveIsForward ==
  ASSUME NEW p \in Pages, NEW got \in Answers
  PROVE  /\ Forward("ResolveSession", Resolve(p, got))
         /\ Resolve(p, got) = "503" \/ got \in {"value", "ErrNotFound"}
         /\ Resolve(p, got) \notin {"200", "303"}
         /\ Resolve(p, got) = "GetPost" => p = "showPost"
         /\ Resolve(p, got) \in {"SetupOpen", "GetPost", "UpdateProfile", "Can", "401", "503"}
<1>1. Resolve(p, got) = "503" \/ got \in {"value", "ErrNotFound"}
  BY DEF Resolve
<1>2. Resolve(p, got) \in {First(p, TRUE), First(p, FALSE), "503"}
  BY DEF Resolve
<1>3. Forward("ResolveSession", "503")
  BY DEF Forward, Rank, Steps, Outcomes
<1>4. QED BY <1>1, <1>2, <1>3, FirstIsForward, Zenon

LEMMA OutcomesAreForward ==
  ASSUME NEW step \in Steps, NEW next \in Outcomes
  PROVE  Forward(step, next)
BY DEF Forward, Rank, Steps, Outcomes

LEMMA CallsAreForward ==
  /\ Forward("SetupOpen", "ListPosts")
  /\ Forward("GetPost", "CanRead")
  /\ Forward("Can", "GetPost")
  /\ Forward("Can", "CreatePost")
  /\ Forward("CreatePost", "Grant")
  /\ Forward("Grant", "GrantAgain")
  /\ Forward("GetPost", "UpdatePost")
  /\ Forward("GetPost", "SetStatus")
  /\ Forward("GetPost", "PurgeResource")
  /\ Forward("PurgeResource", "DeletePost")
BY DEF Forward, Rank, Steps, Outcomes

\* The calls that are made only with permission: the writes but for one's own
\* profile, and the reading of a post to change it.
Guarded == Writes \ {"UpdateProfile"}
Behind(p, a) == a \in Guarded \/ (a = "GetPost" /\ p # "showPost")

\* A step of a page: forward, and behind the permission only from there or
\* when it was given.
Sound(p, step, got, next) ==
  /\ Forward(step, next)
  /\ Behind(p, next) => Behind(p, step) \/ (step = "Can" /\ got = "yes")
  /\ p = "showPost" /\ next = "200" =>
       (step = "GetPost" /\ got = "published") \/ (step = "CanRead" /\ got = "yes")

LEMMA OutcomesAreSound ==
  ASSUME NEW p \in Pages, NEW step \in Steps, NEW got, NEW next \in Outcomes \ {"200"}
  PROVE  Sound(p, step, got, next)
<1>1. ~Behind(p, next)
  BY DEF Behind, Guarded, Writes, Outcomes
<1>2. QED BY <1>1, OutcomesAreForward DEF Sound

LEMMA ShowPostIsSound ==
  ASSUME NEW step \in Steps, NEW got, NEW user \in BOOLEAN
  PROVE  Sound("showPost", step, got, ShowPost(step, got, user))
<1> DEFINE next == ShowPost(step, got, user)
<1>1. \/ next = "200" /\ ((step = "GetPost" /\ got = "published") \/ (step = "CanRead" /\ got = "yes"))
      \/ next = "CanRead" /\ step = "GetPost"
      \/ next \in {"404", "500"}
  BY DEF ShowPost
<1>2. CASE next = "200" /\ ((step = "GetPost" /\ got = "published") \/ (step = "CanRead" /\ got = "yes"))
  BY <1>2, OutcomesAreForward DEF Sound, Behind, Guarded, Writes, Outcomes
<1>3. CASE next = "CanRead" /\ step = "GetPost"
  BY <1>3, CallsAreForward DEF Sound, Behind, Guarded, Writes
<1>4. CASE next \in {"404", "500"}
  BY <1>4, OutcomesAreSound DEF Pages, Outcomes
<1>5. QED BY <1>1, <1>2, <1>3, <1>4

LEMMA IndexIsSound ==
  ASSUME NEW step \in Steps, NEW got
  PROVE  Sound("index", step, got, Index(step, got))
<1>1. \/ Index(step, got) = "ListPosts" /\ step = "SetupOpen"
      \/ Index(step, got) \in {"/setup", "200", "500"}
  BY DEF Index
<1>2. CASE Index(step, got) = "ListPosts" /\ step = "SetupOpen"
  BY <1>2, CallsAreForward DEF Sound, Behind, Guarded, Writes
<1>3. CASE Index(step, got) \in {"/setup", "200", "500"}
  BY <1>3, OutcomesAreForward DEF Sound, Behind, Guarded, Writes, Outcomes
<1>4. QED BY <1>1, <1>2, <1>3

LEMMA AccountSubmitIsSound ==
  ASSUME NEW step \in Steps, NEW got
  PROVE  Sound("accountSubmit", step, got, AccountSubmit(got))
<1>1. AccountSubmit(got) \in {"303", "400", "409", "500"}
  BY DEF AccountSubmit
<1>2. QED BY <1>1, OutcomesAreSound DEF Pages, Outcomes

LEMMA CreatePostIsSound ==
  ASSUME NEW step \in Steps, NEW got
  PROVE  Sound("createPost", step, got, CreatePost(step, got))
<1> DEFINE next == CreatePost(step, got)
<1>1. \/ next = "CreatePost" /\ step = "Can" /\ got = "yes"
      \/ next = "Grant" /\ step = "CreatePost"
      \/ next = "GrantAgain" /\ step = "Grant"
      \/ next \in {"303", "400", "403", "500", "unowned"}
  BY DEF CreatePost, RequirePermission, PostFormError, GrantPostOwnership
<1>2. CASE next \in {"303", "400", "403", "500", "unowned"}
  BY <1>2, OutcomesAreSound DEF Pages, Outcomes
<1>3. QED BY <1>1, <1>2, CallsAreForward DEF Sound, Behind, Guarded, Writes

LEMMA AuthorizePostIsSound ==
  ASSUME NEW p \in Pages \ {"showPost"}, NEW step \in Steps, NEW got,
         NEW next \in {"UpdatePost", "SetStatus", "PurgeResource"}
  PROVE  Sound(p, step, got, AuthorizePost(step, got, next))
<1> DEFINE after == AuthorizePost(step, got, next)
<1>1. \/ after = "GetPost" /\ step = "Can" /\ got = "yes"
      \/ after = next /\ step = "GetPost"
      \/ after \in {"403", "404", "500"}
  BY DEF AuthorizePost, RequirePermission
<1>2. CASE after \in {"403", "404", "500"}
  BY <1>2, OutcomesAreSound DEF Outcomes
<1>3. QED BY <1>1, <1>2, CallsAreForward DEF Sound, Behind, Guarded, Writes

LEMMA UpdatePostIsSound ==
  ASSUME NEW step \in Steps, NEW got
  PROVE  Sound("updatePost", step, got, UpdatePost(step, got))
<1>1. CASE step = "UpdatePost"
  <2>1. UpdatePost(step, got) \in {"303", "400", "500"}
    BY <1>1 DEF UpdatePost, PostFormError
  <2>2. QED BY <2>1, OutcomesAreSound DEF Pages, Outcomes
<1>2. CASE step # "UpdatePost"
  <2>1. UpdatePost(step, got) = AuthorizePost(step, got, "UpdatePost")
    BY <1>2, Zenon DEF UpdatePost
  <2>2. QED BY <2>1, AuthorizePostIsSound DEF Pages
<1>3. QED BY <1>1, <1>2

LEMMA SetPostStatusIsSound ==
  ASSUME NEW step \in Steps, NEW got
  PROVE  Sound("setPostStatus", step, got, SetPostStatus(step, got))
<1>1. \/ SetPostStatus(step, got) \in {"303", "400"}
      \/ SetPostStatus(step, got) = AuthorizePost(step, got, "SetStatus")
  BY DEF SetPostStatus
<1>2. CASE SetPostStatus(step, got) \in {"303", "400"}
  BY <1>2, OutcomesAreSound DEF Pages, Outcomes
<1>3. CASE SetPostStatus(step, got) = AuthorizePost(step, got, "SetStatus")
  BY <1>3, AuthorizePostIsSound DEF Pages
<1>4. QED BY <1>1, <1>2, <1>3

LEMMA DeletePostIsSound ==
  ASSUME NEW step \in Steps, NEW got
  PROVE  Sound("deletePost", step, got, DeletePost(step, got))
<1>1. \/ DeletePost(step, got) = "DeletePost" /\ step = "PurgeResource"
      \/ DeletePost(step, got) = "303"
      \/ DeletePost(step, got) = AuthorizePost(step, got, "PurgeResource")
  BY DEF DeletePost
<1>2. CASE DeletePost(step, got) = "DeletePost" /\ step = "PurgeResource"
  BY <1>2, CallsAreForward DEF Sound, Behind, Guarded, Writes
<1>3. CASE DeletePost(step, got) = "303"
  BY <1>3, OutcomesAreSound DEF Pages, Outcomes
<1>4. CASE DeletePost(step, got) = AuthorizePost(step, got, "PurgeResource")
  BY <1>4, AuthorizePostIsSound DEF Pages
<1>5. QED BY <1>1, <1>2, <1>3, <1>4

LEMMA AfterIsSound ==
  ASSUME NEW p \in Pages, NEW step \in Steps, NEW got \in Answers, NEW user \in BOOLEAN
  PROVE  /\ Sound(p, step, got, After(p, step, got, user))
         /\ step = "ResolveSession" =>
              After(p, step, got, user) = "503" \/ got \in {"value", "ErrNotFound"}
<1>1. CASE step = "ResolveSession"
  <2>1. After(p, step, got, user) = Resolve(p, got)
    BY <1>1, Zenon DEF After
  <2>2. ~Behind(p, Resolve(p, got))
    BY ResolveIsForward DEF Behind, Guarded, Writes
  <2>3. /\ Forward("ResolveSession", Resolve(p, got))
        /\ Resolve(p, got) # "200"
        /\ Resolve(p, got) = "503" \/ got \in {"value", "ErrNotFound"}
    BY ResolveIsForward
  <2>4. Sound(p, "ResolveSession", got, Resolve(p, got))
    BY <2>2, <2>3, Zenon DEF Sound
  <2>5. QED BY <1>1, <2>1, <2>3, <2>4
<1>2. CASE step # "ResolveSession"
  <2> DEFINE next == After(p, step, got, user)
  <2>1. \/ p = "index" /\ next = Index(step, got)
        \/ p = "showPost" /\ next = ShowPost(step, got, user)
        \/ p = "accountSubmit" /\ next = AccountSubmit(got)
        \/ p = "createPost" /\ next = CreatePost(step, got)
        \/ p = "updatePost" /\ next = UpdatePost(step, got)
        \/ p = "setPostStatus" /\ next = SetPostStatus(step, got)
        \/ p = "deletePost" /\ next = DeletePost(step, got)
    BY <1>2 DEF After, Pages
  <2> HIDE DEF next
  <2>2. Sound(p, step, got, next)
    BY <2>1, IndexIsSound, ShowPostIsSound, AccountSubmitIsSound, CreatePostIsSound,
       UpdatePostIsSound, SetPostStatusIsSound, DeletePostIsSound, Zenon
  <2>3. QED BY <1>2, <2>2 DEF next
<1>3. QED BY <1>1, <1>2

-----------------------------------------------------------------------------
(* The invariant.                                                          *)

Decidable(step) ==
  ResultsOf(Op(step)) \cup (IF step \in CarriesForm THEN {"unread"} ELSE {})

\* What the page is told of a call: what the service decided, or a failure.
Faithful(c, got) == got = "failure" \/ (verdict[c] # None /\ got = InOneProcess(c, verdict[c]))

\* ...or, of a call that wants no response, the success of another page.
Earned(q, got) ==
  \/ Faithful(<<q, at[q]>>, got) /\ mistaken' = mistaken
  \/ got = "value" /\ at[q] \in Blind /\ mistaken' = mistaken \cup {<<q, at[q]>>}

\* A call is made, decided and told once, in the order of the page.
OnceEach ==
  \A q \in Requests, step \in Steps :
    LET c == <<q, step>>
    IN /\ c \in sent => verdict[c] = None
       /\ c \in sent \cup applied \/ verdict[c] # None \/ told[c] # None
            => Rank(step) <= Rank(at[q])
       /\ told[c] # None => Rank(step) < Rank(at[q])
       /\ reply[c] # None => step = at[q]

Truthful ==
  \A q \in Requests, step \in Steps :
    LET c == <<q, step>>
    IN /\ verdict[c] \in Decidable(step) \cup {None}
       /\ reply[c] \notin {None, OtherPage} => Faithful(c, Remote(Op(step), reply[c]))
       /\ told[c] # None => Faithful(c, told[c]) \/ (c \in mistaken /\ told[c] = "value")
       /\ c \in mistaken => step \in Blind

Begun == \A q \in Requests : at[q] # "browser" => page[q] \in Pages

Permitted ==
  \A q \in Requests :
    /\ Behind(page[q], at[q]) => told[<<q, "Can">>] = "yes"
    /\ \A step \in Guarded : <<q, step>> \in sent \cup applied => told[<<q, "Can">>] = "yes"
    /\ page[q] = "showPost" /\ at[q] = "200" =>
         told[<<q, "GetPost">>] = "published" \/ told[<<q, "CanRead">>] = "yes"

Recognised ==
  \A q \in Requests :
    /\ at[q] \notin {"browser", "ResolveSession", "503"} /\ cookie[q] # None =>
         signedIn[q] \/ told[<<q, "ResolveSession">>] = "ErrNotFound"
    /\ verdict[<<q, "ResolveSession">>] \notin {None, "failure", "value"} => cookie[q] \notin live

IInv == TypeOK /\ OnceEach /\ Truthful /\ Begun /\ Permitted /\ Recognised

LEMMA InitInv == Init => IInv
<1> SUFFICES ASSUME Init PROVE IInv
  OBVIOUS
<1> USE DEF Init
<1>1. TypeOK
  BY DEF TypeOK
<1>2. OnceEach
  BY DEF OnceEach, Calls
<1>3. Truthful
  BY DEF Truthful, Calls
<1>4. Begun
  BY DEF Begun
<1>5. Permitted
  BY DEF Permitted, Behind, Guarded, Writes
<1>6. Recognised
  BY DEF Recognised, Calls, Steps
<1>7. QED BY <1>1, <1>2, <1>3, <1>4, <1>5, <1>6 DEF IInv

\* The page takes an answer and goes on.
LEMMA ContinueInv ==
  ASSUME IInv, NEW q \in Requests, at[q] \in Steps, NEW got \in Answers,
         Earned(q, got),
         NEW before \in {sent, sent \ {<<q, at[q]>>}},
         Continue(q, got, before)
  PROVE  IInv'
<1> DEFINE step == at[q]
           next == After(page[q], step, got, signedIn[q])
<1>1. page[q] \in Pages /\ signedIn[q] \in BOOLEAN
  BY DEF IInv, TypeOK, Begun, Steps
<1>2. /\ Sound(page[q], step, got, next)
      /\ step = "ResolveSession" => next = "503" \/ got \in {"value", "ErrNotFound"}
  BY <1>1, AfterIsSound
<1>3. next \in Steps \cup Outcomes /\ Rank(step) < Rank(next)
  BY <1>2 DEF Sound, Forward
<1> HIDE DEF next
<1>4. /\ at' = [at EXCEPT ![q] = next]
      /\ sent' = before \cup ({<<q, next>>} \cap Calls)
      /\ told' = [told EXCEPT ![<<q, step>>] = got]
      /\ signedIn' = [signedIn EXCEPT ![q] = @ \/ (step = "ResolveSession" /\ got = "value")]
      /\ reply' = [reply EXCEPT ![<<q, step>>] = None]
      /\ UNCHANGED <<page, cookie, live, verdict, applied>>
  BY DEF Continue, Go, next
<1>5. TypeOK'
  <2>1. told' \in [Calls -> Values \cup Sentinels \cup {"failure", None}]
    BY <1>4 DEF IInv, TypeOK, Answers
  <2>2. signedIn' \in [Requests -> BOOLEAN]
    BY <1>4, Zenon DEF IInv, TypeOK
  <2>3. reply' \in [Calls -> Response \cup {None}]
    BY <1>4 DEF IInv, TypeOK
  <2>4. sent' \subseteq Calls
    BY <1>4 DEF IInv, TypeOK
  <2>5. at' \in [Requests -> Steps \cup Outcomes \cup {"browser"}]
    BY <1>3, <1>4 DEF IInv, TypeOK
  <2>6. mistaken' \subseteq Calls
    BY DEF IInv, TypeOK, Earned, Calls
  <2>7. QED BY <1>4, <2>1, <2>2, <2>3, <2>4, <2>5, <2>6 DEF IInv, TypeOK
<1>6. \A r \in Requests, s \in Steps :
        LET c == <<r, s>>
        IN /\ c \in Calls
           /\ at'[r] = (IF r = q THEN next ELSE at[r])
           /\ told'[c] = (IF r = q /\ s = step THEN got ELSE told[c])
           /\ reply'[c] = (IF r = q /\ s = step THEN None ELSE reply[c])
           /\ c \in sent' => c \in sent \/ (r = q /\ s = next)
  BY <1>4 DEF IInv, TypeOK, Calls
<1>7. \A a : Rank(a) \in Nat
  BY RankType
<1>8. told[<<q, step>>] = None
  BY <1>7 DEF IInv, OnceEach
<1>9. OnceEach'
  <2> SUFFICES ASSUME NEW r \in Requests, NEW s \in Steps
               PROVE  /\ <<r, s>> \in sent' => verdict[<<r, s>>] = None
                      /\ <<r, s>> \in sent' \cup applied \/ verdict[<<r, s>>] # None
                           \/ told'[<<r, s>>] # None => Rank(s) <= Rank(at'[r])
                      /\ told'[<<r, s>>] # None => Rank(s) < Rank(at'[r])
                      /\ reply'[<<r, s>>] # None => s = at'[r]
    BY <1>4 DEF OnceEach
  <2>1. /\ <<r, s>> \in sent => verdict[<<r, s>>] = None
        /\ <<r, s>> \in sent \cup applied \/ verdict[<<r, s>>] # None
             \/ told[<<r, s>>] # None => Rank(s) <= Rank(at[r])
        /\ told[<<r, s>>] # None => Rank(s) < Rank(at[r])
        /\ reply[<<r, s>>] # None => s = at[r]
    BY DEF IInv, OnceEach
  <2>2. CASE r = q
    BY <1>3, <1>6, <1>7, <2>1, <2>2
  <2>3. CASE r # q
    BY <1>6, <2>1, <2>3
  <2>4. QED BY <2>2, <2>3
<1>10. Truthful'
  <2> SUFFICES ASSUME NEW r \in Requests, NEW s \in Steps
               PROVE  /\ verdict[<<r, s>>] \in Decidable(s) \cup {None}
                      /\ reply'[<<r, s>>] \notin {None, OtherPage} =>
                           Faithful(<<r, s>>, Remote(Op(s), reply'[<<r, s>>]))
                      /\ told'[<<r, s>>] # None =>
                           Faithful(<<r, s>>, told'[<<r, s>>])
                             \/ (<<r, s>> \in mistaken' /\ told'[<<r, s>>] = "value")
                      /\ <<r, s>> \in mistaken' => s \in Blind
    BY <1>4 DEF Truthful, Faithful
  <2>1. /\ mistaken \subseteq mistaken'
        /\ <<r, s>> \in mistaken' => <<r, s>> \in mistaken \/ s \in Blind
        /\ Faithful(<<q, step>>, got) \/ (got = "value" /\ <<q, step>> \in mistaken')
    BY DEF Earned
  <2>2. QED BY <1>6, <2>1 DEF IInv, Truthful
<1>11. Begun'
  BY <1>1, <1>4 DEF IInv, Begun, TypeOK
<1>12. Permitted'
  <2> SUFFICES ASSUME NEW r \in Requests
               PROVE  /\ Behind(page[r], at'[r]) => told'[<<r, "Can">>] = "yes"
                      /\ \A s \in Guarded : <<r, s>> \in sent' \cup applied =>
                           told'[<<r, "Can">>] = "yes"
                      /\ page[r] = "showPost" /\ at'[r] = "200" =>
                           told'[<<r, "GetPost">>] = "published" \/ told'[<<r, "CanRead">>] = "yes"
    BY <1>4 DEF Permitted
  <2>1. /\ Behind(page[r], at[r]) => told[<<r, "Can">>] = "yes"
        /\ \A s \in Guarded : <<r, s>> \in sent \cup applied => told[<<r, "Can">>] = "yes"
        /\ page[r] = "showPost" /\ at[r] = "200" =>
             told[<<r, "GetPost">>] = "published" \/ told[<<r, "CanRead">>] = "yes"
    BY DEF IInv, Permitted
  <2>2. {"Can", "GetPost", "CanRead"} \subseteq Steps /\ Guarded \subseteq Steps
    BY DEF Steps, Guarded, Writes
  <2>3. CASE r # q
    BY <1>6, <2>1, <2>2, <2>3
  <2>4. CASE r = q
    <3>1. told[<<q, "Can">>] = "yes" => told'[<<q, "Can">>] = "yes"
      <4>1. "yes" # None
        BY NoneIsNoValue DEF Values
      <4>2. QED BY <1>6, <1>8, <2>2, <4>1
    <3>2. Behind(page[q], next) => told'[<<q, "Can">>] = "yes"
      BY <1>2, <1>6, <2>1, <2>2, <2>4, <3>1 DEF Sound
    <3>3. \A s \in Guarded : <<q, s>> \in sent' => <<q, s>> \in sent \/ Behind(page[q], next)
      BY <1>6, <2>2 DEF Behind
    <3>4. \A s \in Guarded : <<q, s>> \in sent' \cup applied => told'[<<q, "Can">>] = "yes"
      BY <2>1, <2>4, <3>1, <3>2, <3>3
    <3>5. page[q] = "showPost" /\ next = "200" =>
            told'[<<q, "GetPost">>] = "published" \/ told'[<<q, "CanRead">>] = "yes"
      BY <1>2, <1>6, <2>2 DEF Sound
    <3>6. QED BY <1>6, <2>2, <2>4, <3>2, <3>4, <3>5
  <2>5. QED BY <2>3, <2>4
<1>13. Recognised'
  <2> SUFFICES ASSUME NEW r \in Requests
               PROVE  /\ at'[r] \notin {"browser", "ResolveSession", "503"} /\ cookie[r] # None =>
                           signedIn'[r] \/ told'[<<r, "ResolveSession">>] = "ErrNotFound"
                      /\ verdict[<<r, "ResolveSession">>] \notin {None, "failure", "value"} =>
                           cookie[r] \notin live
    BY <1>4 DEF Recognised
  <2>1. /\ at[r] \notin {"browser", "ResolveSession", "503"} /\ cookie[r] # None =>
             signedIn[r] \/ told[<<r, "ResolveSession">>] = "ErrNotFound"
        /\ verdict[<<r, "ResolveSession">>] \notin {None, "failure", "value"} =>
             cookie[r] \notin live
    BY DEF IInv, Recognised
  <2>2. "ResolveSession" \in Steps /\ "browser" \notin Steps /\ "503" \notin Steps
    BY DEF Steps
  <2>3. signedIn'[r] = (IF r = q THEN signedIn[q] \/ (step = "ResolveSession" /\ got = "value")
                                  ELSE signedIn[r])
    BY <1>4, Zenon DEF IInv, TypeOK
  <2>4. CASE r # q
    BY <1>6, <2>1, <2>2, <2>3, <2>4
  <2>5. CASE r = q /\ step = "ResolveSession"
    BY <1>2, <1>6, <2>1, <2>2, <2>3, <2>5
  <2>6. CASE r = q /\ step # "ResolveSession"
    BY <1>6, <2>1, <2>2, <2>3, <2>6
  <2>7. QED BY <2>4, <2>5, <2>6
<1>14. QED BY <1>5, <1>9, <1>10, <1>11, <1>12, <1>13 DEF IInv

\* A service decides on a call and answers whoever waits for it.
LEMMA DecideInv ==
  ASSUME IInv, NEW q \in Requests, NEW step \in Steps, <<q, step>> \in sent,
         NEW v \in Decidable(step), NEW response \in Response,
         Remote(Op(step), response) = InOneProcess(<<q, step>>, v),
         step = "ResolveSession" /\ v \notin {"failure", "value"} => cookie[q] \notin live,
         sent' = sent \ {<<q, step>>},
         verdict' = [verdict EXCEPT ![<<q, step>>] = v],
         applied' \in {applied, applied \cup {<<q, step>>}},
         reply' = [reply EXCEPT ![<<q, step>>] = IF at[q] = step THEN response ELSE None],
         UNCHANGED <<page, cookie, signedIn, at, live, told, mistaken>>
  PROVE  IInv'
<1>1. v \in Results \cup {"unread"} /\ v # None
  BY StepsAreCalls, ResultsAreResults, NoneIsNoValue DEF Decidable
<1>2. TypeOK'
  BY <1>1 DEF IInv, TypeOK, Calls
<1>3. \A r \in Requests, s \in Steps :
        LET c == <<r, s>>
        IN /\ verdict'[c] = (IF r = q /\ s = step THEN v ELSE verdict[c])
           /\ reply'[c] = (IF r = q /\ s = step
                           THEN IF at[q] = step THEN response ELSE None
                           ELSE reply[c])
           /\ c \in sent' <=> c \in sent /\ ~(r = q /\ s = step)
           /\ c \in applied' => c \in applied \/ (r = q /\ s = step)
  BY DEF IInv, TypeOK, Calls
<1>4. verdict[<<q, step>>] = None /\ Rank(step) <= Rank(at[q])
  BY DEF IInv, OnceEach
<1>5. OnceEach'
  <2> SUFFICES ASSUME NEW r \in Requests, NEW s \in Steps
               PROVE  /\ <<r, s>> \in sent' => verdict'[<<r, s>>] = None
                      /\ <<r, s>> \in sent' \cup applied' \/ verdict'[<<r, s>>] # None
                           \/ told[<<r, s>>] # None => Rank(s) <= Rank(at[r])
                      /\ told[<<r, s>>] # None => Rank(s) < Rank(at[r])
                      /\ reply'[<<r, s>>] # None => s = at[r]
    BY DEF OnceEach
  <2>1. /\ <<r, s>> \in sent => verdict[<<r, s>>] = None
        /\ <<r, s>> \in sent \cup applied \/ verdict[<<r, s>>] # None
             \/ told[<<r, s>>] # None => Rank(s) <= Rank(at[r])
        /\ told[<<r, s>>] # None => Rank(s) < Rank(at[r])
        /\ reply[<<r, s>>] # None => s = at[r]
    BY DEF IInv, OnceEach
  <2>2. CASE r = q /\ s = step
    BY <1>3, <1>4, <2>1, <2>2
  <2>3. CASE ~(r = q /\ s = step)
    BY <1>3, <2>1, <2>3
  <2>4. QED BY <2>2, <2>3
<1>6. Truthful'
  <2> DEFINE Kept(c, got) ==
        got = "failure" \/ (verdict'[c] # None /\ got = InOneProcess(c, verdict'[c]))
  <2>1. ASSUME NEW r \in Requests, NEW s \in Steps
        PROVE  /\ verdict'[<<r, s>>] \in Decidable(s) \cup {None}
               /\ reply'[<<r, s>>] \notin {None, OtherPage} =>
                    Kept(<<r, s>>, Remote(Op(s), reply'[<<r, s>>]))
               /\ told[<<r, s>>] # None =>
                    Kept(<<r, s>>, told[<<r, s>>])
                      \/ (<<r, s>> \in mistaken /\ told[<<r, s>>] = "value")
               /\ <<r, s>> \in mistaken => s \in Blind
    <3>1. /\ verdict[<<r, s>>] \in Decidable(s) \cup {None}
          /\ reply[<<r, s>>] \notin {None, OtherPage} =>
               Faithful(<<r, s>>, Remote(Op(s), reply[<<r, s>>]))
          /\ told[<<r, s>>] # None =>
               Faithful(<<r, s>>, told[<<r, s>>])
                 \/ (<<r, s>> \in mistaken /\ told[<<r, s>>] = "value")
          /\ <<r, s>> \in mistaken => s \in Blind
      BY DEF IInv, Truthful
    <3>2. CASE r = q /\ s = step
      BY <1>1, <1>3, <1>4, <3>1, <3>2 DEF Faithful
    <3>3. CASE ~(r = q /\ s = step)
      BY <1>3, <3>1, <3>3 DEF Faithful
    <3>4. QED BY <3>2, <3>3
  <2>2. QED BY <2>1 DEF Truthful, Faithful
<1>7. Begun'
  BY DEF IInv, Begun
<1>8. Permitted'
  <2>1. Guarded \subseteq Steps
    BY DEF Guarded, Writes, Steps
  <2>2. \A r \in Requests, s \in Guarded :
          <<r, s>> \in sent' \cup applied' => <<r, s>> \in sent \cup applied
    BY <1>3, <2>1
  <2>3. QED BY <2>2 DEF IInv, Permitted
<1>9. Recognised'
  <2>1. "ResolveSession" \in Steps
    BY DEF Steps
  <2>2. ASSUME NEW r \in Requests, verdict'[<<r, "ResolveSession">>] \notin {None, "failure", "value"}
        PROVE  cookie[r] \notin live
    <3>1. CASE r = q /\ step = "ResolveSession"
      BY <1>3, <2>1, <2>2, <3>1
    <3>2. CASE ~(r = q /\ step = "ResolveSession")
      <4>1. verdict'[<<r, "ResolveSession">>] = verdict[<<r, "ResolveSession">>]
        BY <1>3, <2>1, <3>2
      <4>2. QED BY <2>2, <4>1 DEF IInv, Recognised
    <3>3. QED BY <3>1, <3>2
  <2>3. QED BY <2>2 DEF IInv, Recognised
<1>10. QED BY <1>2, <1>5, <1>6, <1>7, <1>8, <1>9 DEF IInv

LEMMA ServeInv ==
  ASSUME IInv, NEW q \in Requests, NEW step \in Steps, Serve(q, step)
  PROVE  IInv'
<1>1. PICK result \in ResultsOf(Op(step)) :
        /\ step = "ResolveSession" /\ result # "failure" => (result = "value" <=> cookie[q] \in live)
        /\ verdict' = [verdict EXCEPT ![<<q, step>>] = result]
        /\ applied' \in {applied, applied \cup {<<q, step>>}}
        /\ reply' = [reply EXCEPT ![<<q, step>>] =
                       IF at[q] = step THEN API(Op(step), result) ELSE None]
  BY DEF Serve
<1>2. result \in Results /\ result # "unread"
  BY StepsAreCalls, ResultsAreResults DEF Results, Values
<1>3. API(Op(step), result) \in Response
  BY StepsAreCalls, ResponseTypes
<1>4. Remote(Op(step), API(Op(step), result)) = InOneProcess(<<q, step>>, result)
  <2>1. Remote(Op(step), API(Op(step), result)) = Direct(Op(step), result)
    BY StepsAreCalls, SameAnswer
  <2>2. QED BY <1>2, <2>1 DEF InOneProcess
<1>5. result \in Decidable(step)
  BY DEF Decidable
<1>6. QED
  BY <1>1, <1>3, <1>4, <1>5, DecideInv DEF Serve

LEMMA UnreadInv ==
  ASSUME IInv, NEW q \in Requests, NEW step \in Steps, Unread(q, step)
  PROVE  IInv'
<1>1. Unreadable \in Response
  BY StepsAreCalls, ResponseTypes
<1>2. Remote(Op(step), Unreadable) = InOneProcess(<<q, step>>, "unread")
  BY StepsAreCalls, UnreadableIsInvalid DEF InOneProcess
<1>3. "unread" \in Decidable(step) /\ step # "ResolveSession"
  BY DEF Unread, Decidable, CarriesForm
<1>4. QED
  BY <1>1, <1>2, <1>3, DecideInv DEF Unread

LEMMA BeginInv ==
  ASSUME IInv, NEW q \in Requests, Begin(q)
  PROVE  IInv'
<1>1. PICK p \in Pages, token \in Tokens \cup {None} :
        /\ page' = [page EXCEPT ![q] = p]
        /\ cookie' = [cookie EXCEPT ![q] = token]
        /\ Go(q, IF token = None THEN First(p, FALSE) ELSE "ResolveSession", sent)
  BY DEF Begin
<1> DEFINE next == IF token = None THEN First(p, FALSE) ELSE "ResolveSession"
<1>2. /\ next \in Steps \cup Outcomes
      /\ ~Behind(p, next) /\ next \notin {"browser", "200"}
      /\ token # None => next = "ResolveSession"
  BY FirstIsForward DEF Steps, Outcomes, Behind, Guarded, Writes
<1> HIDE DEF next
<1>3. /\ at' = [at EXCEPT ![q] = next]
      /\ sent' = sent \cup ({<<q, next>>} \cap Calls)
      /\ at[q] = "browser"
      /\ UNCHANGED <<signedIn, live, reply, verdict, applied, told, mistaken>>
  BY <1>1 DEF Begin, Go, next
<1>4. TypeOK'
  BY <1>1, <1>2, <1>3 DEF IInv, TypeOK
<1>5. \A r \in Requests :
        /\ at'[r] = (IF r = q THEN next ELSE at[r])
        /\ page'[r] = (IF r = q THEN p ELSE page[r])
        /\ cookie'[r] = (IF r = q THEN token ELSE cookie[r])
        /\ \A s \in Steps : <<r, s>> \in sent' => <<r, s>> \in sent \/ (r = q /\ s = next)
  BY <1>1, <1>3 DEF IInv, TypeOK
<1>6. Rank("browser") = 0 /\ (\A s \in Steps \cup Outcomes : Rank(s) \in Nat /\ Rank(s) > 0)
  BY DEF Rank, Steps, Outcomes
<1>7. \A s \in Steps : /\ <<q, s>> \notin sent \cup applied
                       /\ verdict[<<q, s>>] = None
                       /\ told[<<q, s>>] = None
                       /\ reply[<<q, s>>] = None
  <2>1. "browser" \notin Steps
    BY DEF Steps
  <2>2. QED BY <1>3, <1>6, <2>1 DEF IInv, OnceEach
<1>8. OnceEach'
  <2> SUFFICES ASSUME NEW r \in Requests, NEW s \in Steps
               PROVE  /\ <<r, s>> \in sent' => verdict[<<r, s>>] = None
                      /\ <<r, s>> \in sent' \cup applied \/ verdict[<<r, s>>] # None
                           \/ told[<<r, s>>] # None => Rank(s) <= Rank(at'[r])
                      /\ told[<<r, s>>] # None => Rank(s) < Rank(at'[r])
                      /\ reply[<<r, s>>] # None => s = at'[r]
    BY <1>3 DEF OnceEach
  <2>1. CASE r = q
    BY <1>2, <1>5, <1>6, <1>7, <2>1
  <2>2. CASE r # q
    BY <1>5, <2>2 DEF IInv, OnceEach
  <2>3. QED BY <2>1, <2>2
<1>9. Truthful'
  BY <1>3 DEF IInv, Truthful, Faithful
<1>10. Begun'
  BY <1>5 DEF IInv, Begun
<1>11. Permitted'
  <2> SUFFICES ASSUME NEW r \in Requests
               PROVE  /\ Behind(page'[r], at'[r]) => told[<<r, "Can">>] = "yes"
                      /\ \A s \in Guarded : <<r, s>> \in sent' \cup applied =>
                           told[<<r, "Can">>] = "yes"
                      /\ page'[r] = "showPost" /\ at'[r] = "200" =>
                           told[<<r, "GetPost">>] = "published" \/ told[<<r, "CanRead">>] = "yes"
    BY <1>3 DEF Permitted
  <2>1. Guarded \subseteq Steps
    BY DEF Guarded, Writes, Steps
  <2>2. CASE r = q
    BY <1>2, <1>5, <1>7, <2>1, <2>2 DEF Behind
  <2>3. CASE r # q
    BY <1>5, <2>1, <2>3 DEF IInv, Permitted
  <2>4. QED BY <2>2, <2>3
<1>12. Recognised'
  <2>1. "ResolveSession" \in Steps
    BY DEF Steps
  <2>2. QED BY <1>2, <1>3, <1>5, <1>7, <2>1 DEF IInv, Recognised
<1>13. QED BY <1>4, <1>8, <1>9, <1>10, <1>11, <1>12 DEF IInv

\* Something in between answers, or cuts the answer short.
LEMMA DisturbInv ==
  ASSUME IInv, NEW q \in Requests, at[q] \in Steps, NEW response \in Response,
         \/ response = OtherPage
         \/ Remote(Op(at[q]), response) = "failure"
         \/ (reply[<<q, at[q]>>] \notin {None, OtherPage}
               /\ Remote(Op(at[q]), response) = Remote(Op(at[q]), reply[<<q, at[q]>>])),
         reply' = [reply EXCEPT ![<<q, at[q]>>] = response],
         UNCHANGED <<page, cookie, signedIn, at, live, sent, verdict, applied, told, mistaken>>
  PROVE  IInv'
<1>1. TypeOK'
  BY DEF IInv, TypeOK, Calls
<1>2. \A r \in Requests, s \in Steps :
        reply'[<<r, s>>] = (IF r = q /\ s = at[q] THEN response ELSE reply[<<r, s>>])
  BY DEF IInv, TypeOK, Calls
<1>3. OnceEach'
  <2> SUFFICES ASSUME NEW r \in Requests, NEW s \in Steps
               PROVE  /\ <<r, s>> \in sent => verdict[<<r, s>>] = None
                      /\ <<r, s>> \in sent \cup applied \/ verdict[<<r, s>>] # None
                           \/ told[<<r, s>>] # None => Rank(s) <= Rank(at[r])
                      /\ told[<<r, s>>] # None => Rank(s) < Rank(at[r])
                      /\ reply'[<<r, s>>] # None => s = at[r]
    BY DEF OnceEach
  <2>1. QED BY <1>2 DEF IInv, OnceEach
<1>4. Truthful'
  <2> SUFFICES ASSUME NEW r \in Requests, NEW s \in Steps
               PROVE  /\ verdict[<<r, s>>] \in Decidable(s) \cup {None}
                      /\ reply'[<<r, s>>] \notin {None, OtherPage} =>
                           Faithful(<<r, s>>, Remote(Op(s), reply'[<<r, s>>]))
                      /\ told[<<r, s>>] # None =>
                           Faithful(<<r, s>>, told[<<r, s>>])
                             \/ (<<r, s>> \in mistaken /\ told[<<r, s>>] = "value")
                      /\ <<r, s>> \in mistaken => s \in Blind
    BY DEF Truthful, Faithful
  <2>1. QED BY <1>2 DEF IInv, Truthful, Faithful
<1>5. Begun' /\ Permitted' /\ Recognised'
  BY DEF IInv, Begun, Permitted, Recognised
<1>6. QED BY <1>1, <1>3, <1>4, <1>5 DEF IInv

\* What the page makes of the response it finds.
LEMMA ReceiveIs ==
  ASSUME IInv, NEW q \in Requests, Receive(q)
  PROVE  /\ at[q] \in Steps
         /\ \E got \in Answers : Earned(q, got) /\ Continue(q, got, sent)
<1> DEFINE c == <<q, at[q]>>
           got == Remote(Op(at[q]), reply[c])
<1>1. at[q] \in Steps /\ reply[c] # None /\ Continue(q, got, sent)
  BY DEF Receive
<1>2. mistaken' = IF reply[c] = OtherPage /\ got \in Values THEN mistaken \cup {c} ELSE mistaken
  BY DEF Receive
<1>3. reply[c] \in Response
  BY <1>1 DEF IInv, TypeOK, Calls
<1>4. got \in Answers
  BY <1>1, <1>3, StepsAreCalls, AnswerTypes
<1>5. CASE reply[c] = OtherPage
  <2>1. got = IF at[q] \in Blind THEN "value" ELSE "failure"
    BY <1>1, <1>5, OtherPageIs
  <2>2. "value" \in Values /\ "failure" \notin Values
    BY DEF Values
  <2> HIDE DEF got
  <2>3. Earned(q, got)
    BY <1>2, <1>5, <2>1, <2>2 DEF Earned, Faithful
  <2>4. QED BY <1>1, <1>4, <2>3
<1>6. CASE reply[c] # OtherPage
  <2>1. Faithful(c, got)
    BY <1>1, <1>6 DEF IInv, Truthful
  <2>2. Earned(q, got)
    BY <1>2, <1>6, <2>1 DEF Earned
  <2>3. QED BY <1>1, <1>4, <2>2
<1>7. QED BY <1>5, <1>6

LEMMA NextInv == IInv /\ [Next]_vars => IInv'
<1> SUFFICES ASSUME IInv, [Next]_vars PROVE IInv'
  OBVIOUS
<1>1. ASSUME NEW q \in Requests, Begin(q) PROVE IInv'
  BY <1>1, BeginInv
<1>2. ASSUME NEW q \in Requests, Receive(q) PROVE IInv'
  BY <1>2, ReceiveIs, ContinueInv
<1>3. ASSUME NEW q \in Requests, CallFails(q) PROVE IInv'
  BY <1>3, ContinueInv DEF CallFails, Earned, Faithful, Answers
<1>4. ASSUME NEW q \in Requests, Interpose(q) PROVE IInv'
  <2>1. PICK response \in Foreign : reply' = [reply EXCEPT ![<<q, at[q]>>] = response]
    BY <1>4 DEF Interpose
  <2>2. at[q] \in Steps
    BY <1>4 DEF Interpose
  <2>3. response \in Response /\ (response = OtherPage \/ Remote(Op(at[q]), response) = "failure")
    BY <2>2, StepsAreCalls, ResponseTypes, ForeignIsFailure
  <2>4. QED BY <1>4, <2>1, <2>2, <2>3, DisturbInv DEF Interpose
<1>5. ASSUME NEW q \in Requests, CutShort(q) PROVE IInv'
  <2> DEFINE c == <<q, at[q]>>
             cut == [reply[c] EXCEPT !.body = "other"]
  <2>1. at[q] \in Steps /\ reply[c] # None /\ c \in Calls
    BY <1>5 DEF CutShort, Calls
  <2>2. reply[c] \in Response
    BY <2>1 DEF IInv, TypeOK
  <2>3. cut \in Response
    BY <2>2 DEF Response
  <2>4. Remote(Op(at[q]), cut) \in {"failure", Remote(Op(at[q]), reply[c])}
    BY <2>1, <2>2, StepsAreCalls, CutShortIsFailureOrNothingLost
  <2>5. reply' = [reply EXCEPT ![c] = cut]
    BY <1>5, <2>1 DEF CutShort, IInv, TypeOK
  <2>6. reply[c] = OtherPage => cut = OtherPage
    BY OtherPageCutShort
  <2> HIDE DEF cut
  <2>7. QED BY <1>5, <2>1, <2>3, <2>4, <2>5, <2>6, DisturbInv DEF CutShort
<1>6. ASSUME NEW q \in Requests, NEW step \in Steps, Serve(q, step) PROVE IInv'
  BY <1>6, ServeInv
<1>7. ASSUME NEW q \in Requests, NEW step \in Steps, Unread(q, step) PROVE IInv'
  BY <1>7, UnreadInv
<1>8. ASSUME NEW token \in Tokens, EndSession(token) PROVE IInv'
  <2>1. TypeOK' /\ OnceEach' /\ Truthful' /\ Begun' /\ Permitted'
    BY <1>8 DEF EndSession, IInv, TypeOK, OnceEach, Truthful, Faithful, Begun, Permitted
  <2>2. Recognised'
    BY <1>8 DEF EndSession, IInv, Recognised
  <2>3. QED BY <2>1, <2>2 DEF IInv
<1>9. CASE UNCHANGED vars
  BY <1>9 DEF vars, IInv, TypeOK, OnceEach, Truthful, Faithful, Begun, Permitted, Recognised
<1>10. QED
  BY <1>1, <1>2, <1>3, <1>4, <1>5, <1>6, <1>7, <1>8, <1>9 DEF Next

-----------------------------------------------------------------------------
(* What follows.                                                           *)

LEMMA SpecInv == Spec => []IInv
BY InitInv, NextInv, PTL DEF Spec

\* The types of Remote's state.
THEOREM TypeCorrect == Spec => []TypeOK
<1>1. IInv => TypeOK
  BY DEF IInv
<1>2. QED BY <1>1, SpecInv, PTL

\* An identity service that cannot be reached, or for which something in Foreign
\* answers, signs nobody out (web/session.go:26, web/remote/remote.go:16).
THEOREM NobodySignedOut == Spec => []NobodyIsSignedOutByAFailure
<1>1. IInv => NobodyIsSignedOutByAFailure
  <2> SUFFICES ASSUME IInv, NEW q \in Requests, cookie[q] \in live,
                      at[q] \notin {"browser", "ResolveSession", "503"}, ~signedIn[q]
               PROVE  FALSE
    BY DEF NobodyIsSignedOutByAFailure
  <2> DEFINE c == <<q, "ResolveSession">>
  <2>1. cookie[q] # None
    BY NoneIsNoValue DEF IInv, TypeOK
  <2>2. told[c] = "ErrNotFound"
    BY <2>1 DEF IInv, Recognised
  <2>3. "ErrNotFound" # None /\ "ResolveSession" \in Steps
    BY NoneIsNoValue DEF Sentinels, Steps
  <2>4. verdict[c] # None /\ InOneProcess(c, verdict[c]) = "ErrNotFound"
    BY <2>2, <2>3, NoneIsNoValue DEF IInv, Truthful, Faithful
  <2>5. InOneProcess(c, "failure") # "ErrNotFound" /\ InOneProcess(c, "value") # "ErrNotFound"
    <3>1. Op("ResolveSession") = "ResolveSession" /\ "ResolveSession" \in AuthOps
      BY OpsAre DEF Op
    <3>2. \A v : Direct("ResolveSession", v) = DirectAuth("ResolveSession", TRUE, v)
      <4>1. "ResolveSession" \notin AuthzOps /\ "ResolveSession" \notin ContentOps
        BY OpsAre
      <4>2. QED BY <3>1, <4>1, Zenon DEF Direct
    <3>3. DirectAuth("ResolveSession", TRUE, "failure") # "ErrNotFound"
      BY DEF DirectAuth, TakesReference, TranslateDirect, AuthClassify, Codes, Values
    <3>4. DirectAuth("ResolveSession", TRUE, "value") # "ErrNotFound"
      BY DEF DirectAuth, TakesReference, TranslateDirect, AuthClassify, Codes, Values
    <3>5. QED BY <3>1, <3>2, <3>3, <3>4 DEF InOneProcess
  <2>6. QED BY <2>4, <2>5 DEF IInv, Recognised
<1>2. QED BY <1>1, SpecInv, PTL

\* What an answer means can be read off the verdict.
LEMMA CanYes ==
  ASSUME NEW q \in Requests, NEW v \in Decidable("Can"), InOneProcess(<<q, "Can">>, v) = "yes"
  PROVE  v = "yes"
<1>1. Decidable("Can") = {"yes", "no", "ErrInvalidAction", "failure"}
  BY OpsAre DEF Decidable, ResultsOf, Op, CarriesForm, AuthzResults
<1>2. Direct("Can", v) = DirectAuthz(v)
  BY OpsAre DEF Direct
<1>3. QED
  BY <1>1, <1>2 DEF InOneProcess, Op, DirectAuthz, TranslateDirect, AuthzClassify, ErrorFromCode,
     Codes, Values

LEMMA CanReadYes ==
  ASSUME NEW q \in Requests, NEW v \in Decidable("CanRead"),
         InOneProcess(<<q, "CanRead">>, v) = "yes"
  PROVE  v = "yes"
<1>1. Decidable("CanRead") = {"yes", "no", "ErrInvalidAction", "failure"}
  BY OpsAre DEF Decidable, ResultsOf, Op, CarriesForm, AuthzResults
<1>2. Direct("Can", v) = DirectAuthz(v)
  BY OpsAre DEF Direct
<1>3. QED
  BY <1>1, <1>2 DEF InOneProcess, Op, DirectAuthz, TranslateDirect, AuthzClassify, ErrorFromCode,
     Codes, Values

LEMMA DraftIsNotPublished ==
  ASSUME NEW q \in Requests
  PROVE  InOneProcess(<<q, "GetPost">>, "draft") = "draft"
<1>1. Direct("GetPost", "draft") = DirectContent("draft")
  BY OpsAre DEF Direct
<1>2. QED
  BY <1>1 DEF InOneProcess, Op, DirectContent, TranslateDirect, Values

\* No write, and no draft, without the authorization service's own yes
\* (web/guard.go:20).
THEOREM PermissionFirst == Spec => []NothingWithoutPermission
<1>1. IInv => NothingWithoutPermission
  <2> SUFFICES ASSUME IInv, NEW q \in Requests
               PROVE  /\ \A step \in Guarded :
                           <<q, step>> \in applied \cup sent => verdict[<<q, "Can">>] = "yes"
                      /\ page[q] = "showPost" /\ at[q] = "200"
                           /\ verdict[<<q, "GetPost">>] = "draft"
                         => verdict[<<q, "CanRead">>] = "yes"
    BY DEF NothingWithoutPermission, Guarded
  <2>1. {"Can", "CanRead", "GetPost"} \subseteq Steps \ Blind
    BY DEF Steps, Blind
  <2>2. {"yes", "published", "draft"} \cap {None, "failure"} = {}
    BY NoneIsNoValue DEF Values
  <2>3. \A step \in Steps : /\ verdict[<<q, step>>] \in Decidable(step) \cup {None}
                            /\ told[<<q, step>>] # None /\ step \notin Blind =>
                                 Faithful(<<q, step>>, told[<<q, step>>])
    BY DEF IInv, Truthful
  <2>4. told[<<q, "Can">>] = "yes" => verdict[<<q, "Can">>] = "yes"
    BY <2>1, <2>2, <2>3, CanYes DEF Faithful
  <2>5. told[<<q, "CanRead">>] = "yes" => verdict[<<q, "CanRead">>] = "yes"
    BY <2>1, <2>2, <2>3, CanReadYes DEF Faithful
  <2>6. told[<<q, "GetPost">>] = "published" => verdict[<<q, "GetPost">>] # "draft"
    BY <2>1, <2>2, <2>3, DraftIsNotPublished DEF Faithful
  <2>7. QED BY <2>4, <2>5, <2>6 DEF IInv, Permitted
<1>2. QED BY <1>1, SpecInv, PTL

-----------------------------------------------------------------------------
(* Remote keeps the contract of a call.                                    *)

LEMMA DecidesOnce ==
  ASSUME IInv, NEW c \in Calls, c \in sent, NEW v \in Results \cup {"unread"},
         verdict' = [verdict EXCEPT ![c] = v], told' = told, mistaken' = mistaken
  PROVE  Contract!Next
<1>1. verdict[c] = None
  BY DEF IInv, OnceEach, Calls
<1>2. QED BY <1>1 DEF Contract!Next, Contract!Decide

LEMMA ToldOnce ==
  ASSUME IInv, NEW q \in Requests, at[q] \in Steps, NEW got,
         Earned(q, got),
         told' = [told EXCEPT ![<<q, at[q]>>] = got], verdict' = verdict
  PROVE  Contract!Next
<1> DEFINE c == <<q, at[q]>>
<1>1. c \in Calls
  BY DEF Calls
<1>2. told[c] = None
  BY RankType DEF IInv, OnceEach
<1>3. CASE Faithful(c, got) /\ mistaken' = mistaken
  <2>1. Contract!Tell(c)
    BY <1>2, <1>3 DEF Contract!Tell, Faithful
  <2>2. QED BY <1>1, <2>1 DEF Contract!Next
<1>4. CASE got = "value" /\ at[q] \in Blind /\ mistaken' = mistaken \cup {c}
  <2>1. Contract!Mistake(c)
    BY <1>2, <1>4 DEF Contract!Mistake
  <2>2. QED BY <1>1, <2>1 DEF Contract!Next
<1>5. QED BY <1>3, <1>4 DEF Earned

LEMMA StepKeepsContract == IInv /\ [Next]_vars => [Contract!Next]_<<verdict, told, mistaken>>
<1> SUFFICES ASSUME IInv, [Next]_vars PROVE [Contract!Next]_<<verdict, told, mistaken>>
  OBVIOUS
<1>1. ASSUME NEW q \in Requests, NEW step \in Steps, Serve(q, step) PROVE Contract!Next
  <2>1. PICK result \in ResultsOf(Op(step)) : verdict' = [verdict EXCEPT ![<<q, step>>] = result]
    BY <1>1 DEF Serve
  <2>2. result \in Results
    BY StepsAreCalls, ResultsAreResults
  <2>3. QED BY <1>1, <2>1, <2>2, DecidesOnce DEF Serve, Calls
<1>2. ASSUME NEW q \in Requests, NEW step \in Steps, Unread(q, step) PROVE Contract!Next
  BY <1>2, DecidesOnce DEF Unread, Calls
<1>3. ASSUME NEW q \in Requests, Receive(q) PROVE Contract!Next
  BY <1>3, ReceiveIs, ToldOnce DEF Continue
<1>4. ASSUME NEW q \in Requests, CallFails(q) PROVE Contract!Next
  BY <1>4, ToldOnce DEF CallFails, Continue, Earned, Faithful
<1>5. ASSUME NEW q \in Requests, Begin(q) \/ Interpose(q) \/ CutShort(q)
      PROVE  UNCHANGED <<verdict, told, mistaken>>
  BY <1>5 DEF Begin, Interpose, CutShort
<1>6. ASSUME NEW token \in Tokens, EndSession(token) PROVE UNCHANGED <<verdict, told, mistaken>>
  BY <1>6 DEF EndSession
<1>7. CASE UNCHANGED vars
  BY <1>7 DEF vars
<1>8. QED BY <1>1, <1>2, <1>3, <1>4, <1>5, <1>6, <1>7 DEF Next

\* The page is told once of each call, of what the service decided in the single
\* binary's words or of a failure (README.md:39, pkg/httpx/client.go:147).  Only a
\* call that wants no response may also be told of a success the service never
\* decided, by another page under status 200 (pkg/httpx/client.go:127).
THEOREM ContractKept == Spec => CallsKeepTheirContract
<1>1. Init => Contract!Init
  BY DEF Init, Contract!Init
<1>2. QED
  BY <1>1, SpecInv, StepKeepsContract, PTL DEF Spec, CallsKeepTheirContract, Contract!Spec
-----------------------------------------------------------------------------
(* What a visitor is told is so.                                           *)

\* The calls of a page.
StepsOf(p) ==
  {"ResolveSession"} \cup
    CASE p = "index" -> {"SetupOpen", "ListPosts"}
      [] p = "showPost" -> {"GetPost", "CanRead"}
      [] p = "accountSubmit" -> {"UpdateProfile"}
      [] p = "createPost" -> {"Can", "CreatePost", "Grant", "GrantAgain"}
      [] p = "updatePost" -> {"Can", "GetPost", "UpdatePost"}
      [] p = "setPostStatus" -> {"Can", "GetPost", "SetStatus"}
      [] p = "deletePost" -> {"Can", "GetPost", "PurgeResource", "DeletePost"}

\* The writes that succeeded before a page is there.
Gained(p, a) ==
  CASE a \in {"Grant", "GrantAgain", "unowned"} -> {"CreatePost"}
    [] a = "DeletePost" -> {"PurgeResource"}
    [] a = "303" /\ p = "accountSubmit" -> {"UpdateProfile"}
    [] a = "303" /\ p = "createPost" -> {"CreatePost"}
    [] a = "303" /\ p = "updatePost" -> {"UpdatePost"}
    [] a = "303" /\ p = "setPostStatus" -> {"SetStatus"}
    [] a = "303" /\ p = "deletePost" -> {"PurgeResource", "DeletePost"}
    [] OTHER -> {}

\* Where a page is before its first write, or after a service turned that down.
Refusals == {"400", "401", "403", "404", "409", "503"}
Untouched == (Steps \ {"Grant", "GrantAgain", "DeletePost"}) \cup Refusals

\* The pages that redirect when they are done.
Forms == Pages \ {"index", "showPost"}

\* A step of a page, by what it means for its writes.
Honest(p, step, got, next) ==
  /\ next \in StepsOf(p) \cup Outcomes
  /\ Gained(p, next) \subseteq Gained(p, step) \cup (IF got = "value" THEN {step} ELSE {})
  /\ p = "createPost" /\ next = "303" => step \in {"Grant", "GrantAgain"} /\ got = "value"
  /\ next = "303" => p \in Forms
  /\ next = "/setup" => step = "SetupOpen" /\ got = "yes"
  /\ next \in Untouched => step \in Untouched /\ (step \in Writes => got \in Sentinels)

LEMMA StepsOfPages ==
  ASSUME NEW p \in Pages
  PROVE  StepsOf(p) \subseteq Steps
BY DEF StepsOf, Steps, Pages

LEMMA ResolveIsHonest ==
  ASSUME NEW p \in Pages, NEW got \in Answers
  PROVE  Honest(p, "ResolveSession", got, Resolve(p, got))
<1> DEFINE next == Resolve(p, got)
<1>1. next \in {"SetupOpen", "GetPost", "UpdateProfile", "Can", "401", "503"}
  BY ResolveIsForward
<1>2. next \in StepsOf(p) \cup Outcomes
  BY DEF Resolve, First, StepsOf, Pages, Outcomes
<1>3. Gained(p, next) = {} /\ next \notin {"303", "/setup"}
  BY <1>1 DEF Gained
<1>4. "ResolveSession" \in Untouched /\ "ResolveSession" \notin Writes
  BY DEF Untouched, Steps, Writes
<1>5. QED BY <1>2, <1>3, <1>4 DEF Honest

LEMMA IndexIsHonest ==
  ASSUME NEW step \in {"SetupOpen", "ListPosts"}, NEW got
  PROVE  Honest("index", step, got, Index(step, got))
BY DEF Honest, Forms, Pages, Index, StepsOf, Gained, Untouched, Refusals, Steps, Outcomes, Writes

LEMMA ShowPostIsHonest ==
  ASSUME NEW step \in {"GetPost", "CanRead"}, NEW got, NEW user \in BOOLEAN
  PROVE  Honest("showPost", step, got, ShowPost(step, got, user))
BY DEF Honest, Forms, Pages, ShowPost, StepsOf, Gained, Untouched, Refusals, Steps, Outcomes, Writes

LEMMA AccountSubmitIsHonest ==
  ASSUME NEW got
  PROVE  Honest("accountSubmit", "UpdateProfile", got, AccountSubmit(got))
BY DEF Honest, Forms, Pages, AccountSubmit, StepsOf, Gained, Untouched, Refusals, Steps, Outcomes, Writes,
   Sentinels

LEMMA CreatePostIsHonest ==
  ASSUME NEW step \in {"Can", "CreatePost", "Grant", "GrantAgain"}, NEW got
  PROVE  Honest("createPost", step, got, CreatePost(step, got))
BY DEF Honest, Forms, Pages, CreatePost, RequirePermission, PostFormError, GrantPostOwnership, StepsOf, Gained,
   Untouched, Refusals, Steps, Outcomes, Writes, Sentinels

LEMMA UpdatePostIsHonest ==
  ASSUME NEW step \in {"Can", "GetPost", "UpdatePost"}, NEW got
  PROVE  Honest("updatePost", step, got, UpdatePost(step, got))
BY DEF Honest, Forms, Pages, UpdatePost, AuthorizePost, RequirePermission, PostFormError, StepsOf, Gained,
   Untouched, Refusals, Steps, Outcomes, Writes, Sentinels, Found

LEMMA SetPostStatusIsHonest ==
  ASSUME NEW step \in {"Can", "GetPost", "SetStatus"}, NEW got
  PROVE  Honest("setPostStatus", step, got, SetPostStatus(step, got))
BY DEF Honest, Forms, Pages, SetPostStatus, AuthorizePost, RequirePermission, StepsOf, Gained,
   Untouched, Refusals, Steps, Outcomes, Writes, Sentinels, Found

LEMMA DeletePostIsHonest ==
  ASSUME NEW step \in {"Can", "GetPost", "PurgeResource", "DeletePost"}, NEW got
  PROVE  Honest("deletePost", step, got, DeletePost(step, got))
BY DEF Honest, Forms, Pages, DeletePost, AuthorizePost, RequirePermission, StepsOf, Gained,
   Untouched, Refusals, Steps, Outcomes, Writes, Sentinels, Found

LEMMA AfterIsHonest ==
  ASSUME NEW p \in Pages, NEW step \in StepsOf(p), NEW got \in Answers, NEW user \in BOOLEAN
  PROVE  Honest(p, step, got, After(p, step, got, user))
<1>1. CASE step = "ResolveSession"
  <2>1. After(p, step, got, user) = Resolve(p, got)
    BY <1>1, Zenon DEF After
  <2>2. QED BY <1>1, <2>1, ResolveIsHonest
<1>2. CASE step # "ResolveSession"
  <2> DEFINE next == After(p, step, got, user)
  <2>1. \/ /\ p = "index" /\ next = Index(step, got)
           /\ step \in {"SetupOpen", "ListPosts"}
        \/ /\ p = "showPost" /\ next = ShowPost(step, got, user)
           /\ step \in {"GetPost", "CanRead"}
        \/ /\ p = "accountSubmit" /\ next = AccountSubmit(got)
           /\ step = "UpdateProfile"
        \/ /\ p = "createPost" /\ next = CreatePost(step, got)
           /\ step \in {"Can", "CreatePost", "Grant", "GrantAgain"}
        \/ /\ p = "updatePost" /\ next = UpdatePost(step, got)
           /\ step \in {"Can", "GetPost", "UpdatePost"}
        \/ /\ p = "setPostStatus" /\ next = SetPostStatus(step, got)
           /\ step \in {"Can", "GetPost", "SetStatus"}
        \/ /\ p = "deletePost" /\ next = DeletePost(step, got)
           /\ step \in {"Can", "GetPost", "PurgeResource", "DeletePost"}
    BY <1>2 DEF After, Pages, StepsOf
  <2> HIDE DEF next
  <2>2. Honest(p, step, got, next)
    BY <2>1, IndexIsHonest, ShowPostIsHonest, AccountSubmitIsHonest, CreatePostIsHonest,
       UpdatePostIsHonest, SetPostStatusIsHonest, DeletePostIsHonest, Zenon
  <2>3. QED BY <2>2 DEF next
<1>3. QED BY <1>1, <1>2

\* In one process the page of a write is told of its verdict by its code alone.
LEMMA WriteIsTranslated ==
  ASSUME NEW q \in Requests, NEW step \in Writes, NEW v, v # "unread"
  PROVE  \E code \in {AuthClassify(v), AuthzClassify(v), ContentClassify(v)} :
           InOneProcess(<<q, step>>, v) = TranslateDirect(code, v)
<1> DEFINE op == Op(step)
<1>1. op \in {"UpdateProfile", "CreatePost", "Grant", "UpdatePost", "SetStatus",
             "PurgeResource", "DeletePost"}
  BY DEF Op, Writes
<1>2. InOneProcess(<<q, step>>, v) = Direct(op, v)
  BY DEF InOneProcess
<1> HIDE DEF op
<1>3. CASE op = "UpdateProfile"
  <2>1. op \in AuthOps /\ op \notin AuthzOps \cup ContentOps
    BY <1>3, OpsAre
  <2>2. Direct(op, v) = DirectAuth(op, TRUE, v)
    BY <2>1, Zenon DEF Direct
  <2>3. DirectAuth(op, TRUE, v) = TranslateDirect(AuthClassify(v), v)
    BY <1>3 DEF DirectAuth
  <2>4. QED BY <1>2, <2>2, <2>3
<1>4. CASE op \in {"Grant", "PurgeResource"}
  <2>1. Direct(op, v) = DirectAuthz(v)
    BY <1>4, OpsAre DEF Direct
  <2>2. QED BY <1>2, <2>1 DEF DirectAuthz
<1>5. CASE op \in {"CreatePost", "UpdatePost", "SetStatus", "DeletePost"}
  <2>1. Direct(op, v) = DirectContent(v)
    BY <1>5, OpsAre DEF Direct
  <2>2. QED BY <1>2, <2>1 DEF DirectContent
<1>6. QED BY <1>1, <1>3, <1>4, <1>5

LEMMA ValueMeansValue ==
  ASSUME NEW q \in Requests, NEW step \in Writes, NEW v,
         InOneProcess(<<q, step>>, v) = "value"
  PROVE  v = "value"
<1>1. v # "unread"
  BY DEF InOneProcess
<1>2. PICK code : TranslateDirect(code, v) = "value"
  BY <1>1, WriteIsTranslated
<1>3. QED BY <1>2 DEF TranslateDirect, ErrorFromCode, Codes

LEMMA SentinelMeansRefused ==
  ASSUME NEW q \in Requests, NEW step \in Writes, NEW v \in {"value", "failure"}
  PROVE  InOneProcess(<<q, step>>, v) \notin Sentinels
<1>1. PICK code \in {AuthClassify(v), AuthzClassify(v), ContentClassify(v)} :
        InOneProcess(<<q, step>>, v) = TranslateDirect(code, v)
  BY WriteIsTranslated
<1>2. code = ""
  BY <1>1 DEF AuthClassify, AuthzClassify, ContentClassify
<1>3. QED BY <1>1, <1>2 DEF TranslateDirect, Sentinels, Values, Codes

LEMMA OpenMeansOpen ==
  ASSUME NEW q \in Requests, NEW v \in Decidable("SetupOpen"),
         InOneProcess(<<q, "SetupOpen">>, v) = "yes"
  PROVE  v = "yes"
<1>1. Decidable("SetupOpen") = {"yes", "no", "failure"}
  BY OpsAre DEF Decidable, ResultsOf, Op, CarriesForm, AuthResults
<1>2. Direct("SetupOpen", v) = DirectAuth("SetupOpen", TRUE, v)
  <2>1. "SetupOpen" \in AuthOps
    BY OpsAre
  <2>2. QED BY <2>1, OpsAre, Zenon DEF Direct
<1>3. QED
  BY <1>1, <1>2 DEF InOneProcess, Op, DirectAuth, TakesReference, Values

\* A success is stored, and what is stored came of a success or of a failure.
Decided ==
  \A q \in Requests, step \in Writes :
    /\ verdict[<<q, step>>] = "value" => <<q, step>> \in applied
    /\ <<q, step>> \in applied => verdict[<<q, step>>] \in {"value", "failure"}

\* What the page was told of its writes on the way to where it is.
OnCourse ==
  \A q \in Requests :
    /\ at[q] \in Steps => at[q] \in StepsOf(page[q])
    /\ \A step \in Gained(page[q], at[q]) : told[<<q, step>>] = "value"
    /\ page[q] = "createPost" /\ at[q] = "303" =>
         \E step \in {"Grant", "GrantAgain"} : told[<<q, step>>] = "value"
    /\ at[q] = "303" => page[q] \in Forms
    /\ at[q] = "/setup" => told[<<q, "SetupOpen">>] = "yes"
    /\ \A step \in Writes :
         <<q, step>> \in sent \cup applied => step = at[q] \/ told[<<q, step>>] # None
    /\ at[q] \in Untouched =>
         \A step \in Writes : told[<<q, step>>] \in Sentinels \cup {None}

StoredInv == IInv /\ Decided /\ OnCourse

LEMMA InitStored == Init => StoredInv
<1> SUFFICES ASSUME Init PROVE StoredInv
  OBVIOUS
<1>1. IInv
  BY InitInv
<1>2. Writes \subseteq Steps
  BY DEF Writes, Steps
<1>3. Decided
  BY <1>2, NoneIsNoValue DEF Init, Decided, Calls, Results, Values
<1>4. OnCourse
  BY <1>2 DEF Init, OnCourse, Calls, Gained, Untouched, Refusals, Steps
<1>5. QED BY <1>1, <1>3, <1>4 DEF StoredInv

\* A call whose verdict was given is not decided on again.
LEMMA DecidedStep ==
  ASSUME StoredInv, NEW q \in Requests, NEW step \in Steps, NEW v,
         <<q, step>> \in sent,
         verdict' = [verdict EXCEPT ![<<q, step>>] = v],
         \/ applied' = applied \cup {<<q, step>>} /\ v \in {"value", "failure"}
         \/ applied' = applied /\ ~(step \in Writes /\ v = "value")
  PROVE  Decided'
<1> SUFFICES ASSUME NEW r \in Requests, NEW s \in Writes
             PROVE  /\ verdict'[<<r, s>>] = "value" => <<r, s>> \in applied'
                    /\ <<r, s>> \in applied' => verdict'[<<r, s>>] \in {"value", "failure"}
  BY DEF Decided
<1>1. <<r, s>> \in Calls /\ <<q, step>> \in Calls
  BY DEF Writes, Steps, Calls
<1>2. /\ verdict[<<r, s>>] = "value" => <<r, s>> \in applied
      /\ <<r, s>> \in applied => verdict[<<r, s>>] \in {"value", "failure"}
  BY DEF StoredInv, Decided
<1>3. verdict[<<q, step>>] = None /\ None \notin {"value", "failure"}
  BY NoneIsNoValue DEF StoredInv, IInv, OnceEach, Values
<1>4. verdict'[<<r, s>>] = IF <<r, s>> = <<q, step>> THEN v ELSE verdict[<<r, s>>]
  BY <1>1 DEF StoredInv, IInv, TypeOK
<1>5. CASE <<r, s>> = <<q, step>>
  BY <1>2, <1>3, <1>4, <1>5
<1>6. CASE <<r, s>> # <<q, step>>
  BY <1>2, <1>4, <1>6
<1>7. QED BY <1>5, <1>6

LEMMA DecidedNext == StoredInv /\ [Next]_vars => Decided'
<1> SUFFICES ASSUME StoredInv, [Next]_vars PROVE Decided'
  OBVIOUS
<1>1. ASSUME NEW q \in Requests, NEW step \in Steps, Serve(q, step) PROVE Decided'
  <2>1. PICK result \in ResultsOf(Op(step)) :
          /\ verdict' = [verdict EXCEPT ![<<q, step>>] = result]
          /\ \/ applied' = applied \cup {<<q, step>>} /\ result \in {"value", "failure"}
             \/ applied' = applied /\ ~(step \in Writes /\ result = "value")
    BY <1>1 DEF Serve
  <2>2. <<q, step>> \in sent
    BY <1>1 DEF Serve
  <2>3. QED BY <2>1, <2>2, DecidedStep
<1>2. ASSUME NEW q \in Requests, NEW step \in Steps, Unread(q, step) PROVE Decided'
  BY <1>2, DecidedStep DEF Unread
<1>3. ASSUME UNCHANGED <<verdict, applied>> PROVE Decided'
  BY <1>3 DEF StoredInv, Decided
<1>4. ASSUME NEW q \in Requests,
             Begin(q) \/ Receive(q) \/ CallFails(q) \/ Interpose(q) \/ CutShort(q)
      PROVE  Decided'
  BY <1>3, <1>4 DEF Begin, Receive, CallFails, Continue, Interpose, CutShort
<1>5. ASSUME NEW token \in Tokens, EndSession(token) PROVE Decided'
  BY <1>3, <1>5 DEF EndSession
<1>6. CASE UNCHANGED vars
  BY <1>3, <1>6 DEF vars
<1>7. QED BY <1>1, <1>2, <1>4, <1>5, <1>6 DEF Next

\* The part of OnCourse about one request, as it is after a step.
LEMMA CourseContinues ==
  ASSUME StoredInv, NEW q \in Requests, at[q] \in Steps, NEW got \in Answers,
         NEW before \in {sent, sent \ {<<q, at[q]>>}},
         Continue(q, got, before)
  PROVE  OnCourse'
<1> DEFINE step == at[q]
           next == After(page[q], step, got, signedIn[q])
<1>1. page[q] \in Pages /\ signedIn[q] \in BOOLEAN /\ step \in StepsOf(page[q])
  BY DEF StoredInv, IInv, TypeOK, Begun, OnCourse, Steps
<1>2. Honest(page[q], step, got, next)
  BY <1>1, AfterIsHonest
<1> HIDE DEF next
<1>3. /\ at' = [at EXCEPT ![q] = next]
      /\ sent' = before \cup ({<<q, next>>} \cap Calls)
      /\ told' = [told EXCEPT ![<<q, step>>] = got]
      /\ UNCHANGED <<page, applied>>
  BY DEF Continue, Go, next
<1>4. \A r \in Requests, s \in Steps :
        LET c == <<r, s>>
        IN /\ at'[r] = (IF r = q THEN next ELSE at[r])
           /\ told'[c] = (IF r = q /\ s = step THEN got ELSE told[c])
           /\ c \in sent' => c \in sent \/ (r = q /\ s = next)
  BY <1>3 DEF StoredInv, IInv, TypeOK, Calls
<1>5. told[<<q, step>>] = None
  BY RankType DEF StoredInv, IInv, OnceEach
<1>6. got # None /\ None \notin {"value", "yes"} \cup Sentinels
  BY NoneIsNoValue DEF Answers, Values
<1>7. Writes \subseteq Steps /\ {"Grant", "GrantAgain", "SetupOpen"} \subseteq Steps
  BY DEF Writes, Steps
<1>8. \A p, a : Gained(p, a) \subseteq Steps
  BY DEF Gained, Steps
<1> SUFFICES ASSUME NEW r \in Requests
             PROVE  /\ at'[r] \in Steps => at'[r] \in StepsOf(page[r])
                    /\ \A s \in Gained(page[r], at'[r]) : told'[<<r, s>>] = "value"
                    /\ page[r] = "createPost" /\ at'[r] = "303" =>
                         \E s \in {"Grant", "GrantAgain"} : told'[<<r, s>>] = "value"
                    /\ at'[r] = "303" => page[r] \in Forms
                    /\ at'[r] = "/setup" => told'[<<r, "SetupOpen">>] = "yes"
                    /\ \A s \in Writes :
                         <<r, s>> \in sent' \cup applied => s = at'[r] \/ told'[<<r, s>>] # None
                    /\ at'[r] \in Untouched =>
                         \A s \in Writes : told'[<<r, s>>] \in Sentinels \cup {None}
  BY <1>3 DEF OnCourse
<1>9. /\ at[r] \in Steps => at[r] \in StepsOf(page[r])
      /\ \A s \in Gained(page[r], at[r]) : told[<<r, s>>] = "value"
      /\ page[r] = "createPost" /\ at[r] = "303" =>
           \E s \in {"Grant", "GrantAgain"} : told[<<r, s>>] = "value"
      /\ at[r] = "303" => page[r] \in Forms
      /\ at[r] = "/setup" => told[<<r, "SetupOpen">>] = "yes"
      /\ \A s \in Writes :
           <<r, s>> \in sent \cup applied => s = at[r] \/ told[<<r, s>>] # None
      /\ at[r] \in Untouched =>
           \A s \in Writes : told[<<r, s>>] \in Sentinels \cup {None}
  BY DEF StoredInv, OnCourse
<1>10. CASE r # q
  <2>1. at'[r] = at[r]
    BY <1>4, <1>7, <1>10
  <2>2. \A s \in Steps : told'[<<r, s>>] = told[<<r, s>>] /\ (<<r, s>> \in sent' => <<r, s>> \in sent)
    BY <1>4, <1>10
  <2>3. QED BY <1>7, <1>8, <1>9, <2>1, <2>2
<1>11. CASE r = q
  <2>1. at'[q] = next
    BY <1>4, <1>7
  <2>2. \A s \in Steps : told'[<<q, s>>] = (IF s = step THEN got ELSE told[<<q, s>>])
    BY <1>4
  <2>3. next \in Steps => next \in StepsOf(page[q])
    <3>1. Steps \cap Outcomes = {}
      BY DEF Steps, Outcomes
    <3>2. QED BY <1>2, <3>1 DEF Honest
  <2>4. \A s \in Gained(page[q], next) : told'[<<q, s>>] = "value"
    <3>1. SUFFICES ASSUME NEW s \in Gained(page[q], next)
                   PROVE  told'[<<q, s>>] = "value"
      OBVIOUS
    <3>2. s \in Gained(page[q], step) \/ (s = step /\ got = "value")
      BY <1>2 DEF Honest
    <3>3. s \in Steps
      BY <1>8
    <3>4. CASE s \in Gained(page[q], step)
      BY <1>5, <1>6, <1>9, <1>11, <2>2, <3>3, <3>4
    <3>5. CASE s = step /\ got = "value"
      BY <2>2, <3>3, <3>5
    <3>6. QED BY <3>2, <3>4, <3>5
  <2>5. page[q] = "createPost" /\ next = "303" =>
          \E s \in {"Grant", "GrantAgain"} : told'[<<q, s>>] = "value"
    BY <1>2, <1>7, <2>2 DEF Honest
  <2>6. /\ next = "303" => page[q] \in Forms
        /\ next = "/setup" => told'[<<q, "SetupOpen">>] = "yes"
    BY <1>2, <1>7, <2>2 DEF Honest
  <2>7. \A s \in Writes : <<q, s>> \in sent' \cup applied => s = next \/ told'[<<q, s>>] # None
    BY <1>4, <1>6, <1>7, <1>9, <1>11, <2>2
  <2>8. next \in Untouched => \A s \in Writes : told'[<<q, s>>] \in Sentinels \cup {None}
    BY <1>2, <1>7, <1>9, <1>11, <2>2 DEF Honest
  <2>9. QED BY <1>11, <2>1, <2>3, <2>4, <2>5, <2>6, <2>7, <2>8
<1>12. QED BY <1>10, <1>11

LEMMA CourseBegins ==
  ASSUME StoredInv, NEW q \in Requests, Begin(q)
  PROVE  OnCourse'
<1>1. PICK p \in Pages, token \in Tokens \cup {None} :
        /\ page' = [page EXCEPT ![q] = p]
        /\ Go(q, IF token = None THEN First(p, FALSE) ELSE "ResolveSession", sent)
  BY DEF Begin
<1> DEFINE next == IF token = None THEN First(p, FALSE) ELSE "ResolveSession"
<1>2. next \in {"ResolveSession", "SetupOpen", "GetPost", "401"}
  BY DEF First, Pages
<1>3. next \in Steps => next \in StepsOf(p)
  BY DEF First, StepsOf, Pages, Steps
<1> HIDE DEF next
<1>4. /\ at' = [at EXCEPT ![q] = next]
      /\ sent' = sent \cup ({<<q, next>>} \cap Calls)
      /\ at[q] = "browser"
      /\ UNCHANGED <<applied, told>>
  BY <1>1 DEF Begin, Go, next
<1>5. \A r \in Requests :
        /\ at'[r] = (IF r = q THEN next ELSE at[r])
        /\ page'[r] = (IF r = q THEN p ELSE page[r])
        /\ \A s \in Steps : <<r, s>> \in sent' => <<r, s>> \in sent \/ (r = q /\ s = next)
  BY <1>1, <1>4 DEF StoredInv, IInv, TypeOK
<1>6. \A s \in Steps : <<q, s>> \notin sent \cup applied /\ told[<<q, s>>] = None
  <2>1. Rank("browser") = 0 /\ \A s \in Steps : Rank(s) \in Nat /\ Rank(s) > 0
    BY DEF Rank, Steps
  <2>2. QED BY <1>4, <2>1 DEF StoredInv, IInv, OnceEach
<1>7. Writes \subseteq Steps
  BY DEF Writes, Steps
<1>8. Gained(p, next) = {} /\ next \notin {"303", "/setup"}
  BY <1>2 DEF Gained
<1> SUFFICES ASSUME NEW r \in Requests
             PROVE  /\ at'[r] \in Steps => at'[r] \in StepsOf(page'[r])
                    /\ \A s \in Gained(page'[r], at'[r]) : told[<<r, s>>] = "value"
                    /\ page'[r] = "createPost" /\ at'[r] = "303" =>
                         \E s \in {"Grant", "GrantAgain"} : told[<<r, s>>] = "value"
                    /\ at'[r] = "303" => page'[r] \in Forms
                    /\ at'[r] = "/setup" => told[<<r, "SetupOpen">>] = "yes"
                    /\ \A s \in Writes :
                         <<r, s>> \in sent' \cup applied => s = at'[r] \/ told[<<r, s>>] # None
                    /\ at'[r] \in Untouched =>
                         \A s \in Writes : told[<<r, s>>] \in Sentinels \cup {None}
  BY <1>4 DEF OnCourse
<1>9. CASE r = q
  BY <1>3, <1>5, <1>6, <1>7, <1>8, <1>9
<1>10. CASE r # q
  BY <1>5, <1>7, <1>10 DEF StoredInv, OnCourse
<1>11. QED BY <1>9, <1>10

LEMMA CourseNext == StoredInv /\ [Next]_vars => OnCourse'
<1> SUFFICES ASSUME StoredInv, [Next]_vars PROVE OnCourse'
  OBVIOUS
<1>1. ASSUME NEW q \in Requests, Begin(q) PROVE OnCourse'
  BY <1>1, CourseBegins
<1>2. ASSUME NEW q \in Requests, Receive(q) PROVE OnCourse'
  BY <1>2, ReceiveIs, CourseContinues DEF StoredInv
<1>3. ASSUME NEW q \in Requests, CallFails(q) PROVE OnCourse'
  BY <1>3, CourseContinues DEF CallFails, Answers
<1>4. ASSUME sent' \cup applied' \subseteq sent \cup applied, UNCHANGED <<page, at, told>>
      PROVE  OnCourse'
  BY <1>4 DEF StoredInv, OnCourse
<1>5. ASSUME NEW q \in Requests, NEW step \in Steps, Serve(q, step) \/ Unread(q, step)
      PROVE  OnCourse'
  <2>1. sent' \cup applied' \subseteq sent \cup applied /\ UNCHANGED <<page, at, told>>
    BY <1>5 DEF Serve, Unread
  <2>2. QED BY <1>4, <2>1
<1>6. ASSUME NEW q \in Requests, Interpose(q) \/ CutShort(q) PROVE OnCourse'
  BY <1>4, <1>6 DEF Interpose, CutShort
<1>7. ASSUME NEW token \in Tokens, EndSession(token) PROVE OnCourse'
  BY <1>4, <1>7 DEF EndSession
<1>8. CASE UNCHANGED vars
  BY <1>4, <1>8 DEF vars
<1>9. QED BY <1>1, <1>2, <1>3, <1>5, <1>6, <1>7, <1>8 DEF Next

LEMMA SpecStored == Spec => []StoredInv
<1>1. StoredInv /\ [Next]_vars => StoredInv'
  BY NextInv, DecidedNext, CourseNext DEF StoredInv
<1>2. QED BY <1>1, InitStored, PTL DEF Spec

\* A write told to have succeeded is stored, if it was the service that told.
LEMMA ToldIsStored ==
  ASSUME StoredInv, NEW q \in Requests, NEW step \in Writes, told[<<q, step>>] = "value"
  PROVE  \/ <<q, step>> \in applied
         \/ <<q, step>> \in mistaken /\ step \in Blind
<1> DEFINE c == <<q, step>>
           v == verdict[c]
<1>1. step \in Steps /\ "value" \notin {None, "failure"}
  BY NoneIsNoValue DEF Writes, Steps, Values
<1>2. CASE c \in mistaken
  BY <1>1, <1>2 DEF StoredInv, IInv, Truthful
<1>3. CASE c \notin mistaken
  <2>1. v # None /\ v \in Decidable(step) /\ InOneProcess(c, v) = "value"
    BY <1>1, <1>3 DEF StoredInv, IInv, Truthful, Faithful
  <2>2. v = "value"
    BY <1>1, <2>1, ValueMeansValue
  <2>3. QED BY <2>2 DEF StoredInv, Decided
<1>4. QED BY <1>2, <1>3

\* A write told to have been turned down is not stored, nor on its way.
LEMMA TurnedDownIsNotStored ==
  ASSUME StoredInv, NEW q \in Requests, NEW step \in Writes, told[<<q, step>>] \in Sentinels
  PROVE  <<q, step>> \notin applied \cup sent
<1> DEFINE c == <<q, step>>
           v == verdict[c]
<1>1. step \in Steps /\ Sentinels \cap {None, "failure", "value"} = {}
  BY NoneIsNoValue DEF Writes, Steps, Sentinels
<1>2. v # None /\ InOneProcess(c, v) \in Sentinels
  BY <1>1 DEF StoredInv, IInv, Truthful, Faithful
<1>3. c \notin sent
  BY <1>1, <1>2 DEF StoredInv, IInv, OnceEach
<1>4. v \notin {"value", "failure"}
  BY <1>1, <1>2, SentinelMeansRefused
<1>5. QED BY <1>3, <1>4 DEF StoredInv, Decided

\* A visitor told that a form succeeded, was turned away or was saved without its
\* grants is told the truth about what the services store, and so is one sent to
\* set the instance up (web/admin_posts.go:105-115, web/account.go:71,
\* web/public.go:29).  Excepted are the grants, the purge and the deletion when
\* another page under status 200 told of their success (pkg/httpx/client.go:127).
THEOREM AnswersTrue == Spec => []AnswersAreTrue
<1>1. StoredInv => AnswersAreTrue
  <2> SUFFICES ASSUME StoredInv, NEW q \in Requests
               PROVE  /\ at[q] = "303" =>
                           CASE page[q] = "accountSubmit" -> "UpdateProfile" \in Stored(q)
                             [] page[q] = "createPost" ->
                                  /\ "CreatePost" \in Stored(q)
                                  /\ (Stored(q) \cup Mistaken(q)) \cap {"Grant", "GrantAgain"} # {}
                             [] page[q] = "updatePost" -> "UpdatePost" \in Stored(q)
                             [] page[q] = "setPostStatus" -> "SetStatus" \in Stored(q)
                             [] page[q] = "deletePost" ->
                                  {"PurgeResource", "DeletePost"} \subseteq Stored(q) \cup Mistaken(q)
                      /\ at[q] = "/setup" => verdict[<<q, "SetupOpen">>] = "yes"
                      /\ at[q] = "unowned" => "CreatePost" \in Stored(q)
                      /\ at[q] \in Refusals => Stored(q) \cup Pending(q) = {}
    BY DEF AnswersAreTrue, Refusals
  <2>1. \A step \in Writes : told[<<q, step>>] = "value" =>
          step \in Stored(q) \/ (step \in Mistaken(q) /\ step \in Blind)
    BY ToldIsStored DEF Stored, Mistaken, Blind, Steps
  <2>2. /\ \A step \in Gained(page[q], at[q]) : told[<<q, step>>] = "value"
        /\ page[q] = "createPost" /\ at[q] = "303" =>
             \E step \in {"Grant", "GrantAgain"} : told[<<q, step>>] = "value"
        /\ at[q] = "/setup" => told[<<q, "SetupOpen">>] = "yes"
    BY DEF StoredInv, OnCourse
  <2>3. \A p, a : Gained(p, a) \subseteq Writes
    BY DEF Gained, Writes
  <2>4. \A step \in Gained(page[q], at[q]) :
          step \in Stored(q) \/ (step \in Mistaken(q) /\ step \in Blind)
    BY <2>1, <2>2, <2>3
  <2>5. at[q] = "303" =>
           CASE page[q] = "accountSubmit" -> "UpdateProfile" \in Stored(q)
             [] page[q] = "createPost" ->
                  /\ "CreatePost" \in Stored(q)
                  /\ (Stored(q) \cup Mistaken(q)) \cap {"Grant", "GrantAgain"} # {}
             [] page[q] = "updatePost" -> "UpdatePost" \in Stored(q)
             [] page[q] = "setPostStatus" -> "SetStatus" \in Stored(q)
             [] page[q] = "deletePost" ->
                  {"PurgeResource", "DeletePost"} \subseteq Stored(q) \cup Mistaken(q)
    <3> SUFFICES ASSUME at[q] = "303"
                 PROVE  CASE page[q] = "accountSubmit" -> "UpdateProfile" \in Stored(q)
                          [] page[q] = "createPost" ->
                               /\ "CreatePost" \in Stored(q)
                               /\ (Stored(q) \cup Mistaken(q)) \cap {"Grant", "GrantAgain"} # {}
                          [] page[q] = "updatePost" -> "UpdatePost" \in Stored(q)
                          [] page[q] = "setPostStatus" -> "SetStatus" \in Stored(q)
                          [] page[q] = "deletePost" ->
                               {"PurgeResource", "DeletePost"} \subseteq Stored(q) \cup Mistaken(q)
      OBVIOUS
    <3>1. page[q] \in {"accountSubmit", "createPost", "updatePost", "setPostStatus", "deletePost"}
      BY DEF StoredInv, OnCourse, Forms, Pages
    <3>2. CASE page[q] = "createPost"
      <4>1. (Stored(q) \cup Mistaken(q)) \cap {"Grant", "GrantAgain"} # {}
        BY <2>1, <2>2, <3>2 DEF Writes
      <4>2. "CreatePost" \in Stored(q)
        BY <2>4, <3>2 DEF Gained, Blind
      <4>3. QED BY <3>2, <4>1, <4>2
    <3>3. CASE page[q] # "createPost"
      BY <2>4, <3>1, <3>3 DEF Gained, Blind
    <3>4. QED BY <3>2, <3>3
  <2>6. at[q] = "/setup" => verdict[<<q, "SetupOpen">>] = "yes"
    <3>1. "SetupOpen" \in Steps /\ "yes" \notin {None, "failure", "value"}
      BY NoneIsNoValue DEF Steps, Values
    <3>2. QED BY <2>2, <3>1, OpenMeansOpen DEF StoredInv, IInv, Truthful, Faithful
  <2>7. at[q] = "unowned" => "CreatePost" \in Stored(q)
    BY <2>4 DEF Gained, Blind
  <2>8. at[q] \in Refusals => Stored(q) \cup Pending(q) = {}
    <3> SUFFICES ASSUME at[q] \in Refusals, NEW step \in Writes, <<q, step>> \in applied \cup sent
                 PROVE  FALSE
      BY DEF Stored, Pending
    <3>1. told[<<q, step>>] # None /\ at[q] \in Untouched
      <4>1. at[q] \in Untouched /\ at[q] \notin Writes
        BY DEF Refusals, Untouched, Writes
      <4>2. QED BY <4>1 DEF StoredInv, OnCourse
    <3>2. told[<<q, step>>] \in Sentinels
      BY <3>1 DEF StoredInv, OnCourse
    <3>3. QED BY <3>2, TurnedDownIsNotStored
  <2>9. QED BY <2>5, <2>6, <2>7, <2>8
<1>2. QED BY <1>1, SpecStored, PTL
=============================================================================
