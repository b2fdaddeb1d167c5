------------------------------- MODULE Exchange -------------------------------
(***************************************************************************)
(* One request of grive: AuthAgent above CurlAgent above the server.        *)
(*                                                                         *)
(* AuthAgent::Request sends a request until the answer is none of 500, 503  *)
(* and 401; after a 401 it renews the token, by the same CurlAgent.  Each   *)
(* attempt reads the body anew (ConcatStream.tla).  What is received goes   *)
(* to the destination stream of the call, or is kept as the text of an      *)
(* error.  The server may carry out a request and answer 500, or the        *)
(* connection may be lost, at any time.                                     *)
(***************************************************************************)
EXTENDS ConcatStream

CONSTANTS
    Http2,      \* the server speaks HTTP/2
    ErrorLimit, \* how much of an error is kept, in blocks: 65536 bytes
    MaxBody,    \* bound: blocks of a body
    MaxTrouble  \* bound: errors, lost connections, and tokens that expire

ASSUME ExchangeAssumption ==
    /\ Http2 \in BOOLEAN
    /\ ErrorLimit \in Nat /\ MaxBody \in Nat /\ MaxTrouble \in Nat

VARIABLES
    call,       \* what is asked: a member of Call
    step,       \* where AuthAgent::Request is
    token,      \* m_access
    bearer,     \* the token in the header of the attempt
    code,       \* response
    error,      \* CurlAgent::Impl: the answer is an error
    received,   \* the blocks of the answer received
    fed,        \* the answers of which blocks went to the destination
    result,     \* how the call ended, "none" before
    issued,     \* the server: the token that is valid
    current,    \* the server: the object has the revision that was listed
    carried,    \* the server: how often it has done what this call asks
    trouble     \* how much has gone wrong

agent  == <<call, step, token, bearer, code, error, received, fed, result>>
server == <<issued, current, carried>>
xvars  == <<svars, agent, server, trouble>>

\* create and edit send a file, move is a rename, and fetch a download.
Call       == {"create", "edit", "trash", "move", "fetch"}
Uploads(c) == c \in {"create", "edit"}

\* Faulty: DeleteRemote does not say which revision it means.
GuardedEdit(c) == c = "edit"

\* The calls with the header If-Match.
Guarded(c) == c \in {"edit", "trash"}

\* The answer is parsed as JSON while it comes.
Parsed(c) == c \in {"create", "edit", "move"}

Good == {200}

-------------------------------------------------------------------------------
(* The loop.                                                               *)

\* The walk asks for something.  A process that has died was started again, and got a
\* token first.
Begin(c) ==
    /\ step = "idle"
    /\ step' = "top"
    /\ call' = c
    /\ IF Uploads(c) THEN Build ELSE NoStream
    /\ code' = 0 /\ received' = 0 /\ fed' = {} /\ error' = FALSE
    /\ result' = "none"
    /\ current' = TRUE /\ carried' = 0
    /\ token' = IF result = "died" THEN issued ELSE token
    /\ UNCHANGED <<bearer, issued, trouble>>

\* Faulty: the header is made once, before the loop.
FirstHeader == IF code = 0 THEN token ELSE bearer

\* AppendHeader
AuthHeader == token

\* CurlAgent::Init: the error and the text of the last attempt are forgotten.
Reset == error' = FALSE /\ received' = 0

\* The header with the token, the body from its beginning.
Attempt ==
    /\ step = "top"
    /\ step' = "send"
    /\ bearer' = AuthHeader
    /\ IF Uploads(call) THEN Rewind ELSE UNCHANGED svars
    /\ Reset
    /\ UNCHANGED <<call, token, code, fed, result, server, trouble>>

\* libcurl reads the body.
Send ==
    /\ step = "send" /\ Uploads(call)
    /\ (\E w \in Windows : Ask(w)) \/ ReadPart \/ GiveBytes
    /\ UNCHANGED <<agent, server, trouble>>

\* Ends the call by an exception, which is caught for this resource or is not.
Throw(how) ==
    /\ step' = "idle"
    /\ result' = how
    /\ UNCHANGED <<call, token, bearer, code, error, received, fed>>

\* What Read gave is more than its buffer holds.
Overrun ==
    /\ step = "send" /\ GivesTooMuch
    /\ Throw("error") \/ Throw("died")
    /\ UNCHANGED <<svars, server, trouble>>

\* CURLcode is not CURLE_OK.
ConnectionLost ==
    /\ step \in {"send", "reply", "refresh"}
    /\ trouble < MaxTrouble /\ trouble' = trouble + 1
    /\ Throw("error")
    /\ UNCHANGED <<svars, server>>

-------------------------------------------------------------------------------
(* The server.                                                             *)

\* Faulty: 500 and above are not taken for errors.
ClientError(c) == c \div 100 = 4

\* HeaderCallback looks at the tenth character of the status line: the first digit of
\* the code after "HTTP/1.1", the last one after "HTTP/2".
IsError(c) == IF Http2 THEN c % 10 >= 4 ELSE c \div 100 >= 4

Answer(c) ==
    /\ step = "send"
    /\ step' = "reply"
    /\ code' = c
    /\ error' = (error \/ IsError(c))
    /\ UNCHANGED <<svars, call, token, bearer, received, fed, result, issued>>

\* The body has come whole.
Complete == Uploads(call) => want = 0 /\ Len(sent) = Total

Unauthorized == bearer # issued /\ Answer(401) /\ UNCHANGED <<current, carried, trouble>>

\* An error for another reason than what is asked, before anything is done.
Refuse ==
    /\ trouble < MaxTrouble /\ trouble' = trouble + 1
    /\ \E c \in {403, 500, 503} : Answer(c)
    /\ UNCHANGED <<current, carried>>

PreconditionFailed ==
    /\ bearer = issued
    /\ Guarded(call) /\ ~current
    /\ Answer(412)
    /\ UNCHANGED <<current, carried, trouble>>

\* The request is carried out, and answered by an error nevertheless, perhaps.
CarryOut ==
    /\ bearer = issued /\ Complete
    /\ Guarded(call) => current
    /\ carried' = IF call = "fetch" THEN 1 ELSE carried + 1
    /\ current' = (current /\ call = "fetch")
    /\ \/ Answer(200) /\ UNCHANGED trouble
       \/ \E c \in {500, 503} :
             trouble < MaxTrouble /\ trouble' = trouble + 1 /\ Answer(c)

\* Somebody else changes the object, after it was listed.
OtherEdit ==
    /\ result = "none" /\ current
    /\ current' = FALSE
    /\ UNCHANGED <<svars, agent, issued, carried, trouble>>

Expire ==
    /\ trouble < MaxTrouble /\ trouble' = trouble + 1
    /\ issued' = issued + 1
    /\ UNCHANGED <<svars, agent, current, carried>>

-------------------------------------------------------------------------------
(* The answer.                                                             *)

\* Receive keeps an error, up to its limit.
Kept == error /\ received < ErrorLimit

\* What becomes of a JSON text while it comes: after another it is a syntax error, and
\* the text of an error may be no JSON.
Parse ==
    IF fed # {} /\ received = (IF error THEN ErrorLimit ELSE 0) THEN {"died"}
    ELSE IF code \in Good THEN {"none"} ELSE {"none", "died"}

\* Receive: all else is fed to the destination.
Receive ==
    /\ step = "reply" /\ received < MaxBody
    /\ received' = received + 1
    /\ fed' = IF Kept THEN fed ELSE fed \union {code}
    /\ result' \in IF Kept \/ ~Parsed(call) THEN {"none"} ELSE Parse
    /\ step' = IF result' = "died" THEN "idle" ELSE step
    /\ UNCHANGED <<svars, call, token, bearer, code, error, server, trouble>>

\* The answer ends.  A JSON text is not empty; a file may be.
Received ==
    /\ step = "reply"
    /\ code \in Good /\ Parsed(call) => received > 0
    /\ step' = "check"
    /\ UNCHANGED <<svars, call, token, bearer, code, error, received, fed, result,
                   server, trouble>>

\* CheckHttpResponse throws.
Throws == code >= 400

\* CheckRetry, then CheckHttpResponse.
Check ==
    /\ step = "check"
    /\ \/ code \in {500, 503} /\ step' = "top" /\ UNCHANGED result
       \/ code = 401 /\ step' = "refresh" /\ UNCHANGED result
       \/ code \notin {500, 503, 401} /\ Throws /\ step' = "idle" /\ result' = "error"
       \/ code \notin {500, 503, 401} /\ ~Throws /\ step' = "idle" /\ result' = "returned"
    /\ UNCHANGED <<svars, call, token, bearer, code, error, received, fed, server, trouble>>

\* Faulty: the answer to the renewal is not kept.
OldToken == token

\* OAuth2::Refresh: the access token of the answer.
NewToken == issued

\* CurlAgent::Request begins anew for it, so the text of the error is gone.
Refresh ==
    /\ step = "refresh"
    /\ step' = "top"
    /\ token' = NewToken
    /\ error' = FALSE /\ received' = 0
    /\ UNCHANGED <<svars, call, bearer, code, fed, result, server, trouble>>

\* AuthFailed, which only main catches.
RefreshFails ==
    /\ step = "refresh"
    /\ trouble < MaxTrouble /\ trouble' = trouble + 1
    /\ Throw("died")
    /\ UNCHANGED <<svars, server>>

\* Somebody writes the file that is sent.
Rewrite ==
    /\ \E f \in Versions : WriteFile(f)
    /\ UNCHANGED <<agent, server, trouble>>

Work ==
    \/ Attempt \/ Send \/ Overrun
    \/ Unauthorized \/ PreconditionFailed \/ CarryOut
    \/ Receive \/ Received \/ Check \/ Refresh

Troubles == ConnectionLost \/ Refuse \/ Expire \/ RefreshFails

Next ==
    \/ \E c \in Call : Begin(c)
    \/ Work \/ Troubles \/ OtherEdit \/ Rewrite

Init ==
    /\ SInit
    /\ call = "none" /\ step = "idle"
    /\ token = 0 /\ bearer = 0 /\ issued = 0
    /\ code = 0 /\ error = FALSE /\ received = 0 /\ fed = {}
    /\ result = "returned"
    /\ current = FALSE /\ carried = 0
    /\ trouble = 0

Spec == Init /\ [][Next]_xvars

\* The process goes on, and the server answers: nothing here has a timeout.
FairSpec == Spec /\ WF_xvars(Work)

-------------------------------------------------------------------------------
(* Properties.                                                             *)

\* No part of an error goes where the answer is to go, and an answer that is returned
\* went there: "Do not feed error responses to destination stream"
\* (http/CurlAgent.cc:152).  Otherwise the text of the first error stands before the
\* file that a retry downloads, and no JSON is parsed after a retry.
NoErrorFed ==
    /\ fed \subseteq Good
    /\ result = "returned" /\ call # "none" => fed = IF received = 0 THEN {} ELSE Good

\* A token that was refused is not sent again in the same call: after a 401 the next
\* attempt has a newer one.
TokenRenewed == [][step = "top" /\ step' = "send" /\ code = 401 => bearer' > bearer]_xvars

\* A request is what Grive.tla takes it for: carried out at most once unless it can be
\* repeated, and carried out if it returns.
Abstract == INSTANCE RemoteCall WITH Repeatable <- {"create", "move"}
CallSpec == Abstract!Spec

\* A call ends, whatever was retried, if the server answers and errors end.
CallEnds == result = "none" ~> result # "none"

===============================================================================
