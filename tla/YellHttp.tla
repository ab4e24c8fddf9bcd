------------------------------ MODULE YellHttp ------------------------------
(***************************************************************************)
(* libyellhttp: YellHttp_ExecRequest with its redirections, its retries    *)
(* after a 401 and the header callbacks, over a context the application    *)
(* keeps from call to call, the downloaded files and a server whose pages  *)
(* change.  Connections may fail, be closed or be reset at any point.      *)
(*                                                                         *)
(* A body is the version of a page, or the text of another answer, and the *)
(* number of units received of it.                                         *)
(***************************************************************************)
EXTENDS Integers, FiniteSets

CONSTANTS
    Files,      \* last parts of URLs, the names downloads are stored under
    Sites,      \* what the server has: functions from URLs to Pages
    Users,      \* users the authentication callback can offer
    B,          \* RECVBUFSZ in units of a body
    LenMod,     \* 2^32: content_len is an unsigned int
    PageLen,    \* size of version v of a page: a function on 0 .. MaxVer
    ErrLen,     \* size of the body of any other answer
    TimeZone,   \* local time minus GMT
    Options,    \* how the application calls it
    MaxVer, MaxTime, MaxCalls   \* bounds on changes, clock and calls

Urls == [ssl : BOOLEAN, port : {"default", "other"}, file : Files]
NoUrl == [ssl |-> FALSE, port |-> "default", file |-> "none"]

\* A Location header: a whole URL, one that begins with "/", or a relative one.
Locations == [form : {"whole", "rooted", "relative"}, url : Urls]
NoLocation == [form |-> "none", url |-> NoUrl]

\* auth is the scheme of WWW-Authenticate; "other" is not Basic and not Digest
\* with MD5.  measured: answers have a Content-Length; changes: the page may.
Pages == [kind : {"page", "moved", "missing"}, to : Locations \cup {NoLocation},
          auth : {"none", "basic", "digest", "other"}, user : 1 .. Users + 1,
          http : {"1.0", "1.1"}, measured : BOOLEAN, changes : BOOLEAN]

ASSUME YellHttpConstants ==
    /\ Users \in Nat /\ B \in Nat \ {0} /\ ErrLen \in Nat \ {0}
    /\ MaxVer \in Nat /\ MaxTime \in Nat /\ MaxCalls \in Nat
    /\ LenMod \in Nat /\ ErrLen < LenMod
    /\ PageLen \in [0 .. MaxVer -> 1 .. LenMod - 1]
    /\ TimeZone \in Int
    /\ "none" \notin Files
    /\ Options \subseteq [type : {"GET", "HEAD", "POST"}, data : BOOLEAN,
                          nocache : BOOLEAN, noredir : BOOLEAN]
    /\ \A o \in Options : o.data => o.type = "POST"
    /\ \A s \in Sites : DOMAIN s \subseteq Urls /\ \A u \in DOMAIN s : s[u] \in Pages

VARIABLES
    site, hascb,      \* the server's URLs; whether YellHttp_SetAuthCb was called
    version, now,     \* version and time of change of each page; the clock
    pc,               \* where ExecRequest is, "idle" between the calls
    opt,              \* request type, POST data and server_flags of the call
    arg, byref,       \* the URL passed, and whether it points to ctx->redirecturl
    ctx,              \* the context
    offered,          \* the user the callback offered last
    sock,             \* sock_client is an open socket
    request, res,     \* what was sent; the answer, or NoAnswer
    left, lost,       \* units of the body not yet read; how the connection was lost
    content_len, counting,
    files,            \* the downloads
    ret, calls,
    trouble           \* history: the worst that has happened

world == <<site, hascb, version, now>>
call == <<opt, arg, byref, calls>>
wire == <<request, res, left, lost>>
body == <<content_len, counting>>
vars == <<world, pc, call, ctx, offered, sock, wire, body, files, ret, trouble>>

DefaultOption == [type |-> "GET", data |-> FALSE, nocache |-> FALSE, noredir |-> FALSE]
NoAnswer == [status |-> 0]
NoRequest == [ims |-> -1, user |-> 0]
NoFile == [what |-> "none"]

FreshCtx == [status |-> 0, length |-> 0, httpversion |-> "1.1", redirecturl |-> NoUrl,
             authenticated |-> 0, digest |-> FALSE, errors |-> 0, user |-> 0]

Init ==
    /\ site \in Sites /\ hascb \in BOOLEAN
    /\ version = [u \in DOMAIN site |-> [ver |-> 0, mtime |-> 0]]
    /\ now = 0
    /\ pc = "idle"
    /\ opt = DefaultOption
    /\ arg = NoUrl /\ byref = FALSE
    /\ ctx = FreshCtx
    /\ offered = 0
    /\ sock = FALSE
    /\ request = NoRequest /\ res = NoAnswer /\ left = 0 /\ lost = "no"
    /\ content_len = 0 /\ counting = FALSE
    /\ files = [f \in Files |-> NoFile]
    /\ ret = "none" /\ calls = 0
    /\ trouble = "none"

CutShort == trouble' = IF trouble = "killed" THEN trouble ELSE "cut"

-----------------------------------------------------------------------------
(* The server and the network *)

\* The time only matters where pages change.
Tick ==
    /\ now < MaxTime
    /\ \E u \in DOMAIN site : site[u].changes
    /\ now' = now + 1
    /\ UNCHANGED <<site, hascb, version, pc, call, ctx, offered, sock, wire, body, files, ret, trouble>>

Change(u) ==
    /\ site[u].changes /\ version[u].ver < MaxVer
    /\ version' = [version EXCEPT ![u] = [ver |-> @.ver + 1, mtime |-> now]]
    /\ UNCHANGED <<site, hascb, now, pc, call, ctx, offered, sock, wire, body, files, ret, trouble>>

\* What the server says to a request: refused, moved, missing, not modified, or
\* the page.
Status(u) ==
    IF site[u].auth # "none" /\ request.user # site[u].user THEN 401
    ELSE CASE site[u].kind = "moved" -> 301
           [] site[u].kind = "missing" -> 404
           [] site[u].kind = "page" -> IF request.ims >= version[u].mtime THEN 304 ELSE 200

Serve ==
    /\ pc = "headers" /\ res = NoAnswer /\ lost = "no"
    /\ LET u == arg
           s == Status(u)
           size == IF s = 200 THEN PageLen[version[u].ver] ELSE IF s = 304 THEN 0 ELSE ErrLen
       IN  /\ res' = [status |-> s, url |-> u, ver |-> version[u].ver,
                      mtime |-> version[u].mtime, size |-> size,
                      location |-> IF s = 301 THEN site[u].to ELSE NoLocation]
           /\ left' = IF opt.type = "HEAD" THEN 0 ELSE size
    /\ request' = NoRequest
    /\ UNCHANGED <<world, pc, call, ctx, offered, sock, lost, body, files, ret, trouble>>

\* The connection ends: what was not read by then is gone.
Lose(how) ==
    /\ pc \in {"headers", "body"} /\ lost = "no"
    /\ lost' = how
    /\ left' = 0
    /\ CutShort
    /\ UNCHANGED <<world, pc, call, ctx, offered, sock, request, res, body, files, ret>>

-----------------------------------------------------------------------------
(* The authentication callback: it offers its users in turn, the next one  *)
(* whenever the one before was no good; 0 is YELLHTTP_ENOCREDS.            *)

Offer(invalid) ==
    LET next == IF invalid THEN offered + 1 ELSE 1
    IN  IF next <= Users THEN next ELSE 0

\* ctx behind YellHttp_GenDigestAuthHdr, called with the user offered.
GenDigestAuthHdr(c, user) ==
    [c EXCEPT !.user = user, !.authenticated = IF user = 0 THEN 2 ELSE 1]

DigestInvalid(c) == c.errors > 1

\* Mutant: the callback for Basic is never told that its user was refused.
BasicInvalidNever(c) == FALSE
BasicInvalid(c) == c.authenticated = 1

\* ctx behind YellHttp_HdrCbWWWAuthenticate, for the scheme of the header.
HdrCbWWWAuthenticate(c, auth, user) ==
    IF c.authenticated = 2 THEN [c EXCEPT !.user = 0]
    ELSE CASE auth = "basic" /\ ~hascb -> [c EXCEPT !.user = 0, !.digest = FALSE]
           [] auth = "basic" /\ hascb ->
                 [c EXCEPT !.user = user, !.digest = FALSE,
                           !.authenticated = IF user = 0 THEN 2 ELSE 1]
           [] auth = "digest" -> [c EXCEPT !.user = 0, !.digest = TRUE, !.authenticated = 1]
           [] OTHER -> [c EXCEPT !.user = 0]

\* Mutant: what begins with "/" keeps neither scheme nor port, and relative
\* references neither.
ExpandURLPlain(l, u) ==
    IF l.form = "whole" THEN l.url ELSE [l.url EXCEPT !.ssl = FALSE, !.port = "default"]
\* YellHttp_ExpandURL, for a Location received at URL u.
ExpandURL(l, u) ==
    CASE l.form = "whole" -> l.url
      [] l.form = "rooted" -> [l.url EXCEPT !.ssl = FALSE, !.port = "default"]
      [] l.form = "relative" -> [l.url EXCEPT !.ssl = u.ssl, !.port = u.port]

\* What a Location means.
Resolve(l, u) ==
    IF l.form = "whole" THEN l.url ELSE [l.url EXCEPT !.ssl = u.ssl, !.port = u.port]

-----------------------------------------------------------------------------
(* YellHttp_ExecRequest *)

Return(value) ==
    /\ pc' = "idle"
    /\ ret' = value

\* The application calls YellHttp_ExecRequest, with its choice of request type
\* and flags; for POST it may have called the MIME encoder before.
Call(u, o) ==
    /\ pc = "idle" /\ calls < MaxCalls
    /\ opt' = o
    /\ arg' = u /\ byref' = FALSE
    /\ pc' = "connect"
    /\ calls' = calls + 1
    /\ lost' = "no" /\ res' = NoAnswer /\ request' = NoRequest
    /\ left' = 0 /\ ret' = "none"
    /\ UNCHANGED <<world, ctx, offered, sock, body, files, trouble>>

\* The URL is taken apart.  An empty one, a redirection without Location on a
\* new context, is not valid.
BadURL ==
    /\ pc = "connect" /\ arg = NoUrl
    /\ Return("EINVAL")
    /\ UNCHANGED <<world, call, ctx, offered, sock, wire, body, files, trouble>>

\* No host, no socket, or no SSL session.
ConnectFails ==
    /\ pc = "connect" /\ arg # NoUrl
    /\ \/ Return("EDNSRESOLV") \/ Return("ESOCK")
       \/ arg.ssl /\ Return("ESSL")
    /\ CutShort
    /\ UNCHANGED <<world, call, ctx, offered, sock, wire, body, files>>

\* connect() fails: the socket stays open.
Refused ==
    /\ pc = "connect" /\ arg # NoUrl
    /\ Return("ECONN")
    /\ sock' = TRUE
    /\ CutShort
    /\ UNCHANGED <<world, call, ctx, offered, wire, body, files>>

Connect ==
    /\ pc = "connect" /\ arg \in DOMAIN site
    /\ pc' = "send"
    /\ sock' = TRUE
    /\ UNCHANGED <<world, call, ctx, offered, wire, body, files, ret, trouble>>

\* Mutant: the time is always written as local time.
GenDateLocal(t, http) == t + TimeZone
\* YellHttp_GenDate, as the server reads it: the old format gives local time.
GenDate(t, http) == IF http = "1.0" THEN t + TimeZone ELSE t

\* The request is put together and sent.  With Digest the callback is asked
\* here.
Send ==
    /\ pc = "send"
    /\ ~(opt.type = "POST" /\ ~opt.data)
    /\ LET file == files[arg.file]
           asks == ctx.authenticated # 0 /\ ctx.digest /\ hascb
           user == Offer(DigestInvalid(ctx))
           c    == IF asks THEN GenDigestAuthHdr(ctx, user) ELSE ctx
       IN  /\ ctx' = c
           /\ offered' = IF asks /\ user # 0 THEN user ELSE offered
           /\ request' = [ims |-> IF file # NoFile /\ ~opt.nocache
                                  THEN GenDate(file.mtime, ctx.httpversion) ELSE -1,
                          user |-> IF c.authenticated # 0 THEN c.user ELSE 0]
    /\ res' = NoAnswer /\ left' = 0 /\ lost' = "no"
    /\ pc' = "headers"
    /\ UNCHANGED <<world, call, sock, body, files, ret, trouble>>

\* A POST without data closes the connection and frees an SSL session, which
\* without SSL was never set up.
SendNothing ==
    /\ pc = "send"
    /\ opt.type = "POST" /\ ~opt.data
    /\ \/ Return("EINVAL") /\ sock' = FALSE
       \/ ~arg.ssl /\ pc' = "crashed" /\ UNCHANGED <<ret, sock>>
    /\ UNCHANGED <<world, call, ctx, offered, wire, body, files, trouble>>

\* Mutant: the connection is not closed.
UnwritableOpen ==
    /\ pc \in {"headers", "open"}
    /\ Return("EFILE")
    /\ CutShort
    /\ UNCHANGED <<world, call, ctx, offered, sock, wire, body, files>>
\* The file httpheaders cannot be written, or the download cannot.
Unwritable ==
    /\ pc \in {"headers", "open"}
    /\ Return("EFILE")
    /\ sock' = FALSE
    /\ CutShort
    /\ UNCHANGED <<world, call, ctx, offered, wire, body, files>>

\* The status line.
StatusLine(c) ==
    [c EXCEPT !.status = res.status, !.httpversion = site[res.url].http,
              !.errors = IF res.status = 401 THEN (IF @ < 2 THEN @ + 1 ELSE 2) ELSE 0]

\* Mutant: the length is taken from the first answer only.
ContentLengthFirst(c) ==
    IF site[res.url].measured /\ c.length = 0 THEN [c EXCEPT !.length = res.size] ELSE c
\* Content-Length stays what it was when the answer has none.
ContentLength(c) ==
    IF site[res.url].measured /\ res.status # 304 THEN [c EXCEPT !.length = res.size] ELSE c

Location(c) ==
    IF res.location = NoLocation THEN c
    ELSE [c EXCEPT !.redirecturl = ExpandURL(res.location, res.url)]

\* Everything up to the empty line has been read.
Headers ==
    /\ pc = "headers" /\ res # NoAnswer
    /\ LET auth == site[res.url].auth
           asks == res.status = 401 /\ auth = "basic" /\ hascb /\ ctx.authenticated # 2
           user == Offer(BasicInvalid(ctx))
           c    == Location(ContentLength(StatusLine(ctx)))
       IN  /\ ctx' = IF res.status = 401 THEN HdrCbWWWAuthenticate(c, auth, user) ELSE c
           /\ offered' = IF asks /\ user # 0 THEN user ELSE offered
    /\ pc' = IF res.status = 304 \/ opt.type = "HEAD" THEN "finish" ELSE "open"
    /\ UNCHANGED <<world, call, sock, wire, body, files, ret, trouble>>

\* The connection ended before the empty line: the request goes on to its end
\* with the status line, or with what the context still holds.
HeadersLost ==
    /\ pc = "headers" /\ lost # "no"
    /\ \/ UNCHANGED ctx
       \/ res # NoAnswer /\ ctx' = StatusLine(ctx)
    /\ lost' = "headers"
    /\ pc' = "finish"
    /\ UNCHANGED <<world, call, offered, sock, request, res, left, body, files, ret, trouble>>

\* fopen(filename, "wb") empties the file.
Open ==
    /\ pc = "open"
    /\ files' = [files EXCEPT ![res.url.file] =
                    [what |-> res.status, url |-> res.url, ver |-> res.ver,
                     len |-> 0, size |-> res.size, mtime |-> now]]
    /\ content_len' = ctx.length
    /\ counting' = (ctx.length # 0)
    /\ pc' = "body"
    /\ UNCHANGED <<world, call, ctx, offered, sock, wire, ret, trouble>>

\* Mutant: a full buffer is counted whatever was received.
RecvDataFull == B
\* YellHttp_RecvData fills the buffer unless the body ends before; SSL_read may
\* return less.
RecvData == IF left < B THEN left ELSE B

\* Mutant: an end of the connection ends the body as well.
BodyAtEndOrLost == IF counting THEN content_len = 0 \/ left = 0 ELSE left = 0 /\ lost # "reset"
\* The body is over: content_len is used up, or without one recv says so.
BodyAtEnd == IF counting THEN content_len = 0 ELSE left = 0 /\ lost # "reset"

\* A buffer is received and written.  While content_len says that there is
\* more and there is not, the loop does nothing, for ever.
Receive ==
    /\ pc = "body" /\ ~BodyAtEnd /\ left > 0
    /\ \E n \in IF res.url.ssl THEN 1 .. RecvData ELSE {RecvData} :
        /\ files' = [files EXCEPT ![res.url.file].len = @ + n, ![res.url.file].mtime = now]
        /\ left' = left - n
        /\ content_len' = IF counting THEN (content_len - n) % LenMod ELSE content_len
    /\ UNCHANGED <<world, pc, call, ctx, offered, sock, request, res, lost,
                   counting, ret, trouble>>

\* recv fails with -1, and fwrite is told to write that many bytes.
ReceiveFails ==
    /\ pc = "body" /\ ~BodyAtEnd /\ left = 0 /\ lost = "reset"
    /\ pc' = "crashed"
    /\ UNCHANGED <<world, call, ctx, offered, sock, wire, body, files, ret, trouble>>

BodyDone ==
    /\ pc = "body" /\ BodyAtEnd
    /\ files' = [files EXCEPT ![res.url.file].mtime = now]
    /\ pc' = "finish"
    /\ content_len' = 0 /\ counting' = FALSE
    /\ UNCHANGED <<world, call, ctx, offered, sock, wire, ret, trouble>>

Redirects(c) == c.status \in 301 .. 303 /\ ~opt.noredir
\* Mutant: there is one retry only.
RetriesOnce(c) == c.status = 401 /\ c.authenticated = 1 /\ c.errors = 1
Retries(c) == c.status = 401 /\ c.authenticated = 1

\* The connection is closed.  A redirection and a 401 with credentials at hand
\* call YellHttp_ExecRequest again, the others return; the URL of a retry may
\* be ctx->redirecturl itself.
Finish ==
    /\ pc = "finish"
    /\ sock' = FALSE
    /\ IF Redirects(ctx) \/ Retries(ctx)
       THEN /\ byref' = (byref \/ Redirects(ctx))
            /\ arg' = IF byref' THEN ctx.redirecturl ELSE arg
            /\ pc' = "connect"
            /\ UNCHANGED ret
       ELSE /\ Return(IF ctx.status >= 400 THEN "error" ELSE "ok")
            /\ UNCHANGED <<arg, byref>>
    /\ UNCHANGED <<world, opt, calls, ctx, offered, wire, body, files, trouble>>

\* The program is killed, or has crashed, and is started again: only the files
\* are left.
Kill ==
    /\ pc # "idle"
    /\ Return("killed")
    /\ trouble' = "killed"
    /\ ctx' = FreshCtx /\ offered' = 0 /\ sock' = FALSE
    /\ opt' = DefaultOption /\ arg' = NoUrl /\ byref' = FALSE
    /\ request' = NoRequest /\ res' = NoAnswer /\ left' = 0 /\ lost' = "no"
    /\ content_len' = 0 /\ counting' = FALSE
    /\ UNCHANGED <<world, calls, files>>

Run ==
    \/ BadURL \/ ConnectFails \/ Refused \/ Connect
    \/ Send \/ SendNothing
    \/ Unwritable
    \/ Headers \/ HeadersLost
    \/ Open \/ Receive \/ ReceiveFails \/ BodyDone
    \/ Finish

Next ==
    \/ Tick
    \/ \E u \in DOMAIN site : Change(u)
    \/ \E u \in DOMAIN site, o \in Options : Call(u, o)
    \/ Serve
    \/ \E how \in {"closed", "reset"} : Lose(how)
    \/ Run
    \/ Kill

\* A call runs on its own, and the server answers.
Fairness == WF_vars(Run) /\ WF_vars(Serve)

Spec == Init /\ [][Next]_vars
FairSpec == Spec /\ Fairness

-----------------------------------------------------------------------------
(* Properties *)

\* The context, the connection and the files stay what ExecRequest takes them
\* to be.
TypeOK ==
    /\ site \in Sites /\ hascb \in BOOLEAN
    /\ trouble \in {"none", "cut", "killed"}
    /\ version \in [DOMAIN site -> [ver : 0 .. MaxVer, mtime : 0 .. MaxTime]]
    /\ now \in 0 .. MaxTime /\ calls \in 0 .. MaxCalls
    /\ pc \in {"idle", "connect", "send", "headers", "open", "body", "finish", "crashed"}
    /\ opt \in Options \cup {DefaultOption}
    /\ arg \in Urls \cup {NoUrl} /\ byref \in BOOLEAN
    /\ ctx \in [status : {0, 200, 301, 304, 401, 404}, length : 0 .. LenMod - 1,
                httpversion : {"1.0", "1.1"}, redirecturl : Urls \cup {NoUrl},
                authenticated : 0 .. 2, digest : BOOLEAN, errors : 0 .. 2, user : 0 .. Users]
    /\ offered \in 0 .. Users
    /\ sock \in BOOLEAN /\ counting \in BOOLEAN
    /\ left \in Nat /\ lost \in {"no", "closed", "reset", "headers"}
    /\ content_len \in 0 .. LenMod - 1
    /\ \A f \in Files : files[f] # NoFile =>
          files[f].url.file = f /\ files[f].len \in 0 .. files[f].size

Answered == pc = "idle" /\ ret = "ok" /\ lost # "headers" /\ res # NoAnswer

\* A call that reports success after the page itself was sent has stored it
\* whole, the version the server had then, even if the connection was lost or
\* earlier calls left the context in any state; for answers with a length.
Complete ==
    Answered /\ res.status = 200 /\ opt.type # "HEAD" /\ site[res.url].measured
        => LET f == files[res.url.file]
           IN  f.what = 200 /\ f.url = res.url /\ f.ver = res.ver /\ f.len = f.size

\* "It is only downloaded if it was modified since it was downloaded", and then
\* it is: a page that is not sent again has not changed since it was stored.
\* For servers that speak HTTP 1.1.
Fresh ==
    Answered /\ res.status = 304 /\ files[res.url.file].url = res.url
             /\ (\A u \in DOMAIN site : site[u].http = "1.1")
        => res.mtime <= files[res.url.file].mtime

\* No other URL is stored under the name, and nothing but the page itself.
Plain(u) ==
    /\ site[u].kind = "page" /\ site[u].auth = "none" /\ site[u].measured
    /\ \A v \in DOMAIN site : v.file = u.file => v = u

\* What the server need not send again is the page of the time the server is
\* asked about, and the whole page, if the program was never killed and the URL
\* has its file to itself.
CachedIsPage ==
    /\ Fresh
    /\ Answered /\ res.status = 304 /\ Plain(res.url) /\ trouble # "killed"
        => LET f == files[res.url.file] IN f.what = 200 /\ f.len = f.size

\* The same for every URL: what point 2 of the README says.
CachedIsPageEver ==
    Answered /\ res.status = 304 /\ trouble = "none" => files[res.url.file].what = 200

\* All protected URLs want the same user.
OneRealm ==
    \A u, v \in DOMAIN site : site[u].auth # "none" /\ site[v].auth # "none"
        => site[u].user = site[v].user /\ site[u].auth \in {"basic", "digest"}

\* A call only fails with 401 when the callback has no user the server would
\* have let in, if no call was cut short before.
NoFalseRefusal ==
    pc = "idle" /\ ret = "error" /\ lost # "headers" /\ res.status = 401 /\ hascb
            /\ OneRealm /\ trouble = "none"
        => site[res.url].user > Users

\* A redirection leads where its Location says, whatever was requested before;
\* for references with "/" only from the default port without SSL.
RedirectedAsTold ==
    pc = "connect" /\ res # NoAnswer /\ res.location # NoLocation
        /\ lost # "headers"
        /\ (res.location.form = "rooted" => ~res.url.ssl /\ res.url.port = "default")
        => arg = Resolve(res.location, res.url)

\* No call that got a connection leaves it open, whatever it returns.  A call whose
\* connect() failed is no such call: it returns ECONN with its socket open.
SocketsClosed == pc = "idle" /\ ret \in {"ok", "error", "EINVAL", "EFILE"} => ~sock

\* The receive loop has used up the body and waits for more.
Stuck == pc = "body" /\ ~BodyAtEnd /\ left = 0

\* No chain of redirections, and nothing the retries cannot get past.
Ends ==
    /\ \A u \in DOMAIN site : site[u].auth # "other" /\ (site[u].auth = "digest" => hascb)
    /\ \A u \in DOMAIN site : site[u].kind = "moved" =>
          /\ site[u].to # NoLocation
          /\ LET v == ExpandURL(site[u].to, u)
             IN  v \in DOMAIN site => site[v].kind # "moved"

\* Every call ends: neither the redirections nor the retries with the users of
\* the callback go on for ever, and the receive loop only waits without end when
\* the connection was lost or the answer had no length.
CallsEnd ==
    pc # "idle" /\ Ends ~>
        pc \in {"idle", "crashed"} \/ lost # "no" \/ (Stuck /\ ~site[res.url].measured)
=============================================================================
