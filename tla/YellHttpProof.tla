---------------------------- MODULE YellHttpProof ----------------------------
(***************************************************************************)
(* The safety properties of YellHttp, for every server, every number of    *)
(* users and every size of the answers.                                    *)
(***************************************************************************)
EXTENDS YellHttp, TLAPS

\* What a server answers, and what is kept of it in a file.
Answers == [status : {200, 301, 304, 401, 404}, url : DOMAIN site, ver : 0 .. MaxVer,
            mtime : 0 .. MaxTime, size : 0 .. LenMod - 1,
            location : Locations \cup {NoLocation}]
Stored == [what : {200, 301, 401, 404}, url : DOMAIN site, ver : 0 .. MaxVer,
           len : Nat, size : 0 .. LenMod - 1, mtime : 0 .. MaxTime]

\* The types TypeOK leaves out.
Shape ==
    /\ request \in [ims : Int, user : 0 .. Users]
    /\ res \in Answers \cup {NoAnswer}
    /\ files \in [Files -> Stored \cup {NoFile}]
    /\ pc \in {"send", "headers"} => arg \in DOMAIN site

\* An answer says what its URL is like, and no more of its body is left than
\* was sent.
Told ==
    res # NoAnswer =>
        /\ res.status = 401 => site[res.url].auth # "none"
        /\ res.status = 301 => site[res.url].kind = "moved"
        /\ res.status = 404 => site[res.url].kind = "missing"
        /\ res.status # 301 => res.location = NoLocation
        /\ res.status # 304 => res.size # 0
        /\ left <= res.size

\* Where ExecRequest has gone past the headers, the context holds what they
\* said.
Noted ==
    /\ pc \in {"headers", "open", "body"} => lost # "headers"
    /\ pc \in {"open", "body"} => opt.type # "HEAD" /\ res.status # 304
    /\ pc \in {"open", "body", "finish"} /\ lost # "headers" =>
        /\ res # NoAnswer
        /\ ctx.status = res.status
        /\ site[res.url].measured /\ res.status # 304 => ctx.length = res.size
        /\ res.location # NoLocation => ctx.redirecturl = ExpandURL(res.location, res.url)

\* The file of the answer that is being read.
OfAnswer(f) == f.what = res.status /\ f.url = res.url /\ f.ver = res.ver /\ f.size = res.size

\* What was received and what is left make up the body, and content_len counts
\* the rest of it; when the call is at its end, all of it was received.
Written ==
    /\ pc = "body" =>
        /\ files[res.url.file] # NoFile /\ OfAnswer(files[res.url.file])
        /\ files[res.url.file].len + left <= res.size
        /\ site[res.url].measured =>
              counting = TRUE /\ files[res.url.file].len + content_len = res.size
    /\ pc = "finish" /\ lost # "headers" /\ res.status # 304 /\ opt.type # "HEAD" =>
        /\ files[res.url.file] # NoFile /\ OfAnswer(files[res.url.file])
        /\ site[res.url].measured => files[res.url.file].len = res.size

\* A plain page that was stored, and is not just being written, is whole.
PlainIsWhole ==
    trouble # "killed" /\ pc # "crashed" =>
        \A u \in DOMAIN site :
            Plain(u) /\ files[u.file] # NoFile /\ ~(pc = "body" /\ res.url = u)
                => files[u.file].what = 200 /\ files[u.file].len = files[u.file].size

NewServers == \A u \in DOMAIN site : site[u].http = "1.1"

\* The server is asked about the time of the file, and what it need not send
\* is in a file of that time.
Timely ==
    /\ NewServers => ctx.httpversion = "1.1"
    /\ pc = "headers" /\ res = NoAnswer /\ request.ims # -1 =>
        /\ files[arg.file] # NoFile
        /\ NewServers => request.ims = files[arg.file].mtime
    /\ res # NoAnswer /\ res.status = 304 =>
        /\ files[res.url.file] # NoFile
        /\ NewServers => res.mtime <= files[res.url.file].mtime

Protected(u) == site[u].auth # "none"

\* The callback is there, offers the user all protected URLs want, and no call
\* was cut short.
Admitted ==
    /\ hascb = TRUE /\ OneRealm /\ trouble = "none"
    /\ \E u \in DOMAIN site : Protected(u)
    /\ \A u \in DOMAIN site : Protected(u) => site[u].user <= Users

\* Then the callback is never asked for more than that user: whoever it offered
\* before was refused.
Asked ==
    Admitted =>
        /\ lost = "no"
        /\ ctx.authenticated # 2
        /\ ctx.errors # 0 => ctx.authenticated = 1
        /\ \A u \in DOMAIN site : Protected(u) => offered <= site[u].user
        /\ ctx.authenticated = 1 /\ (ctx.digest = FALSE \/ pc = "headers") => ctx.user = offered
        /\ ctx.errors = 2 /\ ctx.digest = TRUE /\ pc # "headers" =>
              \A u \in DOMAIN site : Protected(u) => offered < site[u].user
        /\ pc = "headers" /\ res = NoAnswer =>
              request.user = IF ctx.authenticated # 0 THEN ctx.user ELSE 0
        /\ pc = "headers" /\ res # NoAnswer /\ res.status = 401 /\ ctx.authenticated = 1 =>
              offered # site[res.url].user
        /\ pc \in {"open", "body", "finish"} /\ res.status = 401 => ctx.authenticated = 1

\* A call with an empty URL comes from a redirection, which has closed its
\* connection.
EmptyUnconnected == pc = "connect" /\ arg = NoUrl => ~sock

Types == TypeOK /\ Shape

IInv ==
    /\ Types /\ Told /\ Noted /\ Written /\ PlainIsWhole /\ Timely /\ Asked
    /\ EmptyUnconnected
    /\ Complete /\ NoFalseRefusal /\ RedirectedAsTold /\ SocketsClosed

-----------------------------------------------------------------------------
(* The operators *)

\* The contexts; their fields are of sets with names, to keep the proofs about
\* an update of some fields apart from what the fields are.
Statuses == {0, 200, 301, 304, 401, 404}
Lengths == 0 .. LenMod - 1
HttpVersions == {"1.0", "1.1"}
Places == Urls \cup {NoUrl}
UpToTwo == 0 .. 2
Flags == BOOLEAN
Choices == 0 .. Users
Contexts == [status : Statuses, length : Lengths, httpversion : HttpVersions,
             redirecturl : Places, authenticated : UpToTwo, digest : Flags,
             errors : UpToTwo, user : Choices]

\* A remainder is smaller than what it was divided by.
LEMMA ModRange == ASSUME NEW x \in Int, NEW m \in Nat, m > 0 PROVE x % m \in 0 .. m - 1
BY SMT

\* The URL of no file is no URL of the server.
LEMMA NoUrlIsNone == NoUrl \notin Urls
BY YellHttpConstants DEF Urls, NoUrl

\* A Location, resolved as the code does it, is a URL.
LEMMA Expanded ==
    ASSUME NEW l \in Locations, NEW u \in Urls
    PROVE  ExpandURL(l, u) \in Urls
BY DEF ExpandURL, Locations, Urls

\* From the default port without SSL, that is what the Location means.
LEMMA Resolved ==
    ASSUME NEW l \in Locations, NEW u \in Urls,
           l.form = "rooted" => ~u.ssl /\ u.port = "default"
    PROVE  ExpandURL(l, u) = Resolve(l, u)
BY DEF ExpandURL, Resolve, Locations, Urls

\* The callback offers one of its users, or none.
LEMMA Offered ==
    ASSUME NEW invalid \in BOOLEAN, offered \in 0 .. Users
    PROVE  Offer(invalid) \in 0 .. Users
BY YellHttpConstants DEF Offer

\* The server's URLs are URLs, and what it has there are pages.
LEMMA Served ==
    ASSUME TypeOK, NEW u \in DOMAIN site
    PROVE  u \in Urls /\ site[u] \in Pages /\ u # NoUrl /\ u.file \in Files
BY YellHttpConstants, NoUrlIsNone DEF TypeOK, Urls

\* An answer is not the absence of one, and a file not the absence of one.
LEMMA Somethings == NoAnswer \notin Answers /\ NoFile \notin Stored
BY DEF NoAnswer, NoFile, Answers, Stored

\* The context TypeOK describes.
LEMMA ContextType == TypeOK => ctx \in Contexts
BY DEF TypeOK, Contexts, Statuses, Lengths, HttpVersions, Places, UpToTwo, Flags, Choices

\* The fields of a context are what they are.
LEMMA ContextFields ==
    ASSUME NEW c \in Contexts
    PROVE  /\ c.status \in Statuses /\ c.length \in Lengths /\ c.httpversion \in HttpVersions
           /\ c.redirecturl \in Places /\ c.authenticated \in UpToTwo /\ c.digest \in Flags
           /\ c.errors \in UpToTwo /\ c.user \in Choices
BY Zenon DEF Contexts

\* The updates of a context.
WithScheme(c, u, b, n) == [c EXCEPT !.user = u, !.digest = b, !.authenticated = n]
WithUser(c, u, n) == [c EXCEPT !.user = u, !.authenticated = n]
WithoutUser(c, u) == [c EXCEPT !.user = u]
WithoutScheme(c, u, b) == [c EXCEPT !.user = u, !.digest = b]
WithLine(c, s, v, e) == [c EXCEPT !.status = s, !.httpversion = v, !.errors = e]
WithLength(c, l) == [c EXCEPT !.length = l]
WithPlace(c, p) == [c EXCEPT !.redirecturl = p]

\* The callbacks set the user and how it is used.
LEMMA SchemeSet ==
    ASSUME NEW c \in Contexts, NEW u \in Choices, NEW b \in Flags, NEW n \in UpToTwo
    PROVE  LET d == WithScheme(c, u, b, n)
           IN  /\ d \in Contexts
               /\ d.status = c.status /\ d.length = c.length
               /\ d.httpversion = c.httpversion /\ d.redirecturl = c.redirecturl
               /\ d.errors = c.errors
               /\ d.user = u /\ d.digest = b /\ d.authenticated = n
BY Zenon DEF Contexts, WithScheme

\* With Digest the scheme stays.
LEMMA UserSet ==
    ASSUME NEW c \in Contexts, NEW u \in Choices, NEW n \in UpToTwo
    PROVE  LET d == WithUser(c, u, n)
           IN  /\ d \in Contexts
               /\ d.status = c.status /\ d.length = c.length
               /\ d.httpversion = c.httpversion /\ d.redirecturl = c.redirecturl
               /\ d.errors = c.errors
               /\ d.user = u /\ d.digest = c.digest /\ d.authenticated = n
BY Zenon DEF Contexts, WithUser

\* The user goes, as with a scheme that is not known.
LEMMA UserDropped ==
    ASSUME NEW c \in Contexts, NEW u \in Choices
    PROVE  LET d == WithoutUser(c, u)
           IN  /\ d \in Contexts
               /\ d.status = c.status /\ d.length = c.length
               /\ d.httpversion = c.httpversion /\ d.redirecturl = c.redirecturl
               /\ d.errors = c.errors
BY Zenon DEF Contexts, WithoutUser

\* The scheme goes with it when the application has set no callback.
LEMMA SchemeDropped ==
    ASSUME NEW c \in Contexts, NEW u \in Choices, NEW b \in Flags
    PROVE  LET d == WithoutScheme(c, u, b)
           IN  /\ d \in Contexts
               /\ d.status = c.status /\ d.length = c.length
               /\ d.httpversion = c.httpversion /\ d.redirecturl = c.redirecturl
               /\ d.errors = c.errors
BY Zenon DEF Contexts, WithoutScheme

\* The status line sets the status, the version and the count of refusals.
LEMMA LineSet ==
    ASSUME NEW c \in Contexts, NEW s \in Statuses, NEW v \in HttpVersions, NEW e \in UpToTwo
    PROVE  LET d == WithLine(c, s, v, e)
           IN  /\ d \in Contexts
               /\ d.status = s /\ d.httpversion = v /\ d.errors = e
               /\ d.length = c.length /\ d.redirecturl = c.redirecturl
               /\ d.user = c.user /\ d.digest = c.digest /\ d.authenticated = c.authenticated
BY Zenon DEF Contexts, WithLine

\* Content-Length sets the length.
LEMMA LengthSet ==
    ASSUME NEW c \in Contexts, NEW l \in Lengths
    PROVE  LET d == WithLength(c, l)
           IN  /\ d \in Contexts /\ d.length = l
               /\ d.status = c.status /\ d.httpversion = c.httpversion
               /\ d.errors = c.errors /\ d.redirecturl = c.redirecturl
               /\ d.user = c.user /\ d.digest = c.digest /\ d.authenticated = c.authenticated
BY Zenon DEF Contexts, WithLength

\* Location sets the URL of a redirection.
LEMMA PlaceSet ==
    ASSUME NEW c \in Contexts, NEW p \in Places
    PROVE  LET d == WithPlace(c, p)
           IN  /\ d \in Contexts /\ d.redirecturl = p
               /\ d.status = c.status /\ d.httpversion = c.httpversion
               /\ d.errors = c.errors /\ d.length = c.length
               /\ d.user = c.user /\ d.digest = c.digest /\ d.authenticated = c.authenticated
BY Zenon DEF Contexts, WithPlace

-----------------------------------------------------------------------------
(* Init, and the steps of the clock, the pages and the errors *)

\* The program starts with nothing sent, read or stored.
LEMMA InitHolds == Init => IInv
<1> SUFFICES ASSUME Init PROVE IInv
    OBVIOUS
<1> USE DEF Init
<1>0. /\ version \in [DOMAIN site -> [ver : 0 .. MaxVer, mtime : 0 .. MaxTime]]
      /\ ctx \in Contexts
  <2>1. 0 \in 0 .. MaxVer /\ 0 \in 0 .. MaxTime
    BY YellHttpConstants
  <2>2. ctx \in Contexts
    BY YellHttpConstants DEF FreshCtx, Contexts, Statuses, Lengths, HttpVersions, Places,
                             UpToTwo, Flags, Choices
  <2> QED BY <2>1, <2>2
<1>1. TypeOK
  <2>1. \A f \in Files : files[f] = NoFile
    OBVIOUS
  <2>2. ErrLen < LenMod /\ ErrLen \in Nat /\ LenMod \in Nat /\ MaxTime \in Nat /\ MaxCalls \in Nat
        /\ Users \in Nat
    BY YellHttpConstants
  <2>3. 0 \in 0 .. LenMod - 1 /\ 0 \in 0 .. MaxTime /\ 0 \in 0 .. MaxCalls /\ 0 \in 0 .. Users
    BY <2>2
  <2>4. counting \in BOOLEAN /\ byref \in BOOLEAN /\ sock \in BOOLEAN /\ hascb \in BOOLEAN
    OBVIOUS
  <2> QED BY <1>0, <2>1, <2>3, <2>4 DEF TypeOK, Contexts, Statuses, Lengths, HttpVersions,
                                      Places, UpToTwo, Flags, Choices
<1>2. Shape
    BY YellHttpConstants DEF Shape, NoRequest
<1>3. Told /\ Noted /\ Written /\ PlainIsWhole /\ EmptyUnconnected
    BY <1>1, Served DEF Told, Noted, Written, PlainIsWhole, EmptyUnconnected, Plain
<1>4. Timely
    BY DEF Timely, FreshCtx
<1>5. Asked
  <2> SUFFICES ASSUME Admitted PROVE Asked!2
      BY DEF Asked
  <2>1. \A u \in DOMAIN site : Protected(u) => site[u].user \in 1 .. Users + 1
      BY <1>1, Served DEF Pages
  <2> QED BY <2>1, YellHttpConstants DEF FreshCtx
<1>6. Complete /\ NoFalseRefusal /\ RedirectedAsTold /\ SocketsClosed
    BY DEF Complete, Answered, NoFalseRefusal, RedirectedAsTold, SocketsClosed
<1> QED BY <1>1, <1>2, <1>3, <1>4, <1>5, <1>6 DEF IInv, Types

\* The clock and the pages are no part of the rest of the invariant.
LEMMA Outside ==
    ASSUME IInv, Types',
           UNCHANGED <<site, hascb, pc, opt, arg, byref, ctx, offered, sock, request, res,
                       left, lost, content_len, counting, files, ret, trouble>>
    PROVE  IInv'
<1> USE DEF IInv
<1>1. (Told /\ Noted /\ Written /\ PlainIsWhole /\ Timely)'
    BY DEF Told, Noted, Written, PlainIsWhole, Timely, OfAnswer, Plain, NewServers
<1>2. (Asked /\ EmptyUnconnected)'
    BY DEF Asked, Admitted, OneRealm, Protected, EmptyUnconnected
<1>3. (Complete /\ NoFalseRefusal /\ RedirectedAsTold /\ SocketsClosed)'
    BY DEF Complete, Answered, NoFalseRefusal, OneRealm, RedirectedAsTold, SocketsClosed
<1> QED BY <1>1, <1>2, <1>3

\* The clock.
LEMMA TickKeeps == ASSUME IInv, Tick PROVE IInv'
<1>1. Types'
  <2>1. TypeOK'
      BY YellHttpConstants DEF IInv, Types, TypeOK, Tick, call, wire, body
  <2>2. Shape'
      BY DEF IInv, Types, Shape, Tick, call, wire, body, Answers, Stored
  <2> QED BY <2>1, <2>2 DEF Types
<1> QED BY <1>1, Outside DEF Tick, call, wire, body

\* A page of the server changes.
LEMMA ChangeKeeps == ASSUME IInv, NEW u \in DOMAIN site, Change(u) PROVE IInv'
<1>1. Types'
  <2>1. version' \in [DOMAIN site -> [ver : 0 .. MaxVer, mtime : 0 .. MaxTime]]
    <3>1. version[u] \in [ver : 0 .. MaxVer, mtime : 0 .. MaxTime] /\ now \in 0 .. MaxTime
        BY DEF IInv, Types, TypeOK
    <3>2. version[u].ver + 1 \in 0 .. MaxVer
        BY <3>1, YellHttpConstants DEF Change
    <3>3. [ver |-> version[u].ver + 1, mtime |-> now] \in [ver : 0 .. MaxVer, mtime : 0 .. MaxTime]
        BY <3>1, <3>2
    <3>4. version' = [version EXCEPT ![u] = [ver |-> version[u].ver + 1, mtime |-> now]]
        BY DEF Change
    <3> QED BY <3>3, <3>4 DEF IInv, Types, TypeOK
  <2>2. TypeOK'
      BY <2>1, YellHttpConstants DEF IInv, Types, TypeOK, Change, call, wire, body
  <2>3. Shape'
      BY DEF IInv, Types, Shape, Change, call, wire, body, Answers, Stored
  <2> QED BY <2>2, <2>3 DEF Types
<1> QED BY <1>1, Outside DEF Change, call, wire, body

\* A call that goes no further, or only gets its connection, leaves what it has
\* read and written alone.
LEMMA Aside ==
    ASSUME IInv,
           UNCHANGED <<site, hascb, version, now, opt, arg, byref, calls, ctx, offered, request,
                       res, left, lost, content_len, counting, files>>,
           sock' \in BOOLEAN, SocketsClosed',
           pc \in {"connect", "send", "headers", "open"} \/ pc' = "crashed",
           \/ pc' = "crashed"
           \/ pc' = "send" /\ arg \in DOMAIN site
           \/ pc' = "idle" /\ ret' \notin {"ok", "error"},
           pc = "connect" \/ pc = "send" \/ pc = "body" \/ trouble' # "none",
           trouble' = trouble \/ CutShort
    PROVE  IInv'
<1> USE DEF IInv
<1>0. trouble' \in {"none", "cut", "killed"} /\ (trouble = "killed" => trouble' = "killed")
      /\ (trouble' = "none" => trouble = "none")
    BY DEF Types, TypeOK, CutShort
<1>1. Types'
  <2>1. TypeOK'
      BY <1>0 DEF Types, TypeOK
  <2>2. Shape'
      BY DEF Types, Shape, Answers, Stored
  <2> QED BY <2>1, <2>2 DEF Types
<1>2. (Told /\ Noted /\ Written /\ Timely)'
    BY DEF Told, Noted, Written, Timely, NewServers
<1>3. PlainIsWhole'
    BY <1>0 DEF PlainIsWhole, Plain
<1>4. Asked'
    BY <1>0 DEF Asked, Admitted, OneRealm, Protected
<1>5. (EmptyUnconnected /\ Complete /\ NoFalseRefusal /\ RedirectedAsTold)'
    BY DEF EmptyUnconnected, Complete, Answered, NoFalseRefusal, RedirectedAsTold
<1> QED BY <1>1, <1>2, <1>3, <1>4, <1>5

\* The errors before the body, the connection, and a read that fails.
LEMMA GivenUp ==
    ASSUME IInv, BadURL \/ ConnectFails \/ Refused \/ Connect \/ SendNothing
                     \/ Unwritable \/ ReceiveFails
    PROVE  IInv'
<1> USE DEF world, call, wire, body, Return
<1>1. CASE BadURL
    BY <1>1, Aside DEF IInv, Types, TypeOK, EmptyUnconnected, SocketsClosed, BadURL
<1>2. CASE ConnectFails
    BY <1>2, Aside DEF IInv, Types, TypeOK, SocketsClosed, ConnectFails, CutShort
<1>3. CASE Refused
    BY <1>3, Aside DEF SocketsClosed, Refused, CutShort
<1>4. CASE Connect
  <2>1. sock' \in BOOLEAN
    BY <1>4 DEF IInv, Types, TypeOK, Connect
  <2>2. SocketsClosed'
    BY <1>4 DEF SocketsClosed, Connect
  <2>3. pc = "connect" /\ pc' = "send" /\ arg \in DOMAIN site
    BY <1>4 DEF Connect
  <2>4. /\ UNCHANGED <<site, hascb, version, now, opt, arg, byref, calls, ctx, offered, request,
                       res, left, lost, content_len, counting, files>>
        /\ trouble' = trouble
    BY <1>4 DEF Connect
  <2> QED BY <2>1, <2>2, <2>3, <2>4, Aside
<1>5. CASE SendNothing
  <2>1. sock' \in BOOLEAN
    BY <1>5 DEF IInv, Types, TypeOK, SendNothing
  <2>2. SocketsClosed'
    BY <1>5 DEF SocketsClosed, SendNothing
  <2>3. pc = "send" /\ (pc' = "crashed" \/ (pc' = "idle" /\ ret' = "EINVAL"))
    BY <1>5 DEF SendNothing
  <2>4. /\ UNCHANGED <<site, hascb, version, now, opt, arg, byref, calls, ctx, offered, request,
                       res, left, lost, content_len, counting, files>>
        /\ trouble' = trouble
    BY <1>5 DEF SendNothing
  <2> QED BY <2>1, <2>2, <2>3, <2>4, Aside
<1>6. CASE Unwritable
    BY <1>6, Aside DEF SocketsClosed, Unwritable, CutShort
<1>7. CASE ReceiveFails
  <2>1. sock' \in BOOLEAN
    BY <1>7 DEF IInv, Types, TypeOK, ReceiveFails
  <2>2. SocketsClosed'
    BY <1>7 DEF SocketsClosed, ReceiveFails
  <2>3. pc = "body" /\ pc' = "crashed"
    BY <1>7 DEF ReceiveFails
  <2>4. /\ UNCHANGED <<site, hascb, version, now, opt, arg, byref, calls, ctx, offered, request,
                       res, left, lost, content_len, counting, files>>
        /\ trouble' = trouble
    BY <1>7 DEF ReceiveFails
  <2> QED BY <2>1, <2>2, <2>3, <2>4, Aside
<1> QED BY <1>1, <1>2, <1>3, <1>4, <1>5, <1>6, <1>7

-----------------------------------------------------------------------------
(* A call, the request and the answer *)

\* A call starts with the URL of the application and no answer.
LEMMA CallKeeps ==
    ASSUME IInv, NEW u \in DOMAIN site, NEW o \in Options, Call(u, o)
    PROVE  IInv'
<1> USE DEF IInv, Call, world, body
<1>0. u \in Urls /\ u # NoUrl
    BY Served DEF Types
<1>1. Types'
  <2>1. TypeOK'
    <3>1. byref' \in BOOLEAN
        OBVIOUS
    <3>2. calls' \in 0 .. MaxCalls
        BY YellHttpConstants DEF Types, TypeOK
    <3> QED BY <1>0, <3>1, <3>2 DEF Types, TypeOK
  <2>2. Shape'
      BY YellHttpConstants DEF Types, Shape, Answers, Stored, NoRequest
  <2> QED BY <2>1, <2>2 DEF Types
<1>2. (Told /\ Noted /\ Written /\ Timely)'
    BY DEF Told, Noted, Written, Timely, NewServers
<1>3. PlainIsWhole'
    BY DEF PlainIsWhole, Plain
<1>4. Asked'
    BY DEF Asked, Admitted, OneRealm, Protected
<1>5. (EmptyUnconnected /\ Complete /\ NoFalseRefusal /\ RedirectedAsTold /\ SocketsClosed)'
    BY <1>0 DEF EmptyUnconnected, Complete, Answered, NoFalseRefusal, RedirectedAsTold,
                SocketsClosed
<1> QED BY <1>1, <1>2, <1>3, <1>4, <1>5

\* What the server answers, and when.
LEMMA StatusIs ==
    ASSUME NEW u, site[u] \in Pages
    PROVE  /\ Status(u) \in {200, 301, 304, 401, 404}
           /\ Status(u) = 401 => Protected(u) /\ request.user # site[u].user
           /\ Status(u) = 301 => site[u].kind = "moved"
           /\ Status(u) = 404 => site[u].kind = "missing"
           /\ Status(u) = 304 => request.ims >= version[u].mtime
BY DEF Status, Protected, Pages

\* The answer is what the server says at the URL that was asked for.
LEMMA ServeKeeps == ASSUME IInv, Serve PROVE IInv'
<1> USE DEF IInv, world, call, body
<1> DEFINE s == Status(arg)
           size == IF s = 200 THEN PageLen[version[arg].ver] ELSE IF s = 304 THEN 0 ELSE ErrLen
<1>0. /\ s = 200 => size = PageLen[version[arg].ver]
      /\ s = 304 => size = 0
      /\ s \notin {200, 304} => size = ErrLen
    OBVIOUS
<1>1. /\ res' = [status |-> s, url |-> arg, ver |-> version[arg].ver,
                mtime |-> version[arg].mtime, size |-> size,
                location |-> IF s = 301 THEN site[arg].to ELSE NoLocation]
      /\ left' = IF opt.type = "HEAD" THEN 0 ELSE size
    BY DEF Serve
<1> HIDE DEF size
<1>2. /\ pc = "headers" /\ res = NoAnswer /\ lost = "no" /\ request' = NoRequest
      /\ UNCHANGED <<site, hascb, version, now, pc, opt, arg, byref, calls, ctx, offered, sock,
                     lost, content_len, counting, files, ret, trouble>>
    BY DEF Serve
<1>3. /\ arg \in DOMAIN site /\ arg \in Urls /\ site[arg] \in Pages
      /\ version[arg] \in [ver : 0 .. MaxVer, mtime : 0 .. MaxTime]
    BY <1>2, Served DEF Types, Shape, TypeOK
<1>4. size \in 0 .. LenMod - 1 /\ (s # 304 => size # 0)
  <2>1. PageLen[version[arg].ver] \in 1 .. LenMod - 1
      BY <1>3, YellHttpConstants
  <2>2. ErrLen \in 1 .. LenMod - 1
      BY YellHttpConstants
  <2> QED BY <1>0, <2>1, <2>2, YellHttpConstants
<1>5. s \in {200, 301, 304, 401, 404}
    BY <1>1, <1>3, StatusIs
<1>6. res' \in Answers /\ res' # NoAnswer
  <2>1. site[arg].to \in Locations \cup {NoLocation}
      BY <1>3 DEF Pages
  <2>2. res' \in Answers
      BY <1>1, <1>3, <1>4, <1>5, <2>1 DEF Answers
  <2> QED BY <2>2, Somethings
<1>7. /\ res'.status = s /\ res'.url = arg /\ res'.size = size
      /\ res'.mtime = version[arg].mtime /\ (s # 301 => res'.location = NoLocation)
    BY <1>1
<1> HIDE DEF s
<1>8. left' \in Nat /\ left' <= size
    BY <1>1, <1>4, YellHttpConstants
<1>11. Types'
  <2>1. TypeOK'
      BY <1>2, <1>8 DEF Types, TypeOK
  <2>2. Shape'
      BY <1>2, <1>6, YellHttpConstants DEF Types, Shape, Stored, Answers, NoRequest
  <2> QED BY <2>1, <2>2 DEF Types
<1>12. Told'
    BY <1>2, <1>3, <1>4, <1>7, <1>8, StatusIs DEF Told, Protected, s
<1>13. (Noted /\ Written)'
    BY <1>2 DEF Noted, Written
<1>14. PlainIsWhole'
    BY <1>2 DEF PlainIsWhole, Plain
<1>15. Timely'
  <2>1. ASSUME s = 304
        PROVE  /\ files[arg.file] # NoFile
               /\ NewServers => version[arg].mtime <= files[arg.file].mtime
    <3>1. request.ims >= version[arg].mtime /\ version[arg].mtime >= 0
        BY <1>3, <2>1, StatusIs DEF s
    <3>2. request.ims # -1
        BY <1>3, <3>1
    <3> QED BY <1>2, <3>1, <3>2 DEF Timely
  <2> QED BY <1>2, <1>6, <1>7, <2>1 DEF Timely, NewServers
<1>16. Asked'
  <2> SUFFICES ASSUME Admitted' PROVE (Asked!2)'
      BY DEF Asked
  <2>0. Admitted
      BY <1>2 DEF Admitted, OneRealm, Protected
  <2>1. ASSUME s = 401, ctx.authenticated = 1 PROVE offered # site[arg].user
    <3>1. request.user # site[arg].user
        BY <1>3, <2>1, StatusIs DEF s
    <3> QED BY <1>2, <2>0, <2>1, <3>1 DEF Asked
  <2> QED BY <1>2, <1>6, <1>7, <2>0, <2>1 DEF Asked, Protected
<1>17. (EmptyUnconnected /\ Complete /\ NoFalseRefusal /\ RedirectedAsTold /\ SocketsClosed)'
    BY <1>2 DEF EmptyUnconnected, Complete, Answered, NoFalseRefusal, RedirectedAsTold,
                SocketsClosed
<1> QED BY <1>11, <1>12, <1>13, <1>14, <1>15, <1>16, <1>17

\* A lost connection leaves nothing to read.
LEMMA LoseKeeps == ASSUME IInv, NEW how \in {"closed", "reset"}, Lose(how) PROVE IInv'
<1> USE DEF IInv, Lose, world, call, body
<1>0. /\ trouble' \in {"cut", "killed"} /\ (trouble = "killed" => trouble' = "killed")
      /\ left' = 0 /\ left \in Nat
    BY DEF CutShort, Types, TypeOK
<1>1. Types'
  <2>1. TypeOK'
      BY <1>0 DEF Types, TypeOK
  <2>2. Shape'
      BY DEF Types, Shape, Stored, Answers
  <2> QED BY <2>1, <2>2 DEF Types
<1>2. (Told /\ Noted /\ Timely)'
  <2>1. res # NoAnswer => 0 <= res.size
      BY DEF Types, Shape, Answers
  <2> QED BY <1>0, <2>1 DEF Told, Noted, Timely, NewServers
<1>3. Written'
  <2>1. pc = "body" => files[res.url.file].len \in Nat /\ res.size \in Nat
      BY Served, YellHttpConstants DEF Types, Shape, Written, Noted, Answers, Stored
  <2> QED BY <1>0, <2>1 DEF Written, OfAnswer
<1>4. (PlainIsWhole /\ Asked)'
    BY <1>0 DEF PlainIsWhole, Plain, Asked, Admitted
<1>5. (EmptyUnconnected /\ Complete /\ NoFalseRefusal /\ RedirectedAsTold /\ SocketsClosed)'
    BY DEF EmptyUnconnected, Complete, Answered, NoFalseRefusal, RedirectedAsTold, SocketsClosed
<1> QED BY <1>1, <1>2, <1>3, <1>4, <1>5

\* The same but for the user.
SameNotes(c, d) ==
    /\ c.status = d.status /\ c.length = d.length /\ c.httpversion = d.httpversion
    /\ c.redirecturl = d.redirecturl /\ c.digest = d.digest /\ c.errors = d.errors

\* What the callback says to the request that is put together.
LEMMA Authenticated ==
    ASSUME NEW c \in Contexts, NEW user \in 0 .. Users
    PROVE  /\ GenDigestAuthHdr(c, user) \in Contexts
           /\ SameNotes(GenDigestAuthHdr(c, user), c)
           /\ GenDigestAuthHdr(c, user).user = user
           /\ user # 0 => GenDigestAuthHdr(c, user).authenticated = 1
<1>1. PICK n \in {1, 2} :
        /\ GenDigestAuthHdr(c, user) = WithUser(c, user, n)
        /\ user # 0 => n = 1
    BY DEF GenDigestAuthHdr, WithUser
<1> DEFINE d == GenDigestAuthHdr(c, user)
<1>2. n \in UpToTwo /\ user \in Choices
    BY DEF UpToTwo, Choices
<1>3. d = WithUser(c, user, n)
    BY <1>1
<1> HIDE DEF d
<1>4. /\ d \in Contexts
      /\ d.status = c.status /\ d.length = c.length
      /\ d.httpversion = c.httpversion /\ d.redirecturl = c.redirecturl
      /\ d.errors = c.errors
      /\ d.user = user /\ d.digest = c.digest /\ d.authenticated = n
    BY <1>2, <1>3, UserSet
<1>5. SameNotes(d, c)
    BY <1>4 DEF SameNotes
<1> QED BY <1>1, <1>4, <1>5 DEF d

\* The request carries the time of the file and the user of the context.
LEMMA SendKeeps == ASSUME IInv, Send PROVE IInv'
<1> USE DEF IInv, world, call, body
<1> DEFINE asks == ctx.authenticated # 0 /\ ctx.digest /\ hascb
           user == Offer(DigestInvalid(ctx))
           ims  == IF files[arg.file] # NoFile /\ ~opt.nocache
                   THEN GenDate(files[arg.file].mtime, ctx.httpversion) ELSE -1
<1>1. /\ pc = "send" /\ pc' = "headers" /\ res' = NoAnswer /\ left' = 0 /\ lost' = "no"
      /\ UNCHANGED <<site, hascb, version, now, opt, arg, byref, calls, sock, content_len,
                     counting, files, ret, trouble>>
    BY DEF Send
<1>2. /\ ctx' = IF asks THEN GenDigestAuthHdr(ctx, user) ELSE ctx
      /\ offered' = IF asks /\ user # 0 THEN user ELSE offered
      /\ request' = [ims |-> ims,
                     user |-> IF ctx'.authenticated # 0 THEN ctx'.user ELSE 0]
    BY DEF Send
<1>3. ctx \in Contexts /\ offered \in 0 .. Users
    BY ContextType DEF Types, TypeOK
<1>4. user \in 0 .. Users
  <2>1. DigestInvalid(ctx) \in BOOLEAN
      BY DEF DigestInvalid
  <2> QED BY <1>3, <2>1, Offered
<1>5. arg \in DOMAIN site /\ arg.file \in Files
    BY <1>1, Served DEF Types, Shape
<1>6. ims \in Int /\ (ims # -1 => files[arg.file] # NoFile)
      /\ (ims # -1 /\ ctx.httpversion = "1.1" => ims = files[arg.file].mtime)
  <2>1. files[arg.file] # NoFile => files[arg.file].mtime \in Int
      BY <1>5, YellHttpConstants DEF Types, Shape, Stored
  <2> QED BY <2>1, YellHttpConstants DEF GenDate
<1> HIDE DEF ims
<1>7. /\ ctx' \in Contexts /\ offered' \in 0 .. Users
      /\ SameNotes(ctx', ctx)
    BY <1>2, <1>3, <1>4, Authenticated DEF SameNotes
<1> HIDE DEF user
<1>8. request' \in [ims : Int, user : 0 .. Users] /\ request'.ims = ims
      /\ request'.user = IF ctx'.authenticated # 0 THEN ctx'.user ELSE 0
    BY <1>2, <1>6, <1>7, ContextFields, YellHttpConstants DEF Choices, UpToTwo
<1>11. Types'
  <2>1. TypeOK'
      BY <1>1, <1>7 DEF Types, TypeOK, Contexts, Statuses, Lengths, HttpVersions, Places,
                        UpToTwo, Flags, Choices
  <2>2. Shape'
      BY <1>1, <1>5, <1>8 DEF Types, Shape, Stored, Answers
  <2> QED BY <2>1, <2>2 DEF Types
<1>12. (Told /\ Noted /\ Written)'
    BY <1>1 DEF Told, Noted, Written
<1>13. PlainIsWhole'
    BY <1>1 DEF PlainIsWhole, Plain
<1>14. Timely'
    BY <1>1, <1>6, <1>7, <1>8 DEF Timely, NewServers, SameNotes
<1>15. Asked'
  <2> SUFFICES ASSUME Admitted' PROVE (Asked!2)'
      BY DEF Asked
  <2>1. Admitted
      BY <1>1 DEF Admitted, OneRealm, Protected
  <2>2. \A u \in DOMAIN site : Protected(u) => site[u].user \in 1 .. Users
    <3>1. \A u \in DOMAIN site : site[u].user \in 1 .. Users + 1
        BY Served DEF Types, Pages
    <3> QED BY <2>1, <3>1, YellHttpConstants DEF Admitted
  <2>3. CASE asks
    <3>1. ctx.errors = 2 => \A u \in DOMAIN site : Protected(u) => offered < site[u].user
        BY <1>1, <2>1, <2>3 DEF Asked
    <3>0. PICK w \in DOMAIN site : Protected(w)
        BY <2>1 DEF Admitted
    <3>2. /\ user # 0
          /\ \A u \in DOMAIN site : Protected(u) => user <= site[u].user
      <4>1. CASE DigestInvalid(ctx)
        <5>1. ctx.errors = 2
            BY <1>3, <4>1, ContextFields DEF DigestInvalid, UpToTwo
        <5>2. offered + 1 <= Users
            BY <1>3, <2>2, <3>0, <3>1, <5>1, YellHttpConstants
        <5>3. user = offered + 1
            BY <4>1, <5>2 DEF Offer, user
        <5> QED BY <1>3, <2>2, <3>1, <5>1, <5>3
      <4>2. CASE ~DigestInvalid(ctx)
        <5>1. 1 <= Users
            BY <2>2, <3>0, YellHttpConstants
        <5>2. user = 1
            BY <4>2, <5>1 DEF Offer, user
        <5> QED BY <2>2, <5>2
      <4> QED BY <4>1, <4>2
    <3>3. ctx'.user = user /\ ctx'.authenticated = 1 /\ offered' = user
        BY <1>2, <1>3, <1>4, <2>3, <3>2, Authenticated
    <3> QED BY <1>1, <1>8, <2>1, <3>2, <3>3, SMT DEF Asked, Protected
  <2>4. CASE ~asks
    <3>1. ctx' = ctx /\ offered' = offered
        BY <1>2, <2>4
    <3>2. ctx.authenticated = 1 => ctx.digest = FALSE
        BY <1>3, <2>1, <2>4 DEF Admitted
    <3> QED BY <1>1, <1>8, <2>1, <3>1, <3>2 DEF Asked, Protected
  <2> QED BY <2>3, <2>4
<1>16. (EmptyUnconnected /\ Complete /\ NoFalseRefusal /\ RedirectedAsTold /\ SocketsClosed)'
    BY <1>1 DEF EmptyUnconnected, Complete, Answered, NoFalseRefusal, RedirectedAsTold,
                SocketsClosed
<1> QED BY <1>11, <1>12, <1>13, <1>14, <1>15, <1>16

-----------------------------------------------------------------------------
(* The headers *)

\* What the callback of WWW-Authenticate does to the context, by the scheme:
\* without the callback of the application there is no user; with Basic the
\* user it offers is noted; with Digest it is asked later.
LEMMA Challenged ==
    ASSUME NEW c \in Contexts, NEW auth \in {"none", "basic", "digest", "other"},
           NEW user \in 0 .. Users, hascb \in BOOLEAN
    PROVE  LET d == HdrCbWWWAuthenticate(c, auth, user)
           IN  /\ d \in Contexts
               /\ d.status = c.status /\ d.length = c.length /\ d.errors = c.errors
               /\ d.httpversion = c.httpversion /\ d.redirecturl = c.redirecturl
               /\ c.authenticated # 2 /\ hascb /\ auth = "basic" /\ user # 0 =>
                     d.authenticated = 1 /\ d.digest = FALSE /\ d.user = user
               /\ c.authenticated # 2 /\ auth = "digest" =>
                     d.authenticated = 1 /\ d.digest = TRUE
<1> DEFINE d == HdrCbWWWAuthenticate(c, auth, user)
           on == TRUE
           off == FALSE
<1>1. /\ 0 \in Choices /\ user \in Choices /\ off \in Flags /\ on \in Flags
      /\ 1 \in UpToTwo /\ 2 \in UpToTwo
  BY YellHttpConstants DEF Choices, Flags, UpToTwo
<1>2. CASE c.authenticated = 2
  <2>1. d = WithoutUser(c, 0)
      BY <1>2 DEF HdrCbWWWAuthenticate, WithoutUser
  <2> HIDE DEF d, on, off
  <2> QED BY <1>1, <1>2, <2>1, UserDropped DEF d
<1>3. CASE c.authenticated # 2 /\ auth = "basic" /\ hascb
  <2>1. PICK n \in {1, 2} : d = WithScheme(c, user, off, n) /\ (user # 0 => n = 1)
      BY <1>3 DEF HdrCbWWWAuthenticate, WithScheme
  <2> HIDE DEF d, on, off
  <2>2. /\ d \in Contexts
        /\ d.status = c.status /\ d.length = c.length
        /\ d.httpversion = c.httpversion /\ d.redirecturl = c.redirecturl
        /\ d.errors = c.errors
        /\ d.user = user /\ d.digest = off /\ d.authenticated = n
      BY <1>1, <2>1, SchemeSet
  <2> QED BY <1>3, <2>1, <2>2 DEF d, on, off
<1>4. CASE c.authenticated # 2 /\ auth = "basic" /\ ~hascb
  <2>1. d = WithoutScheme(c, 0, off)
      BY <1>4 DEF HdrCbWWWAuthenticate, WithoutScheme
  <2> HIDE DEF d, on, off
  <2>2. /\ d \in Contexts
        /\ d.status = c.status /\ d.length = c.length
        /\ d.httpversion = c.httpversion /\ d.redirecturl = c.redirecturl
        /\ d.errors = c.errors
      BY <1>1, <2>1, SchemeDropped
  <2> QED BY <1>4, <2>1, <2>2 DEF d, on, off
<1>5. CASE c.authenticated # 2 /\ auth = "digest"
  <2>1. d = WithScheme(c, 0, on, 1)
      BY <1>5 DEF HdrCbWWWAuthenticate, WithScheme
  <2> HIDE DEF d, on, off
  <2>2. /\ d \in Contexts
        /\ d.status = c.status /\ d.length = c.length
        /\ d.httpversion = c.httpversion /\ d.redirecturl = c.redirecturl
        /\ d.errors = c.errors
        /\ d.user = 0 /\ d.digest = on /\ d.authenticated = 1
      BY <1>1, <2>1, SchemeSet
  <2> QED BY <1>5, <2>1, <2>2 DEF d, on, off
<1>6. CASE c.authenticated # 2 /\ auth \notin {"basic", "digest"}
  <2>1. d = WithoutUser(c, 0)
      BY <1>6 DEF HdrCbWWWAuthenticate, WithoutUser
  <2> HIDE DEF d, on, off
  <2> QED BY <1>1, <1>6, <2>1, UserDropped DEF d
<1> QED BY <1>2, <1>3, <1>4, <1>5, <1>6

\* The context after the status line, Content-Length and Location.
LEMMA ReadHeaders ==
    ASSUME TypeOK, Shape, Told, res # NoAnswer
    PROVE  LET s == StatusLine(ctx)
               c == Location(ContentLength(s))
           IN  /\ s \in Contexts /\ c \in Contexts
               /\ s.httpversion = site[res.url].http /\ c.httpversion = s.httpversion
               /\ s.status = res.status /\ c.status = res.status
               /\ site[res.url].measured /\ res.status # 304 => c.length = res.size
               /\ res.location # NoLocation =>
                     c.redirecturl = ExpandURL(res.location, res.url)
               /\ s.user = ctx.user /\ c.user = ctx.user
               /\ s.digest = ctx.digest /\ c.digest = ctx.digest
               /\ s.authenticated = ctx.authenticated /\ c.authenticated = ctx.authenticated
               /\ res.status # 401 => s.errors = 0 /\ c.errors = 0
               /\ res.status = 401 => c.errors # 0
               /\ c.errors = s.errors
               /\ c.errors = 2 => ctx.errors # 0
<1>1. res \in Answers /\ ctx \in Contexts
    BY ContextType DEF Shape
<1>2. /\ res.url \in Urls /\ site[res.url] \in Pages /\ res.size \in 0 .. LenMod - 1
      /\ res.status \in {200, 301, 304, 401, 404}
      /\ res.location # NoLocation => res.location \in Locations
    BY <1>1, Served DEF Answers
<1> DEFINE e == IF res.status = 401 THEN (IF ctx.errors < 2 THEN ctx.errors + 1 ELSE 2) ELSE 0
           s == StatusLine(ctx)
           t == ContentLength(s)
           c == Location(t)
<1>3. /\ e \in UpToTwo /\ (res.status # 401 => e = 0) /\ (res.status = 401 => e # 0)
      /\ e = 2 => ctx.errors # 0
    BY <1>1, ContextFields DEF UpToTwo
<1>4. s = WithLine(ctx, res.status, site[res.url].http, e)
    BY DEF StatusLine, WithLine
<1> HIDE DEF e, s
<1>5. /\ site[res.url].http \in HttpVersions /\ res.status \in Statuses
      /\ res.size \in Lengths
    BY <1>2 DEF Pages, HttpVersions, Statuses, Lengths
<1>6. /\ s \in Contexts
      /\ s.status = res.status /\ s.httpversion = site[res.url].http /\ s.errors = e
      /\ s.length = ctx.length /\ s.redirecturl = ctx.redirecturl
      /\ s.user = ctx.user /\ s.digest = ctx.digest /\ s.authenticated = ctx.authenticated
    BY <1>1, <1>3, <1>4, <1>5, LineSet
<1>7. /\ t = IF site[res.url].measured /\ res.status # 304
               THEN WithLength(s, res.size) ELSE s
    BY DEF ContentLength, WithLength
<1> HIDE DEF t
<1>8. /\ t \in Contexts
      /\ site[res.url].measured /\ res.status # 304 => t.length = res.size
      /\ t.status = s.status /\ t.httpversion = s.httpversion /\ t.errors = s.errors
      /\ t.user = s.user /\ t.digest = s.digest /\ t.authenticated = s.authenticated
    BY <1>5, <1>6, <1>7, LengthSet
<1>9. res.location # NoLocation => ExpandURL(res.location, res.url) \in Places
    BY <1>2, Expanded DEF Places
<1>10. c = IF res.location = NoLocation THEN t
           ELSE WithPlace(t, ExpandURL(res.location, res.url))
    BY DEF Location, WithPlace
<1> HIDE DEF c
<1>11. /\ c \in Contexts
       /\ res.location # NoLocation => c.redirecturl = ExpandURL(res.location, res.url)
       /\ c.length = t.length
       /\ c.status = t.status /\ c.httpversion = t.httpversion /\ c.errors = t.errors
       /\ c.user = t.user /\ c.digest = t.digest /\ c.authenticated = t.authenticated
    BY <1>8, <1>9, <1>10, PlaceSet
<1> QED BY <1>3, <1>6, <1>8, <1>11 DEF c, t, s

\* Past the headers the context holds the answer, and a user to retry with.
LEMMA HeadersKeeps == ASSUME IInv, Headers PROVE IInv'
<1> USE DEF IInv, world, call, wire, body
<1> DEFINE auth == site[res.url].auth
           asks == res.status = 401 /\ auth = "basic" /\ hascb /\ ctx.authenticated # 2
           user == Offer(BasicInvalid(ctx))
           c    == Location(ContentLength(StatusLine(ctx)))
<1>1. /\ pc = "headers" /\ res # NoAnswer
      /\ pc' = IF res.status = 304 \/ opt.type = "HEAD" THEN "finish" ELSE "open"
      /\ UNCHANGED <<site, hascb, version, now, opt, arg, byref, calls, sock, request, res,
                     left, lost, content_len, counting, files, ret, trouble>>
    BY DEF Headers
<1>2. /\ ctx' = IF res.status = 401 THEN HdrCbWWWAuthenticate(c, auth, user) ELSE c
      /\ offered' = IF asks /\ user # 0 THEN user ELSE offered
    BY DEF Headers
<1>3. /\ ctx \in Contexts /\ offered \in 0 .. Users /\ hascb \in BOOLEAN
      /\ ctx.authenticated \in UpToTwo /\ ctx.errors \in UpToTwo
    BY ContextType, ContextFields DEF Types, TypeOK
<1>4. /\ res \in Answers /\ res.url \in DOMAIN site
      /\ auth \in {"none", "basic", "digest", "other"}
      /\ site[res.url].http \in HttpVersions
    BY <1>1, Served DEF Types, Shape, Answers, Pages, HttpVersions
<1>5. user \in 0 .. Users
    BY <1>3, Offered DEF BasicInvalid
<1>6. /\ c \in Contexts /\ c.httpversion = site[res.url].http
      /\ c.status = res.status
      /\ site[res.url].measured /\ res.status # 304 => c.length = res.size
      /\ res.location # NoLocation => c.redirecturl = ExpandURL(res.location, res.url)
      /\ c.user = ctx.user /\ c.digest = ctx.digest /\ c.authenticated = ctx.authenticated
      /\ res.status # 401 => c.errors = 0
      /\ res.status = 401 => c.errors # 0
      /\ c.errors = 2 => ctx.errors # 0
    BY <1>1, ReadHeaders DEF Types
<1> HIDE DEF c, user
<1> DEFINE d == HdrCbWWWAuthenticate(c, auth, user)
<1> HIDE DEF auth
<1>61. /\ d \in Contexts
       /\ d.status = c.status /\ d.length = c.length /\ d.errors = c.errors
       /\ d.httpversion = c.httpversion /\ d.redirecturl = c.redirecturl
       /\ c.authenticated # 2 /\ hascb /\ auth = "basic" /\ user # 0 =>
             d.authenticated = 1 /\ d.digest = FALSE /\ d.user = user
       /\ c.authenticated # 2 /\ auth = "digest" =>
             d.authenticated = 1 /\ d.digest = TRUE
  <2>1. /\ c \in Contexts /\ auth \in {"none", "basic", "digest", "other"}
        /\ user \in 0 .. Users /\ hascb \in BOOLEAN
      BY <1>3, <1>4, <1>5, <1>6
  <2> QED BY <2>1, Challenged, Zenon
<1>62. ctx' = IF res.status = 401 THEN d ELSE c
    BY <1>2
<1> HIDE DEF d
<1> USE DEF auth
<1>7. /\ ctx' \in Contexts
      /\ ctx'.status = c.status /\ ctx'.length = c.length /\ ctx'.errors = c.errors
      /\ ctx'.httpversion = c.httpversion /\ ctx'.redirecturl = c.redirecturl
    BY <1>6, <1>61, <1>62
<1>8. offered' \in 0 .. Users
    BY <1>2, <1>3, <1>5
<1>11. Types'
  <2>1. TypeOK'
      BY <1>1, <1>7, <1>8 DEF Types, TypeOK, Contexts, Statuses, Lengths, HttpVersions, Places,
                              UpToTwo, Flags, Choices
  <2>2. Shape'
      BY <1>1 DEF Types, Shape, Stored, Answers
  <2> QED BY <2>1, <2>2 DEF Types
<1>12. (Told /\ Noted /\ Written)'
  <2>1. Told' /\ Written'
      BY <1>1 DEF Told, Written, Noted
  <2>2. Noted'
    <3>1. ctx'.status = res.status /\ res' = res /\ site' = site /\ lost' = lost
        BY <1>1, <1>6, <1>7
    <3>2. site[res.url].measured /\ res.status # 304 => ctx'.length = res.size
        BY <1>6, <1>7
    <3>3. res.location # NoLocation => ctx'.redirecturl = ExpandURL(res.location, res.url)
        BY <1>6, <1>7
    <3>4. pc' = "open" => opt'.type # "HEAD" /\ res.status # 304
        BY <1>1
    <3>5. pc' \in {"open", "finish"} /\ lost' # "headers"
        BY <1>1 DEF Noted
    <3> QED BY <1>1, <3>1, <3>2, <3>3, <3>4, <3>5 DEF Noted
  <2> QED BY <2>1, <2>2
<1>13. PlainIsWhole'
    BY <1>1 DEF PlainIsWhole, Plain
<1>14. Timely'
    BY <1>1, <1>4, <1>6, <1>7 DEF Timely, NewServers
<1>15. Asked'
  <2> SUFFICES ASSUME Admitted' PROVE (Asked!2)'
      BY DEF Asked
  <2>1. Admitted
      BY <1>1 DEF Admitted, OneRealm, Protected
  <2>2. CASE res.status # 401
    <3>1. ctx' = c /\ offered' = offered
        BY <1>2, <2>2
    <3> QED BY <1>1, <1>6, <2>1, <2>2, <3>1 DEF Asked, Protected
  <2>3. CASE res.status = 401
    <3>1. /\ Protected(res.url) /\ site[res.url].user \in 1 .. Users
          /\ auth \in {"basic", "digest"}
          /\ \A u \in DOMAIN site : Protected(u) => site[u].user = site[res.url].user
      <4>1. Protected(res.url)
          BY <1>1, <2>3 DEF Told, Protected
      <4>2. site[res.url].user \in 1 .. Users + 1
          BY <1>4, Served DEF Types, Pages
      <4> QED BY <1>4, <2>1, <4>1, <4>2, YellHttpConstants DEF Admitted, OneRealm, Protected
    <3>2. ctx.authenticated = 1 => offered < site[res.url].user
        BY <1>1, <1>3, <1>4, <2>1, <2>3, <3>1 DEF Asked
    <3>3. ctx.authenticated \in {0, 1} /\ c.authenticated # 2 /\ hascb = TRUE
        BY <1>3, <1>6, <2>1 DEF Asked, Admitted, UpToTwo
    <3>4. CASE auth = "basic"
      <4>1. user # 0 /\ user <= site[res.url].user
        <5>1. CASE ctx.authenticated = 1
          <6>1. offered + 1 <= Users
              BY <1>3, <3>1, <3>2, <5>1, YellHttpConstants
          <6>2. user = offered + 1
              BY <5>1, <6>1 DEF user, Offer, BasicInvalid
          <6> QED BY <1>3, <3>1, <3>2, <5>1, <6>2
        <5>2. CASE ctx.authenticated = 0
          <6>1. user = 1
              BY <3>1, <5>2, YellHttpConstants DEF user, Offer, BasicInvalid
          <6> QED BY <3>1, <6>1
        <5> QED BY <3>3, <5>1, <5>2
      <4>2. ctx' = d /\ offered' = user
          BY <1>2, <1>62, <2>3, <3>3, <3>4, <4>1
      <4>3. ctx'.authenticated = 1 /\ ctx'.digest = FALSE /\ ctx'.user = user
          BY <1>61, <3>3, <3>4, <4>1, <4>2, Zenon
      <4>4. \A u \in DOMAIN site : Protected(u) => offered' <= site[u].user
          BY <3>1, <4>1, <4>2
      <4> QED BY <1>1, <2>1, <4>2, <4>3, <4>4 DEF Asked, Protected
    <3>5. CASE auth = "digest"
      <4>1. ctx' = d /\ offered' = offered
          BY <1>2, <1>62, <2>3, <3>5
      <4>2. ctx'.authenticated = 1 /\ ctx'.digest = TRUE
          BY <1>61, <3>3, <3>5, <4>1, Zenon
      <4>3. ctx'.errors = 2 => offered < site[res.url].user
        <5>1. ctx'.errors = 2 => ctx.errors # 0
            BY <1>6, <1>7
        <5> QED BY <2>1, <3>2, <5>1 DEF Asked
      <4> QED BY <1>1, <2>1, <3>1, <4>1, <4>2, <4>3 DEF Asked, Protected
    <3> QED BY <3>1, <3>4, <3>5
  <2> QED BY <2>2, <2>3
<1>16. (EmptyUnconnected /\ Complete /\ NoFalseRefusal /\ RedirectedAsTold /\ SocketsClosed)'
    BY <1>1 DEF EmptyUnconnected, Complete, Answered, NoFalseRefusal, RedirectedAsTold,
                SocketsClosed
<1> QED BY <1>11, <1>12, <1>13, <1>14, <1>15, <1>16

\* Headers that end early are marked as lost.
LEMMA HeadersLostKeeps == ASSUME IInv, HeadersLost PROVE IInv'
<1> USE DEF IInv, world, call, body
<1>1. /\ pc = "headers" /\ lost # "no" /\ lost' = "headers" /\ pc' = "finish"
      /\ UNCHANGED <<site, hascb, version, now, opt, arg, byref, calls, offered, sock, request,
                     res, left, content_len, counting, files, ret, trouble>>
    BY DEF HeadersLost
<1>2. ctx' = ctx \/ (res # NoAnswer /\ ctx' = StatusLine(ctx))
    BY DEF HeadersLost
<1>3. ctx \in Contexts /\ ctx' \in Contexts
    BY <1>2, ContextType, ReadHeaders DEF Types
<1>4. Types'
  <2>1. TypeOK'
      BY <1>1, <1>3 DEF Types, TypeOK, Contexts, Statuses, Lengths, HttpVersions, Places,
                        UpToTwo, Flags, Choices
  <2>2. Shape'
      BY <1>1 DEF Types, Shape, Stored, Answers
  <2> QED BY <2>1, <2>2 DEF Types
<1>5. (Told /\ Noted /\ Written /\ PlainIsWhole)'
    BY <1>1 DEF Told, Noted, Written, PlainIsWhole, Plain
<1>6. Timely'
  <2>1. NewServers => ctx'.httpversion = "1.1"
    <3>1. res # NoAnswer => res.url \in DOMAIN site
        BY DEF Types, Shape, Answers
    <3> QED BY <1>2, <3>1, ReadHeaders DEF Timely, NewServers, Types
  <2> QED BY <1>1, <2>1 DEF Timely, NewServers
<1>7. Asked'
    BY <1>1 DEF Asked, Admitted, OneRealm, Protected
<1>8. (EmptyUnconnected /\ Complete /\ NoFalseRefusal /\ RedirectedAsTold /\ SocketsClosed)'
    BY <1>1 DEF EmptyUnconnected, Complete, Answered, NoFalseRefusal, RedirectedAsTold,
                SocketsClosed
<1> QED BY <1>4, <1>5, <1>6, <1>7, <1>8

-----------------------------------------------------------------------------
(* The body *)

Whats == {200, 301, 401, 404}
Versions == 0 .. MaxVer
Times == 0 .. MaxTime

\* Stored, with the URLs and the sets of the fields under names.
StoredOf(D) == [what : Whats, url : D, ver : Versions, len : Nat, size : Lengths,
                mtime : Times]

\* Stored is the set of all such files.
LEMMA StoredIs == Stored = StoredOf(DOMAIN site)
BY DEF Stored, StoredOf, Whats, Versions, Times, Lengths

\* A file written to: more of the body and a new time, or a new time only.
WrittenTo(f, n, t) == [f EXCEPT !.len = @ + n, !.mtime = t]
Touched(f, t) == [f EXCEPT !.mtime = t]

\* Writing changes the length and the time of a file, and nothing else.
LEMMA FileWritten ==
    ASSUME NEW D, NEW f \in StoredOf(D), NEW n \in Nat, NEW t \in Times
    PROVE  LET g == WrittenTo(f, n, t)
           IN  /\ g \in StoredOf(D)
               /\ g.what = f.what /\ g.url = f.url /\ g.ver = f.ver /\ g.size = f.size
               /\ g.len = f.len + n /\ g.mtime = t
<1> DEFINE To(l) == [f EXCEPT !.len = l, !.mtime = t]
<1>1. ASSUME NEW l \in Nat
      PROVE  /\ To(l) \in StoredOf(D)
             /\ To(l).what = f.what /\ To(l).url = f.url /\ To(l).ver = f.ver
             /\ To(l).size = f.size /\ To(l).len = l /\ To(l).mtime = t
    BY Zenon DEF StoredOf
<1>2. f.len \in Nat
    BY DEF StoredOf
<1>3. f.len + n \in Nat /\ WrittenTo(f, n, t) = To(f.len + n)
    BY <1>2 DEF WrittenTo
<1> HIDE DEF To
<1> QED BY <1>1, <1>3

\* Closing changes the time.
LEMMA FileTouched ==
    ASSUME NEW D, NEW f \in StoredOf(D), NEW t \in Times
    PROVE  LET g == Touched(f, t)
           IN  /\ g \in StoredOf(D)
               /\ g.what = f.what /\ g.url = f.url /\ g.ver = f.ver /\ g.size = f.size
               /\ g.len = f.len /\ g.mtime = t
BY Zenon DEF StoredOf, Touched

\* One file is written, the others stay.
LEMMA OneFile ==
    ASSUME files \in [Files -> Stored \cup {NoFile}], NEW x \in Files, NEW g \in Stored,
           NEW fs, fs = [files EXCEPT ![x] = g]
    PROVE  /\ fs \in [Files -> Stored \cup {NoFile}]
           /\ fs[x] = g
           /\ \A y \in Files : y # x => fs[y] = files[y]
OBVIOUS

\* What a step of the body may do: the file of the answer is written, and
\* nothing that the rest of the invariant is about changes.
LEMMA BodyStep ==
    ASSUME IInv, pc \in {"open", "body"}, pc' \in {"body", "finish"},
           UNCHANGED <<site, hascb, version, now, opt, arg, byref, calls, ctx, offered, sock,
                       request, res, lost, ret, trouble>>,
           NEW g \in Stored, files' = [files EXCEPT ![res.url.file] = g],
           g.what = res.status, g.url = res.url, g.ver = res.ver, g.size = res.size,
           left' \in Nat, left' <= left, content_len' \in 0 .. LenMod - 1,
           counting' \in BOOLEAN,
           g.len + left' <= res.size,
           pc' = "body" /\ site[res.url].measured =>
               counting' = TRUE /\ g.len + content_len' = res.size,
           pc' = "finish" /\ site[res.url].measured => g.len = res.size
    PROVE  IInv'
<1> USE DEF IInv
<1>1. /\ res \in Answers /\ res # NoAnswer /\ res.url \in DOMAIN site /\ res.url.file \in Files
      /\ res.status # 304 /\ lost # "headers" /\ opt.type # "HEAD" /\ ctx.status = res.status
      /\ res.size \in Nat /\ g.len \in Nat /\ g # NoFile
  <2>1. res \in Answers /\ res # NoAnswer
      BY DEF Types, Shape, Noted
  <2>2. res.url \in DOMAIN site /\ res.url.file \in Files
      BY <2>1, Served DEF Types, Answers
  <2>3. res.size \in Nat /\ g.len \in Nat /\ g # NoFile
      BY <2>1, Somethings, YellHttpConstants DEF Answers, Stored
  <2> QED BY <2>1, <2>2, <2>3 DEF Noted
<1>2. /\ files' \in [Files -> Stored \cup {NoFile}]
      /\ files'[res.url.file] = g
      /\ \A y \in Files : y # res.url.file => files'[y] = files[y]
    BY <1>1, OneFile DEF Types, Shape
<1>3. g.url.file = res.url.file /\ g.len \in 0 .. g.size
    BY <1>1
<1>4. Types'
  <2>1. \A f \in Files : files'[f] # NoFile =>
           files'[f].url.file = f /\ files'[f].len \in 0 .. files'[f].size
      BY <1>2, <1>3 DEF Types, TypeOK
  <2>2. TypeOK'
      BY <2>1 DEF Types, TypeOK
  <2>3. Shape'
      BY <1>2 DEF Types, Shape, Stored, Answers
  <2> QED BY <2>2, <2>3 DEF Types
<1>5. Told' /\ Noted'
  <2>1. left' <= res.size
      BY <1>1
  <2> QED BY <1>1, <2>1 DEF Told, Noted
<1>6. Written'
    BY <1>1, <1>2 DEF Written, OfAnswer
<1>7. PlainIsWhole'
  <2> SUFFICES ASSUME trouble # "killed", NEW u \in DOMAIN site, Plain(u),
                      files'[u.file] # NoFile, ~(pc' = "body" /\ res.url = u)
               PROVE  files'[u.file].what = 200 /\ files'[u.file].len = files'[u.file].size
      BY DEF PlainIsWhole, Plain
  <2>1. u.file \in Files
      BY Served DEF Types
  <2>2. CASE u = res.url
    <3>1. res.status = 200
        BY <1>1, <2>2 DEF Told, Plain, Answers
    <3>2. g.len = g.size
        BY <2>2 DEF Plain
    <3> QED BY <1>2, <2>2, <3>1, <3>2
  <2>3. CASE u # res.url
    <3>1. u.file # res.url.file
        BY <1>1, <2>3 DEF Plain
    <3> QED BY <1>2, <2>1, <2>3, <3>1 DEF PlainIsWhole
  <2> QED BY <2>2, <2>3
<1>8. Timely'
    BY <1>1 DEF Timely, NewServers
<1>9. Asked'
    BY DEF Asked, Admitted, OneRealm, Protected
<1>10. (EmptyUnconnected /\ Complete /\ NoFalseRefusal /\ RedirectedAsTold /\ SocketsClosed)'
    BY DEF EmptyUnconnected, Complete, Answered, NoFalseRefusal, RedirectedAsTold,
           SocketsClosed
<1> QED BY <1>4, <1>5, <1>6, <1>7, <1>8, <1>9, <1>10

\* fopen(filename, "wb"): the file is that of the answer, with all of it to come.
LEMMA OpenKeeps == ASSUME IInv, Open PROVE IInv'
<1> USE DEF world, call, wire
<1> DEFINE g == [what |-> res.status, url |-> res.url, ver |-> res.ver,
                 len |-> 0, size |-> res.size, mtime |-> now]
<1>0. /\ pc = "open" /\ pc' = "body" /\ files' = [files EXCEPT ![res.url.file] = g]
      /\ content_len' = ctx.length /\ counting' = (ctx.length # 0)
      /\ UNCHANGED <<site, hascb, version, now, opt, arg, byref, calls, ctx, offered, sock,
                     request, res, left, lost, ret, trouble>>
    BY DEF Open
<1>1. /\ res \in Answers /\ res # NoAnswer /\ lost # "headers" /\ res.status # 304
      /\ site[res.url].measured => ctx.length = res.size
    BY <1>0 DEF IInv, Noted, Types, Shape
<1>2. res.size # 0 /\ left <= res.size /\ left \in Nat
    BY <1>1 DEF IInv, Told, Types, TypeOK
<1>3. g \in Stored
    BY <1>1 DEF Answers, Stored, IInv, Types, TypeOK
<1>4. content_len' \in 0 .. LenMod - 1 /\ counting' \in BOOLEAN
  <2>1. ctx.length \in 0 .. LenMod - 1
      BY ContextType, ContextFields DEF IInv, Types, Lengths
  <2>2. counting' \in BOOLEAN
      BY <1>0
  <2> QED BY <1>0, <2>1, <2>2
<1>5. g.len + left <= res.size
    BY <1>2
<1>6. site[res.url].measured => counting' = TRUE /\ g.len + content_len' = res.size
  <2>1. res.size \in Nat
      BY <1>1, YellHttpConstants DEF Answers
  <2>2. site[res.url].measured => ctx.length # 0
      BY <1>1, <1>2
  <2>3. g.len + content_len' = content_len'
    <3>1. content_len' \in Int
        BY <1>4, YellHttpConstants
    <3>2. \A n \in Int : 0 + n = n
        OBVIOUS
    <3>3. 0 + content_len' = content_len'
        BY <3>1, <3>2, Zenon
    <3> QED BY <3>3, Zenon
  <2> QED BY <1>0, <1>1, <2>1, <2>2, <2>3
<1>7. g.what = res.status /\ g.url = res.url /\ g.ver = res.ver /\ g.size = res.size
    OBVIOUS
<1> HIDE DEF g
<1>8. left' \in Nat /\ left' <= left /\ g.len + left' <= res.size
    BY <1>0, <1>2, <1>5
<1> QED BY <1>0, <1>3, <1>4, <1>6, <1>7, <1>8, BodyStep

\* The file of the body, with the sizes that go with it.
LEMMA BodyFile ==
    ASSUME IInv, pc = "body"
    PROVE  /\ res \in Answers /\ res.url.file \in Files /\ res.size \in Nat
           /\ files[res.url.file] \in Stored /\ OfAnswer(files[res.url.file])
           /\ files[res.url.file].len \in Nat /\ left \in Nat /\ content_len \in Nat
           /\ now \in Times
<1> USE DEF IInv
<1>1. res \in Answers
    BY DEF Noted, Types, Shape
<1>2. res.url.file \in Files /\ res.size \in Nat
    BY <1>1, Served, YellHttpConstants DEF Types, Answers
<1>3. files[res.url.file] \in Stored
    BY <1>2 DEF Types, Shape, Written
<1>4. files[res.url.file].len \in Nat
    BY <1>3 DEF Stored
<1>5. left \in Nat /\ content_len \in Nat /\ now \in Times
    BY YellHttpConstants DEF Types, TypeOK, Times
<1> QED BY <1>1, <1>2, <1>3, <1>4, <1>5 DEF Written

\* A buffer goes from what is left to the file, and off content_len.
LEMMA ReceiveKeeps == ASSUME IInv, Receive PROVE IInv'
<1> USE DEF world, call
<1> DEFINE x == res.url.file
<1>1. PICK n \in IF res.url.ssl THEN 1 .. RecvData ELSE {RecvData} :
        /\ files' = [files EXCEPT ![x].len = @ + n, ![x].mtime = now]
        /\ left' = left - n
        /\ content_len' = IF counting THEN (content_len - n) % LenMod ELSE content_len
    BY DEF Receive
<1>2. /\ pc = "body" /\ left > 0 /\ pc' = "body"
      /\ UNCHANGED <<site, hascb, version, now, opt, arg, byref, calls, ctx, offered, sock,
                     request, res, lost, counting, ret, trouble>>
    BY DEF Receive
<1>3. /\ res \in Answers /\ x \in Files /\ res.size \in Nat
      /\ files[x] \in Stored /\ OfAnswer(files[x])
      /\ files[x].len \in Nat /\ left \in Nat /\ content_len \in Nat /\ now \in Times
    BY <1>2, BodyFile
<1>4. n \in Nat /\ n >= 1 /\ n <= left
  <2>1. RecvData \in Nat /\ RecvData >= 1 /\ RecvData <= left
      BY <1>2, <1>3, YellHttpConstants DEF RecvData
  <2> QED BY <1>3, <2>1
<1> DEFINE g == WrittenTo(files[x], n, now)
<1>5. files \in [Files -> Stored \cup {NoFile}]
    BY DEF IInv, Types, Shape
<1>6. files' = [files EXCEPT ![x] = g]
    BY <1>1, <1>3, <1>5 DEF WrittenTo
<1>7. /\ g \in Stored
      /\ g.what = files[x].what /\ g.url = files[x].url /\ g.ver = files[x].ver
      /\ g.size = files[x].size /\ g.len = files[x].len + n
  <2>1. files[x] \in StoredOf(DOMAIN site) /\ n \in Nat /\ now \in Times
      BY <1>3, <1>4, StoredIs
  <2>2. /\ g \in StoredOf(DOMAIN site)
        /\ g.what = files[x].what /\ g.url = files[x].url /\ g.ver = files[x].ver
        /\ g.size = files[x].size /\ g.len = files[x].len + n /\ g.mtime = now
      BY <2>1, FileWritten
  <2> QED BY <2>2, StoredIs
<1> HIDE DEF g
<1>8. g.what = res.status /\ g.url = res.url /\ g.ver = res.ver /\ g.size = res.size
    BY <1>3, <1>7 DEF OfAnswer
<1>9. /\ files[x].len + left <= res.size
      /\ site[res.url].measured => counting = TRUE /\ files[x].len + content_len = res.size
      /\ counting \in BOOLEAN /\ content_len \in 0 .. LenMod - 1
    BY <1>2 DEF IInv, Written, Types, TypeOK
<1>10. left' \in Nat /\ left' <= left /\ g.len + left' <= res.size
    BY <1>1, <1>3, <1>4, <1>7, <1>9
<1>11. LenMod \in Nat /\ LenMod > 0 /\ res.size \in 0 .. LenMod - 1
    BY <1>3, YellHttpConstants DEF Answers
<1>12. content_len' \in 0 .. LenMod - 1
  <2>1. (content_len - n) % LenMod \in 0 .. LenMod - 1
      BY <1>3, <1>4, <1>11, ModRange
  <2> QED BY <1>1, <1>9, <2>1
<1>13. site[res.url].measured => g.len + content_len' = res.size
  <2> SUFFICES ASSUME site[res.url].measured PROVE g.len + content_len' = res.size
      OBVIOUS
  <2>1. counting = TRUE /\ content_len = res.size - files[x].len
      BY <1>3, <1>9
  <2>2. content_len - n \in 0 .. LenMod - 1
      BY <1>3, <1>4, <1>9, <1>11, <2>1
  <2>3. (content_len - n) % LenMod = content_len - n
      BY <1>11, <2>2
  <2> QED BY <1>1, <1>3, <1>4, <1>7, <2>1, <2>3
<1>14. counting' \in BOOLEAN /\ (site[res.url].measured => counting' = TRUE)
    BY <1>2, <1>9
<1> QED BY <1>2, <1>6, <1>7, <1>8, <1>10, <1>12, <1>13, <1>14, BodyStep

\* When the loop ends, content_len is used up.
LEMMA BodyDoneKeeps == ASSUME IInv, BodyDone PROVE IInv'
<1> USE DEF world, call, wire
<1> DEFINE x == res.url.file
           g == Touched(files[x], now)
<1>1. /\ pc = "body" /\ pc' = "finish" /\ content_len' = 0 /\ counting' = FALSE /\ BodyAtEnd
      /\ files' = [files EXCEPT ![x].mtime = now]
      /\ UNCHANGED <<site, hascb, version, now, opt, arg, byref, calls, ctx, offered, sock,
                     request, res, left, lost, ret, trouble>>
    BY DEF BodyDone
<1>2. /\ res \in Answers /\ x \in Files /\ res.size \in Nat
      /\ files[x] \in Stored /\ OfAnswer(files[x])
      /\ files[x].len \in Nat /\ left \in Nat /\ content_len \in Nat /\ now \in Times
    BY <1>1, BodyFile
<1>3. files \in [Files -> Stored \cup {NoFile}]
    BY DEF IInv, Types, Shape
<1>4. files' = [files EXCEPT ![x] = g]
    BY <1>1, <1>2, <1>3 DEF Touched
<1>5. /\ g \in Stored
      /\ g.what = files[x].what /\ g.url = files[x].url /\ g.ver = files[x].ver
      /\ g.size = files[x].size /\ g.len = files[x].len
    BY <1>2, StoredIs, FileTouched
<1> HIDE DEF g
<1>6. g.what = res.status /\ g.url = res.url /\ g.ver = res.ver /\ g.size = res.size
    BY <1>2, <1>5 DEF OfAnswer
<1>7. /\ files[x].len + left <= res.size
      /\ site[res.url].measured => counting = TRUE /\ files[x].len + content_len = res.size
    BY <1>1 DEF IInv, Written
<1>8. site[res.url].measured => g.len = res.size
    BY <1>1, <1>2, <1>5, <1>7 DEF BodyAtEnd
<1>9. g.len + left' <= res.size /\ left' \in Nat /\ left' <= left
    BY <1>1, <1>2, <1>5, <1>7
<1>10. content_len' \in 0 .. LenMod - 1 /\ counting' \in BOOLEAN
  <2>1. ErrLen \in Nat /\ LenMod \in Nat /\ ErrLen < LenMod
      BY YellHttpConstants
  <2>2. 0 \in 0 .. LenMod - 1
      BY <2>1
  <2>3. counting' \in BOOLEAN
      BY <1>1
  <2> QED BY <1>1, <2>2, <2>3
<1> QED BY <1>1, <1>4, <1>5, <1>6, <1>8, <1>9, <1>10, BodyStep

-----------------------------------------------------------------------------
(* The end of a call *)

\* The end of the request: a redirection, a retry, or the return to the application.
LEMMA FinishKeeps == ASSUME IInv, Finish PROVE IInv'
<1> USE DEF IInv, world, wire, body
<1>1. /\ pc = "finish" /\ sock' = FALSE
      /\ UNCHANGED <<site, hascb, version, now, opt, calls, ctx, offered, request, res, left,
                     lost, content_len, counting, files, trouble>>
    BY DEF Finish
<1>2. \/ /\ Redirects(ctx) \/ Retries(ctx)
         /\ byref' = (byref \/ Redirects(ctx))
         /\ arg' = IF byref' THEN ctx.redirecturl ELSE arg
         /\ pc' = "connect" /\ ret' = ret
      \/ /\ ~Redirects(ctx) /\ ~Retries(ctx)
         /\ pc' = "idle" /\ ret' = (IF ctx.status >= 400 THEN "error" ELSE "ok")
         /\ arg' = arg /\ byref' = byref
    BY DEF Finish, Return
<1>3. pc' \in {"connect", "idle"}
    BY <1>2
<1>4. Types'
  <2>1. arg' \in Places /\ byref' \in BOOLEAN
    <3>1. ctx.redirecturl \in Places /\ arg \in Places /\ byref \in BOOLEAN
        BY ContextType, ContextFields DEF Types, TypeOK, Places
    <3>2. byref' \in BOOLEAN
        BY <1>2, <3>1, Zenon DEF Redirects
    <3> QED BY <1>2, <3>1, <3>2
  <2>2. TypeOK'
    <3>1. sock' \in BOOLEAN /\ pc' \in {"connect", "idle"}
        BY <1>1, <1>3
    <3> QED BY <1>1, <2>1, <3>1 DEF Types, TypeOK, Places
  <2>3. Shape'
      BY <1>1, <1>3 DEF Types, Shape, Stored, Answers
  <2> QED BY <2>2, <2>3 DEF Types
<1>5. (Told /\ Noted /\ Written /\ Timely)'
    BY <1>1, <1>3 DEF Told, Noted, Written, Timely, NewServers
<1>6. PlainIsWhole'
    BY <1>1, <1>3 DEF PlainIsWhole, Plain
<1>7. Asked'
    BY <1>1, <1>3 DEF Asked, Admitted, OneRealm, Protected
<1>8. EmptyUnconnected' /\ SocketsClosed'
    BY <1>1 DEF EmptyUnconnected, SocketsClosed
<1>9. lost # "headers" => res \in Answers /\ res.url \in DOMAIN site /\ ctx.status = res.status
    BY <1>1 DEF Noted, Types, Shape, Answers
<1>10. Complete'
  <2> SUFFICES ASSUME lost # "headers", res.status = 200, opt.type # "HEAD",
                      site[res.url].measured
               PROVE  LET f == files[res.url.file]
                      IN  f.what = 200 /\ f.url = res.url /\ f.ver = res.ver /\ f.len = f.size
      BY <1>1 DEF Complete, Answered
  <2> QED BY <1>1 DEF Written, OfAnswer
<1>11. NoFalseRefusal'
  <2> SUFFICES ASSUME pc' = "idle", lost # "headers", res.status = 401, hascb, OneRealm,
                      trouble = "none"
               PROVE  site[res.url].user > Users
      BY <1>1 DEF NoFalseRefusal, OneRealm
  <2>1. /\ Protected(res.url) /\ res.url \in DOMAIN site
        /\ site[res.url].user \in 1 .. Users + 1
    <3>1. res \in Answers /\ res # NoAnswer
        BY <1>9, Somethings
    <3> QED BY <1>9, <3>1, Served DEF Told, Protected, Types, Pages
  <2>2. ctx.authenticated # 1
      BY <1>2, <1>9 DEF Retries
  <2>3. ~Admitted
      BY <1>1, <2>2 DEF Asked
  <2>4. hascb = TRUE
      BY DEF Types, TypeOK
  <2>5. PICK u \in DOMAIN site : Protected(u) /\ ~(site[u].user <= Users)
      BY <2>1, <2>3, <2>4 DEF Admitted
  <2>6. site[u].user = site[res.url].user
      BY <2>1, <2>5 DEF OneRealm, Protected
  <2> QED BY <2>1, <2>5, <2>6, YellHttpConstants
<1>12. RedirectedAsTold'
  <2> SUFFICES ASSUME pc' = "connect", res # NoAnswer, res.location # NoLocation,
                      lost # "headers",
                      res.location.form = "rooted"
                          => ~res.url.ssl /\ res.url.port = "default"
               PROVE  arg' = Resolve(res.location, res.url)
      BY <1>1 DEF RedirectedAsTold, Resolve
  <2>1. /\ res.location \in Locations /\ res.url \in Urls /\ res.status = 301
        /\ ctx.status = 301
        /\ ctx.redirecturl = ExpandURL(res.location, res.url)
    <3>1. res.location \in Locations /\ res.url \in Urls
        BY <1>9, Served DEF Types, Answers
    <3>2. res.status = 301
        BY DEF Told
    <3> QED BY <1>1, <1>9, <3>1, <3>2 DEF Noted
  <2>2. Redirects(ctx)
      BY <1>2, <2>1 DEF Retries
  <2>3. arg' = ctx.redirecturl
      BY <1>2, <2>2
  <2> QED BY <2>1, <2>3, Resolved
<1> QED BY <1>4, <1>5, <1>6, <1>7, <1>8, <1>10, <1>11, <1>12

\* Only the files are left of a program that was killed.
LEMMA KillKeeps == ASSUME IInv, Kill PROVE IInv'
<1> USE DEF IInv, Kill, Return, world
<1>1. Types'
  <2>1. ctx' \in Contexts /\ 0 \in 0 .. Users /\ 0 \in 0 .. LenMod - 1
    <3>1. 0 \in 0 .. Users /\ 0 \in 0 .. LenMod - 1
        BY YellHttpConstants DEF Types, TypeOK
    <3> QED BY <3>1 DEF FreshCtx, Contexts, Statuses, Lengths, HttpVersions, Places,
                        UpToTwo, Flags, Choices
  <2>2. byref' \in BOOLEAN /\ sock' \in BOOLEAN /\ counting' \in BOOLEAN
      OBVIOUS
  <2>3. TypeOK'
      BY <2>1, <2>2 DEF Types, TypeOK, Contexts, Statuses, Lengths, HttpVersions, Places,
                        UpToTwo, Flags, Choices
  <2>4. Shape'
      BY <2>1 DEF Types, Shape, Stored, NoRequest
  <2> QED BY <2>3, <2>4 DEF Types
<1>2. (Told /\ Noted /\ Written /\ PlainIsWhole)'
    BY DEF Told, Noted, Written, PlainIsWhole
<1>3. (Timely /\ Asked)'
    BY DEF Timely, Asked, Admitted, FreshCtx
<1>4. (EmptyUnconnected /\ Complete /\ NoFalseRefusal /\ RedirectedAsTold /\ SocketsClosed)'
    BY DEF EmptyUnconnected, Complete, Answered, NoFalseRefusal, RedirectedAsTold,
           SocketsClosed
<1> QED BY <1>1, <1>2, <1>3, <1>4

\* Every step of the specification.
LEMMA NextKeeps == ASSUME IInv, [Next]_vars PROVE IInv'
<1>1. CASE Tick
    BY <1>1, TickKeeps
<1>2. ASSUME NEW u \in DOMAIN site, Change(u) PROVE IInv'
    BY <1>2, ChangeKeeps
<1>3. ASSUME NEW u \in DOMAIN site, NEW o \in Options, Call(u, o) PROVE IInv'
    BY <1>3, CallKeeps
<1>4. CASE Serve
    BY <1>4, ServeKeeps
<1>5. ASSUME NEW how \in {"closed", "reset"}, Lose(how) PROVE IInv'
    BY <1>5, LoseKeeps
<1>6. CASE Run
    BY <1>6, GivenUp, SendKeeps, HeadersKeeps, HeadersLostKeeps, OpenKeeps, ReceiveKeeps,
       BodyDoneKeeps, FinishKeeps DEF Run
<1>7. CASE Kill
    BY <1>7, KillKeeps
<1>8. CASE UNCHANGED vars
  <2>1. Types'
    <3>1. TypeOK'
        BY <1>8 DEF IInv, Types, TypeOK, vars, world, call, wire, body
    <3>2. Shape'
        BY <1>8 DEF IInv, Types, Shape, Stored, Answers, vars, world, call, wire, body
    <3> QED BY <3>1, <3>2 DEF Types
  <2> QED BY <1>8, <2>1, Outside DEF vars, world, call, wire, body
<1> QED BY <1>1, <1>2, <1>3, <1>4, <1>5, <1>6, <1>7, <1>8 DEF Next

-----------------------------------------------------------------------------
(* The theorems *)

\* The inductive invariant holds in every state.
LEMMA Invariance == Spec => []IInv
BY InitHolds, NextKeeps, PTL DEF Spec

\* The context, the connection and the files stay what ExecRequest takes them
\* to be, whatever the server says and the calls before have left.
THEOREM TypesKept == Spec => []TypeOK
<1>1. IInv => TypeOK
    BY DEF IInv, Types
<1> QED BY <1>1, Invariance, PTL

\* A call that reports success after the page itself was sent has stored it
\* whole: BodyDone only ends the loop of RecvData with content_len used up.
THEOREM StoredWhole == Spec => []Complete
<1>1. IInv => Complete
    BY DEF IInv
<1> QED BY <1>1, Invariance, PTL

\* What the server need not send again is the page of the time it was asked
\* about, and whole, as long as nothing killed the program.
THEOREM CacheTrusted == Spec => []CachedIsPage
<1>1. IInv => CachedIsPage
  <2> SUFFICES ASSUME IInv PROVE CachedIsPage
      OBVIOUS
  <2>1. Answered => res \in Answers /\ res.url \in DOMAIN site
      BY DEF Answered, IInv, Types, Shape, Answers
  <2>2. Fresh
      BY <2>1 DEF Fresh, IInv, Timely, Answered, NewServers
  <2>3. ASSUME Answered, res.status = 304, Plain(res.url), trouble # "killed"
        PROVE  files[res.url.file].what = 200
               /\ files[res.url.file].len = files[res.url.file].size
    <3>1. files[res.url.file] # NoFile
        BY <2>3 DEF IInv, Timely, Answered
    <3> QED BY <2>1, <2>3, <3>1 DEF IInv, PlainIsWhole, Answered
  <2> QED BY <2>2, <2>3 DEF CachedIsPage
<1> QED BY <1>1, Invariance, PTL

\* A call only fails with 401 when the callback has no user the server would
\* have let in: DigestInvalid and the test of authenticated for Basic never
\* make it skip one.
THEOREM RefusalsTrue == Spec => []NoFalseRefusal
<1>1. IInv => NoFalseRefusal
    BY DEF IInv
<1> QED BY <1>1, Invariance, PTL

\* A redirection leads where its Location says, but for references with "/"
\* from other than the default port.
THEOREM RedirectionsFollowed == Spec => []RedirectedAsTold
<1>1. IInv => RedirectedAsTold
    BY DEF IInv
<1> QED BY <1>1, Invariance, PTL

\* No call that got a connection leaves it open, whatever it returns.  A call whose
\* connect() failed is no such call: it returns ECONN with its socket open.
THEOREM ConnectionsClosed == Spec => []SocketsClosed
<1>1. IInv => SocketsClosed
    BY DEF IInv
<1> QED BY <1>1, Invariance, PTL
=============================================================================
