----------------------------- MODULE MCYellHttp -----------------------------
(* Small instances of YellHttp for TLC. *)
EXTENDS YellHttp, TLC

Url(file) == [ssl |-> FALSE, port |-> "default", file |-> file]
SslUrl(file) == [ssl |-> TRUE, port |-> "other", file |-> file]
Page(auth, user) == [kind |-> "page", to |-> NoLocation, auth |-> auth, user |-> user,
                     http |-> "1.1", measured |-> TRUE, changes |-> FALSE]
Moved(form, url) == [Page("none", 1) EXCEPT !.kind = "moved", !.to = [form |-> form, url |-> url]]

\* Two pages, one of them unmeasured or of an old server.
TwoPages ==
    {Url("a") :> [Page("none", 1) EXCEPT !.changes = TRUE] @@ Url("b") :> p :
        p \in {Page("none", 1), [Page("none", 1) EXCEPT !.measured = FALSE],
               [Page("none", 1) EXCEPT !.http = "1.0"]}}
\* A page that has moved to the same name, or to another, on an SSL host.
MovedPages ==
    {Url("a") :> Moved("whole", SslUrl("a")) @@ SslUrl("a") :> Page("none", 1),
     Url("a") :> Moved("relative", Url("b")) @@ Url("b") :> Page("basic", 2),
     SslUrl("a") :> Moved("rooted", Url("b")) @@ Url("b") :> [Page("none", 1) EXCEPT !.kind = "missing"],
     SslUrl("a") :> Moved("relative", Url("b")) @@ SslUrl("b") :> Page("none", 1),
     Url("a") :> [Moved("whole", Url("b")) EXCEPT !.to = NoLocation] @@ Url("b") :> Moved("whole", Url("a"))}
\* Protected pages.
ProtectedPages ==
    {Url("a") :> Page(auth, user) @@ Url("b") :> p :
        auth \in {"basic", "digest"}, user \in {2, 3}, p \in {Page("none", 1)}}
    \cup {Url("a") :> Page(auth, 2) @@ Url("b") :> p :
        auth \in {"basic", "digest"}, p \in {Page("digest", 2), Page("basic", 1), Page("other", 1)}}

MCSites == TwoPages \cup MovedPages \cup ProtectedPages
Get == [type |-> "GET", data |-> FALSE, nocache |-> FALSE, noredir |-> FALSE]
MCOptions == {Get, [Get EXCEPT !.nocache = TRUE], [Get EXCEPT !.noredir = TRUE],
              [Get EXCEPT !.type = "HEAD"], [Get EXCEPT !.type = "POST"]}
MCPageLen == [v \in 0 .. MaxVer |-> 3 + 2 * v]
=============================================================================
