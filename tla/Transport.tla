------------------------------ MODULE Transport ------------------------------
(***************************************************************************)
(* One exchange of the HTTP client (client.rs): a GET or a form POST, the  *)
(* attempts send_retrying makes, and the redirects followed by hand.       *)
(*                                                                         *)
(* The network may lose a request or its answer, or deliver a request      *)
(* after the client stopped waiting for it.  A URL is abstracted to its    *)
(* scheme and host, a response to what the client tells apart, and the     *)
(* cookies to one, the portal's session.                                   *)
(***************************************************************************)
EXTENDS Naturals

CONSTANTS
  Base,          \* the portal's URL, as the config gives it
  Hosts,         \* the hosts of links, form actions and redirects
  Loopback,      \* the host that is this machine
  Issued,        \* the values hosts give the session cookie
  MaxAttempts,   \* MAX_ATTEMPTS
  MaxRedirects   \* MAX_REDIRECTS

Urls == [scheme : {"http", "https"}, host : Hosts]

\* require_secure_url: https, or plain http to this machine.
Secure(u) == u.scheme = "https" \/ u.host = Loopback

ASSUME TransportAssumption ==
  /\ Base \in Urls
  /\ Secure(Base)                \* Client::new refuses any other base
  /\ Issued \cap {"none", "blank", "nothing", "expired"} = {}
  /\ MaxAttempts \in Nat \ {0}
  /\ MaxRedirects \in Nat

VARIABLES
  pc,        \* where the exchange is
  method,    \* of the request being sent
  url,       \* where it goes
  attempt,   \* how often send_retrying has sent it
  hops,      \* how many redirects were followed
  result,    \* what the caller gets
  wire,      \* the attempts of the form POST that may still reach the portal
  applied,   \* history: the attempts of it that the portal has processed
  sends,     \* history: how many requests the exchange has sent
  jar,       \* reqwest's jar: the cookie it sends the portal
  noted,     \* Client.cookies: the cookie a saved session holds
  apart      \* history: the last answer that set the cookie did so in one alone

cookie == <<jar, noted, apart>>
vars   == <<pc, method, url, attempt, hops, result, wire, applied, sends, cookie>>

Cookies == Issued \cup {"none", "blank"}

\* "busy": 429 or a gateway's 502, 503 or 504 (is_transient_status).
\* "failed": any other error status, 500 among them; "moved": a redirect.
Results == {"none", "page", "failed", "moved", "error"}

TypeOK ==
  /\ pc \in {"idle", "send", "wait", "over"}
  /\ method \in {"GET", "POST"}
  /\ url \in Urls
  /\ attempt \in 0 .. MaxAttempts
  /\ hops \in 0 .. MaxRedirects
  /\ result \in Results
  /\ wire \subseteq 1 .. MaxAttempts
  /\ applied \subseteq 1 .. MaxAttempts
  /\ sends \in Nat
  /\ jar \in Cookies /\ noted \in Cookies
  /\ apart \in BOOLEAN

Init ==
  /\ pc = "idle"
  /\ method = "GET"
  /\ url = Base
  /\ attempt = 0
  /\ hops = 0
  /\ result = "none"
  /\ wire = {}
  /\ applied = {}
  /\ sends = 0
  /\ jar = "none" /\ noted = "none"
  /\ apart = FALSE

Over(r) == pc' = "over" /\ result' = r

\* Mutant of MayStart: a form goes wherever the page's action says.
MayStartAnywhere(m, u) == Secure(u)

\* require_secure_portal_url, and post_form's check of the action's origin.
MayStart(m, u) == Secure(u) /\ (m = "POST" => u = Base)

\* get and post_form, up to the first send.  The URL is the base's own page, or
\* a form action or a link taken from a page.  A form goes to the portal alone.
Start ==
  /\ pc = "idle"
  /\ \E m \in {"GET", "POST"}, u \in Urls :
       /\ method' = m
       /\ url' = u
       /\ IF MayStart(m, u)
            THEN pc' = "send" /\ UNCHANGED result
            ELSE Over("error")
  /\ UNCHANGED <<attempt, hops, wire, applied, sends, cookie>>

\* The history counts a little further than the bound it is compared with.
MostSends == (MaxRedirects + 1) * MaxAttempts
Count(n) == IF n > MostSends THEN n ELSE n + 1

\* One turn of send_retrying's loop.
Send ==
  /\ pc = "send"
  /\ attempt' = attempt + 1
  /\ sends' = Count(sends)
  /\ wire' = IF method = "POST" THEN wire \cup {attempt + 1} ELSE wire
  /\ pc' = "wait"
  /\ UNCHANGED <<method, url, hops, result, applied, cookie>>

\* Mutant of MayRetry: the last attempt is retried too.
MayRetryOnceMore == attempt <= MaxAttempts

\* attempt < MAX_ATTEMPTS.
MayRetry == attempt < MaxAttempts

\* A transient failure is retried while attempts are left, and an error after.
Again ==
  /\ IF MayRetry THEN pc' = "send" /\ UNCHANGED result ELSE Over("error")
  /\ UNCHANGED <<method, url, attempt, hops>>

\* What an answer may say of the cookie.
Sayings == Issued \cup {"nothing", "expired"}

\* reqwest keeps a jar for each host, and hears every answer.
Jarred(said) ==
  IF url.host # Base.host \/ said = "nothing" THEN jar
  ELSE IF said = "expired" THEN "none" ELSE said

\* Mutant of Recorded: the cookies of redirects, a login's among them, are missed.
RecordedOfPages(said) ==
  IF said = "nothing" \/ pc' = "send" THEN noted ELSE IF said = "expired" THEN "blank" ELSE said

\* record_cookies keeps one map for all hosts, and for a cookie that expires its
\* empty value.
Recorded(said) ==
  IF said = "nothing" THEN noted ELSE IF said = "expired" THEN "blank" ELSE said

\* An answer that get or post_form has from send_retrying.
Hear ==
  \E said \in Sayings :
    /\ jar' = Jarred(said)
    /\ noted' = Recorded(said)
    /\ apart' = IF said = "nothing" THEN apart ELSE url.host # Base.host

\* An answer that send_retrying retries or makes an error of.
Overhear ==
  \E said \in Sayings :
    /\ jar' = Jarred(said)
    /\ apart' = (apart \/ (said # "nothing" /\ url.host = Base.host))
    /\ UNCHANGED noted

\* No answer: the connection failed, was reset or timed out.  The request may
\* be lost or still on its way.
NoAnswer ==
  /\ pc = "wait"
  /\ Again
  /\ UNCHANGED <<wire, applied, sends, cookie>>

\* A gateway answers for the portal, which may yet get the request.
Busy ==
  /\ pc = "wait"
  /\ Again
  /\ Overhear
  /\ wire' \in {wire, wire \ {attempt}}
  /\ UNCHANGED <<applied, sends>>

\* A transport error that is not retried.
Broken ==
  /\ pc = "wait"
  /\ Over("error")
  /\ UNCHANGED <<method, url, attempt, hops, wire, applied, sends, cookie>>

\* The portal has processed the request that the client is waiting on.
Processed == method = "POST" => attempt \in applied

\* A page, or the page of an error status: both are handed to the scrapers.  Or
\* the body breaks off after its headers.
Receive ==
  /\ pc = "wait"
  /\ Processed
  /\ \E r \in {"page", "failed", "error"} : Over(r)
  /\ Hear
  /\ UNCHANGED <<method, url, attempt, hops, wire, applied, sends>>

\* Mutant of HopAllowed: without the downgrade check.
HopToAnySecure(from, to) == Secure(to)

\* require_secure_hop.
HopAllowed(from, to) == Secure(to) /\ (from.scheme = "https" => to.scheme = "https")

\* Mutant of MayFollow: an off-by-one in the loop.
MayFollowOneMore == hops <= MaxRedirects

\* hops < MAX_REDIRECTS.
MayFollow == hops < MaxRedirects

\* Mutant of Followed: the redirects are not counted.
NotCounted == hops

\* hops += 1.
Followed == hops + 1

\* A redirect is followed as a GET, MaxRedirects times; one more is handed back.
Redirect ==
  /\ pc = "wait"
  /\ Processed
  /\ IF ~MayFollow
       THEN Over("moved") /\ UNCHANGED <<method, url, attempt, hops>>
       ELSE \E to \in Urls :
              IF HopAllowed(url, to)
                THEN /\ method' = "GET"
                     /\ url' = to
                     /\ attempt' = 0
                     /\ hops' = Followed
                     /\ pc' = "send"
                     /\ UNCHANGED result
                ELSE Over("error") /\ UNCHANGED <<method, url, attempt, hops>>
  /\ Hear
  /\ UNCHANGED <<wire, applied, sends>>

\* The portal processes an attempt of the POST, whoever still waits for it.
Process ==
  /\ \E a \in wire : wire' = wire \ {a} /\ applied' = applied \cup {a}
  /\ UNCHANGED <<pc, method, url, attempt, hops, result, sends, cookie>>

Lose ==
  /\ \E a \in wire : wire' = wire \ {a}
  /\ UNCHANGED <<pc, method, url, attempt, hops, result, applied, sends, cookie>>

\* The caller has its result.  The next exchange starts on a quiet network: a
\* bound, since one exchange is what is modelled.
Rest ==
  /\ pc = "over"
  /\ wire = {}
  /\ pc' = "idle"
  /\ method' = "GET"
  /\ url' = Base
  /\ attempt' = 0
  /\ hops' = 0
  /\ result' = "none"
  /\ applied' = {}
  /\ sends' = 0
  /\ UNCHANGED <<wire, cookie>>

\* The session is saved, and the next process takes its cookie for the portal's.
Reload ==
  /\ pc = "idle"
  /\ jar' = noted
  /\ apart' = FALSE
  /\ UNCHANGED <<pc, method, url, attempt, hops, result, wire, applied, sends, noted>>

ClientStep == Send \/ NoAnswer \/ Busy \/ Broken \/ Receive \/ Redirect

Next == Start \/ ClientStep \/ Process \/ Lose \/ Rest \/ Reload

\* reqwest's timeout ends every wait.
Spec == Init /\ [][Next]_vars /\ WF_vars(ClientStep)

-----------------------------------------------------------------------------
\* What the counters and the request say of where the exchange is.
Placed ==
  /\ method = "POST" => hops = 0 /\ (url = Base \/ pc = "over")
  /\ Secure(url) \/ pc = "over"
  /\ pc = "send" => attempt < MaxAttempts
  /\ pc = "idle" => hops = 0 /\ attempt = 0
  /\ sends <= hops * MaxAttempts + attempt

\* No request leaves https once the exchange is on it, and none goes in the clear
\* to another machine: not by a link, a form action or any chain of redirects
\* (require_secure_portal_url and require_secure_hop, client.rs).
NeverInTheClear ==
  [][pc' = "send" =>
       Secure(url') /\ (pc = "wait" /\ url.scheme = "https" => url'.scheme = "https")]_vars

\* A form, which holds the password or account numbers, goes to the portal's own
\* origin, whatever the page or a redirect says (post_form).
FormsGoHome == pc \in {"send", "wait"} /\ method = "POST" => url = Base /\ hops = 0

\* The caller waits for a bounded number of requests however the portal answers:
\* each redirect starts a new round of attempts (get, post_form, send_retrying).
SendsAreBounded == sends <= MostSends

\* An exchange always ends with a result for its caller.
ExchangesEnd == pc = "send" ~> pc = "over"

\* The cookie that a saved session holds is the one this process sends the portal,
\* through every chain of redirects and retries, unless the last answer to set it
\* was another host's or one that was retried (record_cookies, snapshot_cookies).
SavedIsSent == ~apart => noted = jar \/ (jar = "none" /\ noted = "blank")

-----------------------------------------------------------------------------
(* A statement of the source that the code does not keep.                  *)

\* "no or incomplete response (connect failure, timeout, reset), so a retry can't
\* double-process a request" (is_transient_error, client.rs): the portal processes a
\* form of one exchange at most once.
ProcessedOnce == \A a, b \in applied : a = b
=============================================================================
