------------------------------- MODULE Remote -------------------------------
(***************************************************************************)
(* A remote source (src/service/github.lua, src/service/weather.lua,       *)
(* src/lualib/remote.lua) and the HTTP request it makes (src/http.c).      *)
(*                                                                         *)
(* The service handles one message at a time, so a reload never runs       *)
(* inside a request; the clock and the server go on while it lasts.  Times *)
(* are relative: remaining counts the centiseconds up to the deadline,     *)
(* elapsed those since the request began, which is when refresh read the   *)
(* clock it computes with after the response.                              *)
(*                                                                         *)
(* A target is a URL with the token it is read with.  A list a server      *)
(* returns is its version; an entity tag is the version of a target's list *)
(* and says nothing about the target.  Headers are numbers or None.        *)
(***************************************************************************)
EXTENDS Integers

CONSTANTS
    Target,          \* the targets a configuration may name
    Config,          \* the configurations of the source
    Length,          \* Length[v]: entries of version v of a list
    MaxVersion,      \* bound: versions of each list
    MaxFailures,     \* bound: failures in a row
    MaxDelayMs,      \* MAX_METADATA_DELAY_MS
    CsMs,            \* milliseconds of a centisecond
    SecondMs,        \* milliseconds of a second
    MaxInteger,      \* math.maxinteger
    Seconds,         \* numbers of seconds servers put into headers
    None

ASSUME SizeAssumption ==
    /\ MaxVersion \in Nat \ {0}
    /\ Length \in [1..MaxVersion -> Nat]
    /\ MaxFailures \in Nat \ {0}
ASSUME DelayAssumption ==
    /\ MaxDelayMs \in Nat
    /\ CsMs \in Nat \ {0}
    /\ SecondMs \in Nat \ {0}
    /\ MaxInteger \in Nat
    /\ Seconds \subseteq 0..MaxInteger
ASSUME NoneAssumption == None \notin Int /\ None \notin Target

\* What validate_remote_source accepts; timeout_cs is timeout_ms in
\* centiseconds.
Valid ==
    {c \in [target : Target, max_items : Nat \ {0}, interval_ms : Nat,
            retry_min_ms : Nat, retry_max_ms : Nat, timeout_cs : Nat] :
       /\ 0 < c.interval_ms /\ c.interval_ms <= MaxDelayMs
       /\ 0 < c.retry_min_ms /\ c.retry_min_ms <= c.retry_max_ms
       /\ c.retry_max_ms <= MaxDelayMs}
ASSUME ConfigAssumption == Config \subseteq Valid

VARIABLES
    kind,              \* "github" or "weather"
    source_config,
    remaining,         \* centiseconds up to deadline
    etag, failures,
    succeeded,         \* last_success_at > 0
    requesting, elapsed,
    \* the domain of the state service, with every patch sent to it merged
    published,
    \* the servers: the version of each list, whether requests can fail
    version, outage,
    \* history: milliseconds left of what the server asked for in its last
    \* answer, counted from the beginning of that request; whether a reload
    \* or a failing wait has moved the deadline to the present meanwhile;
    \* whether the last success was a 304 that no If-None-Match had asked for
    owed, hurried, unasked

serviceVars == <<source_config, remaining, etag, failures, succeeded,
                 requesting, elapsed>>
vars == <<kind, serviceVars, published, version, outage, owed, hurried, unasked>>

Version == 1..MaxVersion
NoData == [target |-> None, version |-> None, items |-> 0]

Init ==
    /\ kind \in {"github", "weather"}
    /\ source_config \in Config
    /\ remaining = 0
    /\ etag = None
    /\ failures = 0
    /\ succeeded = FALSE
    /\ requesting = FALSE
    /\ elapsed = 0
    /\ published = [available |-> FALSE, stale |-> FALSE, failures |-> 0,
                    refresh_in_ms |-> 0, data |-> NoData]
    /\ version = [t \in Target |-> 1]
    /\ outage = TRUE
    /\ owed = 0
    /\ hurried = FALSE
    /\ unasked = FALSE

-----------------------------------------------------------------------------
(* remote.lua: the delays.  Lua integers wrap around.                      *)

Larger(a, b) == IF a >= b THEN a ELSE b
Smaller(a, b) == IF a <= b THEN a ELSE b

Wrapped(n) ==
    LET size == 2 * (MaxInteger + 1) IN
    ((n + MaxInteger + 1) % size) - MaxInteger - 1
SecondsMs(n) == Wrapped(n * SecondMs)

\* The delay in the loop of exponential_delay, after each of its turns.
LoopDelay(minimum, maximum) ==
    LET delay[k \in Nat] ==
          IF k < 2 THEN minimum
          ELSE IF delay[k - 1] >= maximum \/ delay[k - 1] > maximum \div 2
          THEN maximum
          ELSE 2 * delay[k - 1]
    IN delay

ExponentialDelayMutant(n, minimum, maximum) ==
    LET delay[k \in Nat] == IF k < 3 THEN minimum ELSE 2 * delay[k - 1]
    IN Smaller(delay[n], maximum)

\* exponential_delay: after n failures in a row.
ExponentialDelay(n, minimum, maximum) ==
    Smaller(LoopDelay(minimum, maximum)[n], maximum)

Backoff(n) ==
    ExponentialDelay(n, source_config.retry_min_ms, source_config.retry_max_ms)

FailureDelayMutant(headers, n) ==
    LET backoff == Backoff(n)
        retry   == IF headers.retry_after = None THEN backoff
                   ELSE Larger(backoff, SecondsMs(headers.retry_after))
        reset   == IF headers.reset = None \/ headers.reset <= 0 THEN retry
                   ELSE Larger(backoff, SecondsMs(headers.reset))
    IN Smaller(reset, MaxDelayMs)

\* failure_delay; reset is x_ratelimit_reset - now when
\* x_ratelimit_remaining is "0".
FailureDelay(headers, n) ==
    LET backoff == Backoff(n)
        retry   == IF headers.retry_after = None THEN backoff
                   ELSE Larger(backoff, SecondsMs(headers.retry_after))
        reset   == IF headers.reset = None \/ headers.reset <= 0 THEN retry
                   ELSE Larger(retry, SecondsMs(headers.reset))
    IN Smaller(reset, MaxDelayMs)

SuccessDelay(headers) ==
    LET interval == source_config.interval_ms IN
    Smaller(IF headers.poll_interval = None THEN interval
            ELSE Larger(interval, SecondsMs(headers.poll_interval)),
            MaxDelayMs)

NoHeaders == [retry_after |-> None, reset |-> None, poll_interval |-> None]
HeaderValue == Seconds \cup {None}
Headers == [retry_after : HeaderValue, reset : HeaderValue, poll_interval : {None}]
             \cup [retry_after : {None}, reset : {None}, poll_interval : HeaderValue]

\* What the server asked for, up to the cap of a day.
Asked(n) == IF n = None THEN 0 ELSE Smaller(n * SecondMs, MaxDelayMs)

-----------------------------------------------------------------------------
(* The service.                                                            *)

\* schedule, called with the time at which the request began.
Schedule(delay, since) ==
    remaining' = Larger(0, (delay + CsMs - 1) \div CsMs - since)

\* The server has answered and asks for a pause of ms.
Owe(ms) ==
    /\ owed' = Larger(0, ms - elapsed * CsMs)
    /\ hurried' = FALSE

\* failure_patch leaves the data and available as they are.
FailurePatchMutant(n, delay) ==
    [available |-> FALSE, stale |-> succeeded, failures |-> n,
     refresh_in_ms |-> delay, data |-> published.data]
FailurePatch(n, delay) ==
    [published EXCEPT !.stale = succeeded, !.failures = n,
                      !.refresh_in_ms = delay]

\* fail.
Fail(headers, since) ==
    LET delay == FailureDelay(headers, failures + 1) IN
    /\ failures < MaxFailures
    /\ failures' = failures + 1
    /\ Schedule(delay, since)
    /\ published' = FailurePatch(failures + 1, delay)
    /\ UNCHANGED <<etag, succeeded, unasked>>

\* fail, for a response with these headers.
FailResponse(headers) ==
    /\ Fail(headers, elapsed)
    /\ Owe(Larger(Asked(headers.retry_after), Asked(headers.reset)))

\* The end of a refresh that succeeded with this data.
Succeed(headers, data) ==
    LET delay == SuccessDelay(headers) IN
    /\ failures' = 0
    /\ succeeded' = TRUE
    /\ Schedule(delay, elapsed)
    /\ published' = [available |-> TRUE, stale |-> FALSE, failures |-> 0,
                     refresh_in_ms |-> delay, data |-> data]
    /\ Owe(Asked(headers.poll_interval))

\* The deadline has come: refresh reads the clock and calls http.request.
BeginRequest ==
    /\ ~requesting
    /\ remaining = 0
    /\ requesting' = TRUE
    /\ elapsed' = 0
    /\ UNCHANGED <<kind, source_config, remaining, etag, failures, succeeded,
                   published, version, outage, owed, hurried, unasked>>

\* request_headers of the GitHub source finds no token: no request.
TokenMissing ==
    /\ kind = "github"
    /\ outage
    /\ ~requesting
    /\ remaining = 0
    /\ Fail(NoHeaders, 0)
    /\ UNCHANGED <<kind, source_config, requesting, elapsed, version, outage,
                   owed, hurried>>

EndRequest ==
    /\ requesting
    /\ requesting' = FALSE
    /\ elapsed' = 0
    /\ UNCHANGED <<kind, source_config, version, outage>>

\* http.request returns no response, at the latest when it times out.
RequestFails ==
    /\ EndRequest
    /\ outage
    /\ Fail(NoHeaders, elapsed)
    /\ UNCHANGED <<owed, hurried>>

\* A response is refused: its status, or a body that does not parse.
ResponseRefused ==
    /\ EndRequest
    /\ outage
    /\ \E headers \in Headers : FailResponse(headers)

\* parse_github keeps the first max_items entries.
ParseGithub(t, v) ==
    [target |-> t, version |-> v,
     items |-> Smaller(Length[v], source_config.max_items)]

\* A response with a body that parses; it may come without an etag.
ResponseOk ==
    /\ EndRequest
    /\ \E headers \in Headers :
         Succeed(headers, ParseGithub(source_config.target,
                                      version[source_config.target]))
    /\ etag' \in (IF kind = "github" THEN {None, version[source_config.target]}
                  ELSE {None})
    /\ unasked' = FALSE

\* last_success_at ~= 0
HasSnapshot == succeeded

\* 304: the server has the version of If-None-Match, or answers so unasked.
\* The weather source takes 304 for a failure.
NotModified ==
    /\ kind = "github"
    /\ EndRequest
    /\ etag = version[source_config.target] \/ (etag = None /\ outage)
    /\ \E headers \in Headers :
         IF HasSnapshot
         THEN /\ Succeed(headers, published.data)
              /\ unasked' = (etag = None)
              /\ UNCHANGED etag
         ELSE FailResponse(headers)

\* The entity tag belongs to the target it came from.
KeptEtagMutant(new) == etag
KeptEtag(new) == IF new.target = source_config.target THEN etag ELSE None

\* deadline = now_centiseconds, whatever the server has asked for.
Hurry ==
    /\ remaining' = 0
    /\ hurried' = (owed > 0)

\* S.reload: the new configuration holds from now on, with the failures
\* counted under the old one; refresh at once.
Reload ==
    /\ ~requesting
    /\ \E new \in Config :
         /\ source_config' = new
         /\ etag' = IF kind = "github" THEN KeptEtag(new) ELSE etag
    /\ Hurry
    /\ UNCHANGED <<kind, failures, succeeded, requesting, elapsed, published,
                   version, outage, owed, unasked>>

\* wait_wakeup fails: do not wait.
WaitFails ==
    /\ ~requesting
    /\ remaining > 0
    /\ Hurry
    /\ UNCHANGED <<kind, source_config, etag, failures, succeeded, requesting,
                   elapsed, published, version, outage, owed, unasked>>

\* A centisecond passes.  A request does not outlast its timeout.
Tick ==
    /\ IF requesting THEN elapsed < source_config.timeout_cs ELSE remaining > 0
    /\ elapsed' = IF requesting THEN elapsed + 1 ELSE 0
    /\ remaining' = Larger(0, remaining - 1)
    /\ owed' = Larger(0, owed - CsMs)
    /\ hurried' = (hurried /\ owed > CsMs)
    /\ UNCHANGED <<kind, source_config, etag, failures, succeeded, requesting,
                   published, version, outage, unasked>>

-----------------------------------------------------------------------------
(* The servers.                                                            *)

ListChanges(t) ==
    /\ version[t] < MaxVersion
    /\ version' = [version EXCEPT ![t] = @ + 1]
    /\ UNCHANGED <<kind, serviceVars, published, outage, owed, hurried, unasked>>

\* From now on requests succeed and 304 only answers If-None-Match.
OutageEnds ==
    /\ outage
    /\ outage' = FALSE
    /\ UNCHANGED <<kind, serviceVars, published, version, owed, hurried, unasked>>

EndsRequest == RequestFails \/ ResponseRefused \/ ResponseOk \/ NotModified

Next ==
    \/ BeginRequest \/ TokenMissing \/ EndsRequest
    \/ Reload \/ WaitFails \/ Tick
    \/ \E t \in Target : ListChanges(t)
    \/ OutageEnds

Spec == Init /\ [][Next]_vars

\* Time passes, the service runs when its deadline has come and a request
\* ends.  Nothing is assumed of reloads, of servers and of outages.
Fairness == WF_vars(Tick) /\ WF_vars(BeginRequest) /\ WF_vars(EndsRequest)

FairSpec == Spec /\ Fairness

-----------------------------------------------------------------------------
(* Properties.                                                             *)

Data == [target : Target, version : Version, items : Nat] \cup {NoData}

\* Type correctness; a published delay is within its cap.
TypeOK ==
    /\ kind \in {"github", "weather"}
    /\ source_config \in Config
    /\ remaining \in Nat
    /\ etag \in Version \cup {None}
    /\ failures \in 0..MaxFailures
    /\ succeeded \in BOOLEAN
    /\ requesting \in BOOLEAN
    /\ elapsed \in Nat
    /\ published \in [available : BOOLEAN, stale : BOOLEAN,
                      failures : 0..MaxFailures, refresh_in_ms : 0..MaxDelayMs,
                      data : Data]
    /\ version \in [Target -> Version]
    /\ outage \in BOOLEAN
    /\ owed \in Nat
    /\ hurried \in BOOLEAN
    /\ unasked \in BOOLEAN

\* What the source claims with its next If-None-Match is what it shows: the
\* entity tag is that of the published list of the configured target, across
\* failures, reloads and responses without a tag.
EtagMatchesData ==
    etag # None => /\ published.data.target = source_config.target
                   /\ published.data.version = etag

\* Data that is published as fresh is what the server had for the configured
\* target when it answered, unless the server sent a 304 nobody asked for.
FreshIsCurrent ==
    [][(requesting /\ ~requesting' /\ failures' = 0 /\ ~unasked') =>
         /\ published'.data.target = source_config.target
         /\ published'.data.version = version[source_config.target]]_vars

\* README, "State and Eww data flow": "After a remote source succeeds once, a
\* later refresh failure preserves the last displayable data while setting
\* stale=true".  The domain shows data exactly from the first success on,
\* and marks it stale exactly while requests fail.
CachedDataMarked ==
    /\ published.available = succeeded
    /\ succeeded <=> published.data # NoData
    /\ published.stale <=> succeeded /\ failures > 0
    /\ published.failures = failures

\* README, "Configure and run": "GitHub additionally honors Retry-After,
\* rate-limit reset, X-Poll-Interval".  The deadline is not earlier than the
\* server's last answer allows: the latest of the three, up to a day, counted
\* from the beginning of that request.  A request that fails without an answer
\* and a missing token do not end the pause.  S.reload and a failing wait do,
\* by setting the deadline to the present (hurried), and it is not kept when
\* a header's milliseconds wrap around (the theorem excludes it).
ServerWishesKept == owed <= remaining * CsMs \/ hurried

\* 2^n as a function, to state what the backoff should be.
PowerOfTwo[n \in Nat] == IF n = 0 THEN 1 ELSE 2 * PowerOfTwo[n - 1]

\* README, "Configure and run": "Failures use exponential backoff".  Each
\* failure in a row publishes a delay of at least the doubled minimum, up to
\* the maximum, of the configuration in force, also when a reload has moved
\* the range while failures were being counted.
BackoffGrows ==
    [][failures' > failures =>
         published'.refresh_in_ms >=
           Smaller(source_config.retry_min_ms * PowerOfTwo[failures],
                   source_config.retry_max_ms)]_vars

\* Once requests can succeed the source stops failing and shows the data of
\* the target it is configured for: no backoff, header or reload keeps it
\* waiting for ever.
Recovers ==
    \A t \in Target :
      (~outage /\ source_config.target = t)
        ~> \/ source_config.target # t
           \/ unasked
           \/ published.data.target = t /\ published.available /\ ~published.stale

\* README, "Configure and run": the GitHub source "keeps at most max_items
\* projected entries".  After a refresh that succeeds under the present
\* configuration the list is no longer than its max_items.
KeepsAtMostMaxItems ==
    [][(requesting /\ ~requesting' /\ failures' = 0 /\ ~unasked') =>
         published'.data.items <= source_config.max_items]_vars
=============================================================================
