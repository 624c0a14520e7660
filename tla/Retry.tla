------------------------------- MODULE Retry -------------------------------
(***************************************************************************)
(* The retry middleware (pkg/middleware/retry.go), one request at a time:  *)
(* Retry keeps nothing but its configuration.  The request's context may   *)
(* be cancelled at any moment; an attempt ends with a response, an error,  *)
(* or both (a middleware below may return both).  Of a response Retry      *)
(* tells apart whether its status is retryable, and Retry-After.           *)
(***************************************************************************)
EXTENDS Integers, Sequences, FiniteSets

CONSTANTS
    MaxRetries, InitialBackoff, MaxBackoff, Multiplier,
    JitterPercent,   \* JitterFactor
    Second, Half,    \* time.Second, and 2^63: a time.Duration is in -Half..(Half - 1)
    RetryAfters,     \* values of the header: [form, n]
    NoHeader, NoResponse

RetryAssumption ==
    /\ {MaxRetries, InitialBackoff, MaxBackoff, Multiplier, Second} \subseteq Nat \ {0}
    /\ JitterPercent \in 0..99 /\ Half \in Nat \ {0}
    /\ RetryAfters \subseteq [form : {"seconds", "date", "other"}, n : Int]
    /\ NoHeader \notin RetryAfters

VARIABLES
    tpc,        \* "call", "sleep" or "done"
    attempt,
    delay,
    cancelled,  \* ctx.Done is closed
    result,     \* what ProcessRequest returned
    log         \* history: the attempts, and the time waited before each

vars == <<tpc, attempt, delay, cancelled, result, log>>

Responses == [retryable : BOOLEAN, header : RetryAfters \cup {NoHeader}]
Outcomes == [resp : Responses, err : BOOLEAN] \cup [resp : {NoResponse}, err : {TRUE}]

\* Of the log only the last attempt is used by the code: lastResp, lastErr.
Latest == log[Len(log)]

TypeOK ==
    /\ tpc \in {"call", "sleep", "done"} /\ attempt \in 0..MaxRetries
    /\ delay \in Int /\ cancelled \in BOOLEAN
    /\ result \in [resp : Responses \cup {NoResponse}, err : {"nil", "last", "ctx"}]
    /\ \A i \in DOMAIN log : log[i] \in [out : Outcomes, waited : Int]

Init ==
    /\ tpc = "call" /\ attempt = 0 /\ delay = 0 /\ cancelled = FALSE
    /\ result = [resp |-> NoResponse, err |-> "nil"]
    /\ log = <<>>

-----------------------------------------------------------------------------
(* calculateDelay *)

\* Two's complement: time.Duration(seconds) * time.Second wraps around.
Wrap(n) == ((n + Half) % (2 * Half)) - Half

parseRetryAfter(v) ==
    CASE v.form = "seconds" -> Wrap(v.n * Second)
      [] v.form = "date"    -> IF v.n > 0 THEN v.n ELSE 0
      [] OTHER              -> 0

\* math.Pow(Multiplier, k)
Power ==
    LET pow[k \in 0..MaxRetries] == IF k = 0 THEN 1 ELSE Multiplier * pow[k - 1]
    IN  pow

Capped(b) == IF b > MaxBackoff THEN MaxBackoff ELSE b

Backoff(n) == Capped(InitialBackoff * Power[n - 1])

\* The delays that calculateDelay may compute: jitter is added after the cap.
calculateDelay(n, resp) ==
    LET b == Backoff(n)
        j == (b * JitterPercent) \div 100
    IN  IF /\ resp # NoResponse /\ resp.header # NoHeader
           /\ parseRetryAfter(resp.header) > 0
        THEN {parseRetryAfter(resp.header)}
        ELSE (b - j)..(b + j)

-----------------------------------------------------------------------------
(* ProcessRequest *)

Returns(resp, err) == tpc' = "done" /\ result' = [resp |-> resp, err |-> err]

\* Fault: an error that comes with a response is taken for a success.
SucceededByStatus(out) == out.resp # NoResponse /\ ~out.resp.retryable

Succeeded(out) == ~out.err /\ ~out.resp.retryable

\* next returns: a success, the last failure, or a delay before the next try.
Attempt(out) ==
    /\ tpc = "call"
    /\ log' = Append(log, [out |-> out, waited |-> delay])
    /\ \/ /\ Succeeded(out)
          /\ Returns(out.resp, "nil") /\ UNCHANGED <<attempt, delay>>
       \/ /\ ~Succeeded(out) /\ attempt = MaxRetries
          /\ Returns(out.resp, IF out.err THEN "last" ELSE "nil")
          /\ UNCHANGED <<attempt, delay>>
       \/ /\ ~Succeeded(out) /\ attempt < MaxRetries
          /\ attempt' = attempt + 1 /\ tpc' = "sleep"
          /\ delay' \in calculateDelay(attempt + 1, out.resp)
          /\ UNCHANGED result
    /\ UNCHANGED cancelled

\* sleep: the timer, or the context; if both are ready either may be taken,
\* and no time to wait means that the context is not looked at.
Wake == tpc = "sleep" /\ tpc' = "call" /\ UNCHANGED <<attempt, delay, cancelled, result, log>>

SleepCancelled ==
    /\ tpc = "sleep" /\ cancelled /\ delay > 0
    /\ Returns(Latest.out.resp, "ctx")
    /\ UNCHANGED <<attempt, delay, cancelled, log>>

Cancel ==
    /\ tpc # "done" /\ ~cancelled /\ cancelled' = TRUE
    /\ UNCHANGED <<tpc, attempt, delay, result, log>>

Next == (\E out \in Outcomes : Attempt(out)) \/ Wake \/ SleepCancelled \/ Cancel

Spec == Init /\ [][Next]_vars

-----------------------------------------------------------------------------
(* Properties *)

\* The wait that Retry-After asked for, if it fits a time.Duration.
Asked(resp) ==
    IF resp = NoResponse \/ resp.header = NoHeader THEN 0
    ELSE IF resp.header.form = "seconds" THEN resp.header.n * Second
    ELSE IF resp.header.form = "date" THEN resp.header.n ELSE 0

\* Between two attempts there is the wait the last response asked for, of
\* whatever length below the overflow, or else one within the backoff's
\* bounds: a Retry-After of an earlier response is never used again.
WaitsAsAsked ==
    \A i \in 2..Len(log) :
        LET asked == Asked(log[i - 1].out.resp) IN
        /\ asked \in 1..(Half - 1) => log[i].waited = asked
        /\ asked \in (-Half)..0 =>
              /\ log[i].waited * 100 >= Capped(InitialBackoff) * (100 - JitterPercent)
              /\ log[i].waited * 100 <= MaxBackoff * (100 + JitterPercent)

\* What is returned is the last attempt's: a success ends the attempts, and
\* only MaxRetries retries or a cancelled context end them with a failure.
ReturnsLast ==
    /\ Len(log) <= MaxRetries + 1
    /\ \A i \in 1..(Len(log) - 1) : ~Succeeded(log[i].out)
    /\ tpc = "done" =>
           /\ result.resp = Latest.out.resp
           /\ result.err = "nil" => ~Latest.out.err
           /\ Succeeded(Latest.out) \/ result.err = "ctx" \/ Len(log) = MaxRetries + 1
           /\ result.err = "ctx" => cancelled

\* Retries wait as they were asked to and return the last attempt's result.
RetryInv == TypeOK /\ WaitsAsAsked /\ ReturnsLast

=============================================================================
