---------------------------- MODULE FetchGateway ----------------------------
(***************************************************************************)
(* Fetching a subscription: the fetcher of the browser, the fetcher of the *)
(* Runtime Service with its redirects and its retries under other user     *)
(* agents, the limits of the service that stand before it, and the client  *)
(* of the service in the browser, which waits with a deadline of its own.  *)
(*                                                                         *)
(* Time is a number of ticks.  A timer fires when its time is up, before   *)
(* the next tick; an answer may come in the same tick as the timer, before *)
(* or after it.  Messages between the browser and the service take no      *)
(* time, and the servers of the subscriptions take any time, or forever.   *)
(*                                                                         *)
(* Not modelled: what makes an address public, a token that has to be      *)
(* renewed (401), requests that the service refuses before it begins, and  *)
(* the end of the process.                                                 *)
(***************************************************************************)
EXTENDS Naturals, FiniteSets, Sequences

CONSTANTS
    Calls,          \* fetches that may be under way
    Timeout,        \* deadline of a fetcher (12 s)
    Patience,       \* deadline of the service's client (15 s)
    Window,         \* width of the rate limiter's window (60 s)
    MaxPerWindow,   \* requests it allows in a window
    MaxConcurrent,  \* refreshes of clients under way in the service
    MaxRedirects,
    Agents,         \* user agents that profile "auto" tries
    MaxBytes,       \* largest body
    None            \* no text

ASSUME TimeAssumption ==
    {Timeout, Patience, Window, MaxPerWindow, MaxConcurrent, Agents} \subseteq Nat \ {0}

ASSUME SizeAssumption == {MaxRedirects, MaxBytes} \subseteq Nat /\ None \notin Nat

VARIABLES
    call,        \* per call, how far the fetch is
    client,      \* per call, the client of the service that waits for it
    concurrent,  \* withConcurrency()
    window,      \* RateLimiter: age of the window and requests in it
    recent       \* history: ages of the requests allowed, oldest first

vars == <<call, client, concurrent, window, recent>>

(* A request to the service ("gateway"), a run of its scheduler, or a      *)
(* fetch of the browser itself.                                            *)
Kinds == {"gateway", "schedule", "browser"}

Fetching == {"resolve", "request", "body"}
Phases == {"json"} \cup Fetching
Outcomes == {"none", "text"}

(* agent: which user agent is tried; hop: redirects followed; left: time   *)
(* up to the deadline; age: history, time since the fetch began; wire,     *)
(* size: what has been received of the body, as sent and decoded.          *)
At(pc, kind) ==
    [pc |-> pc, kind |-> kind, agent |-> 1, hop |-> 0, left |-> 0, age |-> 0,
     packed |-> FALSE, wire |-> 0, size |-> 0]

(* A fetch that has failed leaves nothing: the code of its error, which is *)
(* shown to the user, is left out.  Nor is the text of the browser's own   *)
(* fetcher kept, which measures the bytes it has read and not the text.    *)
NoCall == At("none", "browser")

Ended(kind, size) ==
    IF size = None \/ kind = "browser" THEN NoCall
    ELSE [At("text", kind) EXCEPT !.size = size]

Away == [waiting |-> FALSE, patience |-> 0, slow |-> 0]

Init ==
    /\ call = [c \in Calls |-> NoCall]
    /\ client = [c \in Calls |-> Away]
    /\ concurrent = 0
    /\ window = [age |-> Window, count |-> 0]
    /\ recent = <<>>

Free(c) == call[c].pc \in Outcomes /\ ~client[c].waiting

-----------------------------------------------------------------------------
(* The service: handleRequest(), withConcurrency(), RateLimiter.           *)

(* Mutant of Counted: a new window does not count the request it is opened *)
(* for.                                                                    *)
CountedLate ==
    IF window.age >= Window THEN [age |-> 0, count |-> 0]
    ELSE [window EXCEPT !.count = @ + 1]

(* allow() *)
Counted ==
    IF window.age >= Window THEN [age |-> 0, count |-> 1]
    ELSE [window EXCEPT !.count = @ + 1]

Allowed == window.age >= Window \/ window.count < MaxPerWindow

Allow == window' = Counted /\ recent' = Append(recent, 0)

(* Mutant of Finish: an error leaves the task without giving back the slot.*)
FinishOnSuccess(c, size) ==
    /\ call' = [call EXCEPT ![c] = Ended(@.kind, size)]
    /\ client' = [client EXCEPT ![c] = Away]
    /\ concurrent' = IF call[c].kind = "gateway" /\ size # None
                     THEN concurrent - 1 ELSE concurrent
    /\ UNCHANGED <<window, recent>>

(* The fetch ends; the request is answered, if its client still waits.     *)
Finish(c, size) ==
    /\ call' = [call EXCEPT ![c] = Ended(@.kind, size)]
    /\ client' = [client EXCEPT ![c] = Away]
    /\ concurrent' = IF call[c].kind = "gateway" THEN concurrent - 1 ELSE concurrent
    /\ UNCHANGED <<window, recent>>

Fail(c) == Finish(c, None)

Stay == UNCHANGED <<client, concurrent, window, recent>>

(* ServerRuntimeProvider.fetch() begins to wait, and the service begins,   *)
(* or refuses with 429.                                                    *)
Ask(c) ==
    /\ Free(c)
    /\ IF Allowed /\ concurrent < MaxConcurrent
       THEN /\ call' = [call EXCEPT ![c] = At("json", "gateway")]
            /\ client' = [client EXCEPT ![c] = [waiting |-> TRUE, patience |-> Patience, slow |-> 0]]
            /\ concurrent' = concurrent + 1
       ELSE /\ call' = [call EXCEPT ![c] = NoCall]
            /\ UNCHANGED <<client, concurrent>>
    /\ IF Allowed THEN Allow ELSE UNCHANGED <<window, recent>>

(* Any other request with a token. *)
AskOther == Allowed /\ Allow /\ UNCHANGED <<call, client, concurrent>>

Begun(kind) ==
    [At(IF kind = "browser" THEN "request" ELSE "resolve", kind) EXCEPT !.left = Timeout]

(* The body of the request arrives, and the refresh begins; or it does not *)
(* parse, is too long, or its connection breaks.                           *)
ReadJson(c) ==
    /\ call[c].pc = "json" /\ client[c].waiting
    /\ call' = [call EXCEPT ![c] = Begun("gateway")]
    /\ Stay

(* The same error, whichever it is: it leaves withConcurrency().           *)
LoseJson(c) == call[c].pc = "json" /\ Fail(c)

(* The scheduler, whose refreshes take no slot, and the browser's fetcher. *)
Start(c, kind) ==
    /\ kind # "gateway" /\ Free(c)
    /\ call' = [call EXCEPT ![c] = Begun(kind)]
    /\ Stay

-----------------------------------------------------------------------------
(* The fetchers: sourceFetcher.ts of the service and of the browser.       *)

Goto(c, record) == call' = [call EXCEPT ![c] = record] /\ Stay

(* withinDeadline() and remainingTime(): no step begins when time is up.   *)
Unless(c, next) == IF call[c].left = 0 THEN Fail(c) ELSE next

Resolve(c) ==
    /\ call[c].pc = "resolve"
    /\ \/ Unless(c, Goto(c, [call[c] EXCEPT !.pc = "request"]))
       \/ Fail(c)    \* not resolved, not a URL or not public

Respond(c) == call[c].pc = "request"

(* A connection error, any other status, an unknown encoding, or a         *)
(* redirect without a target.                                              *)
Refused(c) == Respond(c) /\ Fail(c)

(* Mutant of Redirected: every hop gets the whole time.                    *)
RedirectedAnew(c) ==
    /\ Respond(c) /\ call[c].kind # "browser"
    /\ IF call[c].hop = MaxRedirects THEN Fail(c)
       ELSE Goto(c, [call[c] EXCEPT !.pc = "resolve", !.hop = @ + 1, !.left = Timeout])

(* 3xx with a location.  The browser follows redirects by itself.          *)
Redirected(c) ==
    /\ Respond(c) /\ call[c].kind # "browser"
    /\ IF call[c].hop = MaxRedirects THEN Fail(c)
       ELSE Unless(c, Goto(c, [call[c] EXCEPT !.pc = "resolve", !.hop = @ + 1]))

(* 403 or 406: the next user agent starts from the original URL.           *)
Rejected(c) ==
    /\ Respond(c) /\ call[c].kind # "browser"
    /\ IF call[c].agent = Agents THEN Fail(c)
       ELSE Unless(c, Goto(c, [call[c] EXCEPT !.pc = "resolve", !.hop = 0, !.agent = @ + 1]))

(* 2xx: the body follows, compressed or not; the browser decodes on its    *)
(* own, before its fetcher sees the body.                                  *)
Accepted(c) ==
    /\ Respond(c)
    /\ \E packed \in BOOLEAN :
          /\ packed => call[c].kind # "browser"
          /\ Goto(c, [call[c] EXCEPT !.pc = "body", !.packed = packed])

(* Content-Length, which only the browser looks at. *)
Declared(c) == Respond(c) /\ call[c].kind = "browser" /\ Fail(c)

(* Mutant of Overflow: the decoded bytes are not counted.                  *)
OverflowOnWire(kind, wire, size) == wire > MaxBytes

(* The limits of the stream: before and after it is decoded.               *)
Overflow(kind, wire, size) ==
    \/ size > MaxBytes
    \/ kind # "browser" /\ wire > MaxBytes

(* One more piece of the body. *)
Chunk(c) ==
    /\ call[c].pc = "body"
    /\ \E n \in IF call[c].packed THEN 0 .. 2 ELSE {1} :
          LET wire == call[c].wire + 1
              size == call[c].size + n
          IN IF Overflow(call[c].kind, wire, size)
             THEN Fail(c)
             ELSE Goto(c, [call[c] EXCEPT !.wire = wire, !.size = size])

(* The end of the body.  Bytes that are no UTF-8 become three bytes each;  *)
(* the service measures the text again, the browser does not.              *)
Complete(c) ==
    /\ call[c].pc = "body"
    /\ \E text \in {call[c].size, 3 * call[c].size} :
          IF text > MaxBytes /\ call[c].kind # "browser"
          THEN Fail(c)
          ELSE Finish(c, text)

(* The body cannot be decoded, or the connection breaks. *)
Broken(c) == call[c].pc = "body" /\ Fail(c)

(* Mutant of TimeUp: the timer is cleared when the headers have arrived.   *)
TimeUpToHeaders(c) ==
    /\ call[c].pc \in {"resolve", "request"} /\ call[c].left = 0
    /\ Fail(c)

(* The timer of withinDeadline(), requestOnce() or the browser's fetch().  *)
TimeUp(c) ==
    /\ call[c].pc \in Fetching /\ call[c].left = 0
    /\ Fail(c)

(* The coordinator aborts the refresh. *)
Supersede(c) == call[c].pc \in Fetching /\ Fail(c)

-----------------------------------------------------------------------------
(* The client of the service: serverRuntimeProvider.ts.  The service is    *)
(* not told that nobody waits any more.                                    *)

GiveUp(c) ==
    /\ client[c].waiting /\ client[c].patience = 0
    /\ client' = [client EXCEPT ![c] = Away]
    /\ UNCHANGED <<call, concurrent, window, recent>>

Withdraw(c) ==
    /\ client[c].waiting
    /\ client' = [client EXCEPT ![c] = Away]
    /\ UNCHANGED <<call, concurrent, window, recent>>

-----------------------------------------------------------------------------
(* Time passes when no timer is due. *)

Due(c) ==
    \/ call[c].pc \in Fetching /\ call[c].left = 0
    \/ client[c].waiting /\ client[c].patience = 0

Later(r) == IF r.pc \in Fetching THEN [r EXCEPT !.left = @ - 1, !.age = @ + 1] ELSE r

(* The history one unit later: what is as old as a window is forgotten.    *)
Aged(ages) ==
    LET old == CHOOSE k \in 0 .. Len(ages) :
                  \A i \in 1 .. Len(ages) : ages[i] + 1 >= Window <=> i <= k
    IN  [i \in 1 .. Len(ages) - old |-> ages[i + old] + 1]

Tick ==
    /\ \A c \in Calls : ~Due(c)
    /\ call' = [c \in Calls |-> Later(call[c])]
    /\ client' = [c \in Calls |->
          IF client[c].waiting
          THEN [client[c] EXCEPT !.patience = @ - 1,
                                 !.slow = IF call[c].pc = "json" THEN @ + 1 ELSE @]
          ELSE Away]
    /\ window' = [window EXCEPT !.age = IF @ < Window THEN @ + 1 ELSE @]
    /\ recent' = Aged(recent)
    /\ UNCHANGED concurrent

Fetch(c) ==
    \/ Resolve(c) \/ Refused(c) \/ Redirected(c) \/ Rejected(c) \/ Accepted(c)
    \/ Declared(c) \/ Chunk(c) \/ Complete(c) \/ Broken(c)

Next ==
    \/ \E c \in Calls :
          \/ Ask(c) \/ ReadJson(c) \/ LoseJson(c)
          \/ \E kind \in {"schedule", "browser"} : Start(c, kind)
          \/ Fetch(c) \/ TimeUp(c) \/ Supersede(c)
          \/ GiveUp(c) \/ Withdraw(c)
    \/ AskOther
    \/ Tick

Spec == Init /\ [][Next]_vars

(* Timers fire and time passes; the connection of a client delivers the    *)
(* short body of its request or breaks, as the server of Node ends a       *)
(* request that does not arrive.  Nothing is assumed of the servers of     *)
(* subscriptions.                                                          *)
Fairness ==
    /\ WF_vars(Tick)
    /\ \A c \in Calls :
          /\ WF_vars(TimeUp(c)) /\ WF_vars(GiveUp(c))
          /\ WF_vars(ReadJson(c) \/ LoseJson(c))

FairSpec == Spec /\ Fairness

-----------------------------------------------------------------------------
(* What must hold.                                                         *)

TypeOK ==
    /\ call \in [Calls -> [pc : Phases \cup Outcomes, kind : Kinds, agent : 1 .. Agents,
                           hop : 0 .. MaxRedirects, left : 0 .. Timeout, age : Nat,
                           packed : BOOLEAN, wire : Nat, size : Nat]]
    /\ client \in [Calls -> [waiting : BOOLEAN, patience : 0 .. Patience, slow : 0 .. Patience]]
    /\ concurrent \in 0 .. MaxConcurrent
    /\ window \in [age : 0 .. Window, count : 0 .. MaxPerWindow]
    /\ recent \in Seq(0 .. Window - 1)

(* "All fallback attempts share the original overall deadline"             *)
(* (docs/runtime-service.md:180): no fetch, with all its redirects and     *)
(* user agents, look-ups and bodies that never end, outlives Timeout.      *)
OneDeadline == \A c \in Calls : call[c].pc \in Fetching => call[c].age <= Timeout

(* What the service and the browser hold of a body stays within MaxBytes,  *)
(* however well it is compressed, and so does the text the service hands   *)
(* on, however it is encoded.                                              *)
BodyWithinLimit ==
    \A c \in Calls :
        /\ call[c].pc = "body" => call[c].size <= MaxBytes
        /\ call[c].pc = "text" /\ call[c].kind # "browser" => call[c].size <= MaxBytes

(* The counter of withConcurrency() is the number of requests in progress, *)
(* on whatever way each of them ends, and never more than allowed.         *)
NoSlotIsLost ==
    /\ concurrent = Cardinality({c \in Calls : call[c].kind = "gateway" /\ call[c].pc \in Phases})
    /\ concurrent <= MaxConcurrent

(* The windows of the limiter are fixed, so that around a boundary more    *)
(* than MaxPerWindow requests pass in the time of one window, but always   *)
(* fewer than twice as many, as a window opens with a request.             *)
RateIsBounded == Len(recent) < 2 * MaxPerWindow

(* The client of the service never gives up on a fetch before the service  *)
(* has reported its own time-out: 15 s are enough for the 12 s of the      *)
(* fetch, unless sending the request took the difference.                  *)
ServiceAnswersFirst ==
    [][\A c \in Calls :
         GiveUp(c) /\ call[c].pc \in Fetching
            => client[c].slow >= Patience - Timeout]_vars

(* Every fetch ends, and every slot is given back, although the servers of *)
(* the subscriptions may never answer.                                     *)
EveryRequestIsAnswered ==
    \A c \in Calls : call[c].pc \in Phases ~> call[c].pc \in Outcomes
=============================================================================
