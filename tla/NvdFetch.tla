------------------------------ MODULE NvdFetch ------------------------------
(***************************************************************************)
(* The HTTP client of the feeds, src/net/nvd_fetch.c: one call after the   *)
(* other of cytadel_nvd_fetch_page (NVD, with the API key) and             *)
(* cytadel_nvd_fetch_get (KEV and EPSS, without), its attempts, its write  *)
(* callback and its retries.  libcurl and the server are external: any     *)
(* answer, in any pieces, can come back or the transfer can break.         *)
(*                                                                         *)
(* Times are in milliseconds of a clock with Second of them to a second;   *)
(* what the buffer holds is the set of requests its bytes came from.       *)
(***************************************************************************)
EXTENDS Integers, FiniteSetsExt

CONSTANTS
  MaxRetries,      \* max_retries
  BackoffInitial,  \* backoff_initial_ms
  BackoffMax,      \* backoff_max_ms
  RetryAfterMax,   \* retry_after_max_sec
  HardCap,         \* max_response_bytes
  FirstAlloc,      \* size of the buffer's first allocation, 8192
  Second,          \* milliseconds of a second, 1000
  Chunk,           \* bound: sizes of the pieces curl delivers
  RetryAfter       \* bound: values of a Retry-After header, in seconds

ASSUME FetchAssumption ==
  /\ MaxRetries \in Nat /\ HardCap \in Nat /\ FirstAlloc \in Nat \ {0}
  /\ BackoffInitial \in Nat /\ BackoffMax \in Nat /\ RetryAfterMax \in Nat
  /\ Second \in Nat \ {0}
  /\ Chunk \subseteq Nat /\ RetryAfter \subseteq Nat

Key       == {"unset", "plausible", "too_long"}
Feed      == {"nvd", "kev", "epss"}
Header    == {"none", "key", "no_memory"}
Retryable == {"retry_429", "retry_5xx", "retry_transport"}
Attempt   == Retryable \cup {"none", "ok", "auth", "http", "transport"}
Status    == {"none", "ok", "invalid_arg", "rate_limited", "server", "transport", "auth", "http"}

VARIABLES
  pc,        \* where the call is
  key,       \* CYTADEL_NVD_API_KEY in the environment
  feed,      \* the feed whose server is called
  https,     \* the URL is an https:// one
  attach,    \* attach_api_key
  header,    \* headers, of the attempt under way
  attempt,   \* attempt, in fetch_retry_loop
  len,       \* ctx.len
  alloc,     \* ctx.alloc_cap
  from,      \* the requests whose bytes the buffer holds
  last,      \* attempt_result_t of the last attempt
  hint,      \* retry_after_sec
  delay,     \* delay_ms
  status,    \* what the call returned
  \* history, for the properties only
  requests,  \* requests of this call
  slept      \* time this call has slept

buffer == <<len, alloc, from>>
call   == <<key, feed, https, attach>>
vars   == <<pc, call, header, attempt, buffer, last, hint, delay, status, requests, slept>>

TypeOK ==
  /\ pc \in {"idle", "attempt", "ready", "body", "failed", "sleep", "done"}
  /\ key \in Key /\ feed \in Feed /\ https \in BOOLEAN /\ attach \in BOOLEAN
  /\ header \in Header
  /\ attempt \in 0..(MaxRetries + 1)
  /\ len \in 0..HardCap /\ alloc \in 0..(HardCap + 1) /\ from \subseteq 1..(MaxRetries + 1)
  /\ last \in Attempt /\ hint \in RetryAfter \cup {0} /\ delay \in Nat
  /\ status \in Status
  /\ requests \in 0..(MaxRetries + 1) /\ slept \in Nat

Init ==
  /\ pc = "idle"
  /\ key \in Key /\ feed = "nvd" /\ https = TRUE /\ attach = TRUE /\ header = "none"
  /\ attempt = 0
  /\ len = 0 /\ alloc = 0 /\ from = {}
  /\ last = "none" /\ hint = 0 /\ delay = 0
  /\ status = "none"
  /\ requests = 0 /\ slept = 0

Return(s) == pc' = "done" /\ status' = s

----------------------------------------------------------------------------
(* cytadel_nvd_fetch_page and cytadel_nvd_fetch_get, up to the loop.       *)

Start(f, secure, attachKey) ==
  /\ pc = "idle"
  /\ feed' = f /\ https' = secure /\ attach' = attachKey
  /\ pc' = "attempt"
  /\ UNCHANGED <<key, header, attempt, buffer, last, hint, delay, status, requests, slept>>

(* Only NVD's pages are fetched with the key.                              *)
FetchPage(secure) == Start("nvd", secure, TRUE)

(* Mutant: the GET of the other feeds is made like that of a page.         *)
FetchGetLikePage(f, secure) == Start(f, secure, TRUE)

FetchGet(f, secure) == Start(f, secure, FALSE)

(* A NULL or negative argument, one of two dates, or no room for the URL   *)
(* ("invalid_arg"); no handle to escape the dates with ("transport").      *)
CallFails(s) ==
  /\ pc = "idle"
  /\ Return(s)
  /\ UNCHANGED <<call, header, attempt, buffer, last, hint, delay, requests, slept>>

----------------------------------------------------------------------------
(* do_one_attempt.                                                         *)

(* append_api_key_header: only over https, never truncated.                *)
SendsKey == key = "plausible" /\ https

(* Mutant: the write context outlives the attempt.                         *)
KeepContext == UNCHANGED buffer

(* Every attempt starts with a write context of its own.                   *)
FreshContext == len' = 0 /\ alloc' = 0 /\ from' = {}

(* curl_easy_init failed.  Not retried.                                    *)
NoHandle ==
  /\ pc = "attempt"
  /\ last' = "transport"
  /\ Return("transport")
  /\ UNCHANGED <<call, header, attempt, buffer, hint, delay, requests, slept>>

(* The headers of this attempt: without memory it goes out without the key. *)
Prepare ==
  /\ pc = "attempt"
  /\ FreshContext
  /\ header' \in IF attach /\ SendsKey THEN {"key", "no_memory"} ELSE {"none"}
  /\ hint' = 0
  /\ pc' = "ready"
  /\ UNCHANGED <<call, attempt, last, delay, status, requests, slept>>

(* The end of an attempt: the headers are freed.                           *)
Ends(r) == last' = r /\ header' = "none"

(* One of the protective options failed.  Not retried.                     *)
Refused ==
  /\ pc = "ready"
  /\ Ends("transport")
  /\ Return("transport")
  /\ UNCHANGED <<call, attempt, buffer, hint, delay, requests, slept>>

(* curl_easy_perform: the request goes out with these headers.             *)
Request ==
  /\ pc = "ready"
  /\ requests' = requests + 1
  /\ pc' = "body"
  /\ UNCHANGED <<call, header, attempt, buffer, last, hint, delay, status, slept>>

(* The cap on the body, tested before the piece is copied.                 *)
TooLong(n) == n > HardCap - len

(* What k doublings multiply the allocation by.                            *)
Doublings[k \in Nat] == IF k = 0 THEN 1 ELSE 2 * Doublings[k - 1]

(* The buffer doubles until the bytes and a NUL fit, up to the cap.        *)
Grown(need) ==
  LET base == IF alloc = 0 THEN FirstAlloc ELSE alloc
      size == Min({b \in {base * Doublings[k] : k \in 0..need} : b >= need})
  IN  Min({size, HardCap + 1})

(* fetch_write_cb.                                                         *)
WriteChunk(n) ==
  /\ pc = "body"
  /\ n > 0 /\ ~TooLong(n)
  /\ alloc' = IF len + n + 1 > alloc THEN Grown(len + n + 1) ELSE alloc
  /\ len' = len + n
  /\ from' = from \cup {requests}
  /\ UNCHANGED <<pc, call, header, attempt, last, hint, delay, status, requests, slept>>

(* It gives up: the body is too long, or there is no memory for it.        *)
WriteAborts(n) ==
  /\ pc = "body"
  /\ n > 0
  /\ TooLong(n) \/ len + n + 1 > alloc
  /\ Ends("transport")
  /\ Return("transport")
  /\ FreshContext
  /\ UNCHANGED <<call, attempt, hint, delay, requests, slept>>

(* Any other failure of the transfer, a timeout among them.                *)
TransferFails ==
  /\ pc = "body"
  /\ Ends("retry_transport")
  /\ pc' = "failed"
  /\ FreshContext
  /\ UNCHANGED <<call, attempt, hint, delay, status, requests, slept>>

(* 200: the buffer is handed over.                                         *)
AnswerOk ==
  /\ pc = "body"
  /\ Ends("ok")
  /\ Return("ok")
  /\ UNCHANGED <<call, attempt, buffer, hint, delay, requests, slept>>

(* 429, with or without a Retry-After that is a number.                    *)
Answer429(sec) ==
  /\ pc = "body"
  /\ Ends("retry_429")
  /\ hint' = sec
  /\ pc' = "failed"
  /\ FreshContext
  /\ UNCHANGED <<call, attempt, delay, status, requests, slept>>

Answer5xx ==
  /\ pc = "body"
  /\ Ends("retry_5xx")
  /\ pc' = "failed"
  /\ FreshContext
  /\ UNCHANGED <<call, attempt, hint, delay, status, requests, slept>>

(* 401 and 403 ("auth"), redirects and every other status ("http").        *)
AnswerRefused(r) ==
  /\ pc = "body"
  /\ Ends(r)
  /\ Return(r)
  /\ FreshContext
  /\ UNCHANGED <<call, attempt, hint, delay, requests, slept>>

----------------------------------------------------------------------------
(* fetch_retry_loop.                                                       *)

(* Every retry has been used up.                                           *)
Exhausted == attempt + 1 > MaxRetries

GiveUp ==
  /\ pc = "failed" /\ Exhausted
  /\ attempt' = attempt + 1
  /\ Return(CASE last = "retry_429" -> "rate_limited"
              [] last = "retry_5xx" -> "server"
              [] OTHER -> "transport")
  /\ UNCHANGED <<call, header, buffer, last, hint, delay, requests, slept>>

(* The delay after i rounds of the loop, without its jitter: it doubles    *)
(* until it would pass the ceiling.                                        *)
Backoff[i \in Nat] ==
  IF i = 0 THEN Min({BackoffInitial, BackoffMax})
  ELSE IF Backoff[i - 1] >= BackoffMax - Backoff[i - 1] THEN BackoffMax
  ELSE 2 * Backoff[i - 1]

(* compute_backoff_ms for the n-th retry: a quarter of the delay more or   *)
(* less, at random.                                                        *)
Jittered(n) ==
  LET span == Backoff[n - 1] \div 4
  IN  {Backoff[n - 1] + j : j \in (-span)..span}

(* Mutant: the server's hint is taken as it comes.                         *)
HonouredUncapped == hint * Second

(* Retry-After, up to retry_after_max_sec.                                 *)
Honoured == Min({hint, RetryAfterMax}) * Second

(* A retry that is left: Retry-After after a 429 that has one, otherwise   *)
(* the backoff.                                                            *)
Retry(d) ==
  /\ pc = "failed" /\ ~Exhausted
  /\ attempt' = attempt + 1
  /\ IF last = "retry_429" /\ hint > 0 THEN d = Honoured ELSE d \in Jittered(attempt + 1)
  /\ delay' = d
  /\ pc' = "sleep"
  /\ UNCHANGED <<call, header, buffer, last, hint, status, requests, slept>>

(* Mutant: a sleep that a signal interrupts starts over, again and again.  *)
SleepAgain ==
  /\ pc = "sleep"
  /\ UNCHANGED vars

Sleep ==
  /\ pc = "sleep"
  /\ slept' = slept + delay
  /\ delay' = 0
  /\ pc' = "attempt"
  /\ UNCHANGED <<call, header, attempt, buffer, last, hint, status, requests>>

----------------------------------------------------------------------------
(* The caller takes the body or the error; its next call starts anew.      *)
NextCall ==
  /\ pc = "done"
  /\ pc' = "idle"
  /\ attempt' = 0 /\ last' = "none" /\ hint' = 0 /\ status' = "none"
  /\ FreshContext
  /\ requests' = 0 /\ slept' = 0
  /\ UNCHANGED <<call, header, delay>>

(* The longest sleep between two attempts.                                 *)
MaxDelay == Max({RetryAfterMax * Second, BackoffMax + BackoffMax \div 4})

Delay == {Honoured} \cup Jittered(attempt + 1)

Fetch ==
  \/ NoHandle \/ Prepare \/ Refused \/ Request
  \/ \E n \in Chunk : WriteChunk(n) \/ WriteAborts(n)
  \/ TransferFails
  \/ AnswerOk \/ Answer5xx
  \/ \E sec \in RetryAfter \cup {0} : Answer429(sec)
  \/ \E r \in {"auth", "http"} : AnswerRefused(r)
  \/ GiveUp \/ (\E d \in Delay : Retry(d)) \/ Sleep

Next ==
  \/ \E secure \in BOOLEAN :
       FetchPage(secure) \/ (\E f \in Feed \ {"nvd"} : FetchGet(f, secure))
  \/ \E s \in {"invalid_arg", "transport"} : CallFails(s)
  \/ Fetch \/ NextCall

Spec == Init /\ [][Next]_vars

(* The process runs; CURLOPT_TIMEOUT ends every transfer, so that a server *)
(* that keeps sending pieces does not keep the call in its write callback. *)
TransferEnds == TransferFails \/ AnswerOk \/ Answer5xx
                \/ (\E sec \in RetryAfter \cup {0} : Answer429(sec))
                \/ (\E r \in {"auth", "http"} : AnswerRefused(r))

FairSpec == Spec /\ WF_vars(Fetch) /\ SF_vars(TransferEnds)

----------------------------------------------------------------------------
(* Properties.                                                             *)

(* However the server cuts the body into pieces, what is stored stays      *)
(* within the cap, and the terminating NUL within the allocation.          *)
BodyFits ==
  /\ len <= HardCap /\ alloc <= HardCap + 1
  /\ len = 0 \/ len + 1 <= alloc

(* A body that is returned is one answer: nothing in it is left over from  *)
(* an attempt that failed and was made again.                              *)
BodyIsOneAnswer == status = "ok" => from \subseteq {requests}

(* What a call returns is one whole answer in a buffer it fits into,       *)
(* through broken transfers, retries and a body that meets the cap.        *)
BodyIsSound == BodyFits /\ BodyIsOneAnswer

(* nvd_fetch.h: "a hostile Retry-After cannot stall this module beyond     *)
(* this cap", and "every retry path is bounded by max_retries".  A call    *)
(* makes at most max_retries + 1 requests and sleeps no longer than that   *)
(* many times the longest delay the configuration allows.                  *)
CallIsBounded ==
  /\ requests <= MaxRetries + 1
  /\ slept <= MaxRetries * MaxDelay

(* nvd_fetch.h and kev_sync.h: the API key is sent to NVD and over https   *)
(* only.  Whatever the environment and the configured URLs are and whoever *)
(* calls, no request to another feed and none in the clear has the key     *)
(* among its headers, the first of a call and each retry alike; a request  *)
(* that may have it goes without it only when there is no memory.          *)
KeyStaysPrivate ==
  pc = "body" =>
    /\ header = "key" => feed = "nvd" /\ https
    /\ feed = "nvd" /\ https /\ key = "plausible" => header # "none"

(* Every call returns.                                                     *)
CallReturns == pc = "attempt" ~> pc = "done"
=============================================================================
