------------------------------ MODULE TlsManager ------------------------------
(***************************************************************************)
(* xferry/security/tls_manager.py, renewal.py and the issuance of tls.py:  *)
(* servers that share one ACME cache (certificate, key, renewal schedule   *)
(* and retry file) and keep the context they serve in memory.  A server    *)
(* obtains or reuses a certificate at startup and then runs one renewal    *)
(* thread, until it is stopped or killed.  The ACME service is external:   *)
(* an order ends with any candidate, or fails with or without Retry-After. *)
(*                                                                         *)
(* Times are abstract; a certificate is numbered in the order of issue.    *)
(***************************************************************************)
EXTENDS Integers, FiniteSets

CONSTANTS
  Servers,
  Lifetime, Window,      \* certificate_schedule: lifetime, and how long before expiry it is due
  BaseDelay, MaxDelay,   \* retry: 60 seconds doubled up to 3600
  RetryAfter,            \* a delay the ACME service may ask for
  MaxTime, MaxCerts, MaxStarts,   \* bounds of the model
  NoServer

ASSUME TlsAssumption ==
  NoServer \notin Servers /\ {Lifetime, Window, BaseDelay, MaxDelay, RetryAfter} \subseteq Nat

VARIABLES
  time,
  cert,       \* live/<domain>/fullchain.pem: NoCert or [n, key, end]
  key,        \* privkey.pem: 0 when missing, -1 when unusable, else its number
  schedule,   \* renewal.json: [of: certificate, due: 0 or time, ari: time, next: time]
  retry,      \* issuance-retry.json: [failures, next]
  cacheLock,  \* holder of .acme.lock
  srv,        \* the state of each server process
  issued, starts,
  promised    \* history: server -> deadline of its last failure, 0 once past or void

tlsVars == <<time, cert, key, schedule, retry, cacheLock, srv, issued, starts, promised>>
disk == <<cert, key, schedule, retry>>

NoCert == [n |-> 0, key |-> 0, end |-> 0]
NoRetry == [failures |-> 0, next |-> 0]
FreshSchedule(c) == [of |-> c.n, due |-> 0, ari |-> 0, next |-> 0]
Smaller(a, b) == IF a < b THEN a ELSE b
Greater(a, b) == IF a > b THEN a ELSE b

\* ctx: the certificate of the context; active: the one recorded as active; seen: what the
\* renewal read from the cache; got: the candidate of an order.
Down == [pc |-> "down", renewing |-> FALSE, ctx |-> NoCert, active |-> NoCert, stop |-> FALSE,
         failures |-> 0, notBefore |-> 0, seen |-> NoCert, got |-> NoCert]

\* An empty cache, a sound one, one without its key, one with an unusable key.
TlsInit ==
  /\ time = 1 /\ issued = 1 /\ starts = 0
  /\ \E c \in {NoCert, [n |-> 1, key |-> 1, end |-> 1 + Lifetime]}, k \in {0, 1, -1} :
       /\ c = NoCert => k = 0
       /\ cert = c /\ key = k
  /\ schedule = FreshSchedule(NoCert) /\ retry = NoRetry /\ cacheLock = NoServer
  /\ srv = [s \in Servers |-> Down] /\ promised = [s \in Servers |-> 0]
-----------------------------------------------------------------------------
Overlay(fields, r) == [x \in DOMAIN r |-> IF x \in DOMAIN fields THEN fields[x] ELSE r[x]]
Assign(s, fields) == srv' = [srv EXCEPT ![s] = Overlay(fields, @)]

\* The renewal thread is gone, and with it what only it reads.
Ended == [pc |-> "ended", renewing |-> FALSE, seen |-> NoCert, got |-> NoCert,
          failures |-> 0, notBefore |-> 0]

\* validate_cert_key_pair
PairValid == cert # NoCert /\ key > 0 /\ cert.key = key
Recoverable == ~PairValid /\ key # -1

\* load_schedule: another certificate resets it.
ScheduleFor(c) == IF schedule.of = c.n THEN schedule ELSE FreshSchedule(c)

\* check_cert_needs_renewal, certificate_schedule
FallbackDue(c) == c.end - Window

\* _cached_certificate_due
CacheDue ==
  LET sched == ScheduleFor(cert)
  IN  \/ cert.end <= time
      \/ /\ sched.next <= time
         /\ time >= (IF sched.due # 0 THEN Smaller(sched.due, cert.end) ELSE FallbackDue(cert))

\* _issuance_deferred: the later of the deadline in memory and the persisted one.
Deferred(s) == Greater(srv[s].notBefore, retry.next) > time

\* _retain_valid_cache
CacheUsable == PairValid /\ cert.end > time

Serve(s, c) == [pc |-> "up", renewing |-> FALSE, ctx |-> c, active |-> c, seen |-> NoCert,
                got |-> NoCert]
ServeRenewed(s, c) == [pc |-> "up", renewing |-> FALSE, ctx |-> c, active |-> c, seen |-> NoCert,
                       got |-> NoCert, failures |-> 0, notBefore |-> 0]

\* _record_renewal_failure: the delay doubles with the failures on record; either file may
\* resist, and the schedule is written only for a certificate the server uses.  The process of
\* a start that failed has ended, and only the files keep what it met.
Delay(failures) == Smaller(MaxDelay, BaseDelay * 2^(failures - 1))

Failure(s, step, asked) ==
  LET failures == Smaller(7, Greater(srv[s].failures, retry.failures) + 1)
      next == time + Greater(Delay(failures), asked)
  IN  /\ Assign(s, [pc |-> step, renewing |-> FALSE, seen |-> NoCert, got |-> NoCert,
                 failures |-> IF step = "down" THEN 0 ELSE failures,
                 notBefore |-> IF step = "down" THEN 0 ELSE next])
      /\ \/ /\ retry' = [failures |-> failures, next |-> next]
            /\ promised' = [r \in Servers |-> IF r = s THEN next ELSE 0]
         \/ UNCHANGED retry /\ promised' = [promised EXCEPT ![s] = 0]
      /\ schedule' = IF cert # NoCert /\ step = "up"
                     THEN [ScheduleFor(cert) EXCEPT !.next = next] ELSE schedule

\* _clear_issuance_retry
ClearRetry(s) == retry' = NoRetry /\ promised' = [r \in Servers |-> 0]
-----------------------------------------------------------------------------
\* setup and _try_letsencrypt: from the cache when it is sound and not due, or when issuance
\* is deferred; otherwise an order; a broken key or a deferred order without a usable
\* certificate ends the start.
StartFromCache(s) ==
  /\ srv[s].pc = "down" /\ starts < MaxStarts
  /\ IF Deferred(s) THEN CacheUsable ELSE cert # NoCert /\ ~CacheDue /\ PairValid
  /\ Assign(s, Serve(s, cert)) /\ starts' = starts + 1
  /\ UNCHANGED <<time, disk, cacheLock, issued, promised>>

StartDeferred(s) ==
  /\ srv[s].pc = "down" /\ starts < MaxStarts /\ Deferred(s) /\ ~CacheUsable
  /\ starts' = starts + 1
  /\ UNCHANGED <<time, disk, cacheLock, srv, issued, promised>>

StartBroken(s) ==
  /\ srv[s].pc = "down" /\ starts < MaxStarts /\ ~Deferred(s) /\ key = -1
  /\ Failure(s, "down", 0) /\ starts' = starts + 1
  /\ UNCHANGED <<time, cert, key, cacheLock, issued>>

StartObtain(s) ==
  /\ srv[s].pc = "down" /\ starts < MaxStarts /\ ~Deferred(s) /\ key # -1
  /\ cert = NoCert \/ CacheDue \/ Recoverable
  /\ Assign(s, [pc |-> "lock"]) /\ starts' = starts + 1
  /\ UNCHANGED <<time, disk, cacheLock, issued, promised>>
-----------------------------------------------------------------------------
\* renew_if_due, called by _renewal_loop.  Another server renewed: its certificate is
\* adopted, read first and loaded into a context afterwards, without the cache lock.
AdoptRead(s) ==
  /\ srv[s].pc = "up" /\ ~srv[s].stop /\ cert # NoCert /\ cert.n # srv[s].active.n
  /\ PairValid /\ cert.end > time
  /\ Assign(s, [pc |-> "adopt", seen |-> cert])
  /\ UNCHANGED <<time, disk, cacheLock, issued, starts, promised>>

AdoptLoad(s) ==
  /\ srv[s].pc = "adopt"
  /\ IF srv[s].stop THEN Assign(s, Ended) /\ UNCHANGED <<retry, promised>>
     ELSE /\ Assign(s, [pc |-> "up", ctx |-> cert, active |-> srv[s].seen, seen |-> NoCert,
                     failures |-> 0, notBefore |-> 0])
          /\ ClearRetry(s)
  /\ UNCHANGED <<time, cert, key, schedule, cacheLock, issued, starts>>

AdoptFails(s) ==
  /\ srv[s].pc = "up" /\ ~srv[s].stop /\ cert.n # srv[s].active.n
  /\ ~(PairValid /\ cert.end > time)
  /\ Failure(s, "up", 0)
  /\ UNCHANGED <<time, cert, key, cacheLock, issued, starts>>

Current(s) ==
  /\ srv[s].pc = "up" /\ ~srv[s].stop /\ cert # NoCert /\ cert.n = srv[s].active.n
  /\ ~Deferred(s) /\ ScheduleFor(cert).next <= time

\* The renewal information of the service moves the due time to an earlier moment.
CheckAri(s) ==
  /\ Current(s) /\ ScheduleFor(cert).ari <= time
  /\ \E asked \in {0, time} :
       schedule' = [ScheduleFor(cert) EXCEPT
                      !.ari = time + 1,
                      !.due = CASE asked = 0 -> @ [] @ = 0 -> asked [] OTHER -> Smaller(@, asked)]
  /\ UNCHANGED <<time, cert, key, retry, cacheLock, srv, issued, starts, promised>>

Due(c) ==
  LET sched == ScheduleFor(c)
  IN  time >= Smaller(IF sched.due # 0 THEN sched.due ELSE FallbackDue(c), c.end)

RenewDue(s) ==
  /\ Current(s) /\ ScheduleFor(cert).ari > time /\ Due(cert)
  /\ IF key > 0
     THEN /\ Assign(s, [pc |-> "lock", renewing |-> TRUE, seen |-> cert])
          /\ UNCHANGED <<schedule, retry, promised>>
     ELSE Failure(s, "up", 0)
  /\ UNCHANGED <<time, cert, key, cacheLock, issued, starts>>

\* The loop notices stop_renewal between two attempts.
LoopEnds(s) ==
  /\ srv[s].pc = "up" /\ srv[s].stop /\ Assign(s, Ended)
  /\ UNCHANGED <<time, disk, cacheLock, issued, starts, promised>>
-----------------------------------------------------------------------------
\* obtain_letsencrypt_cert: the cache lock is awaited; a renewal that is stopped gives up.
Interrupted(s) ==
  /\ srv[s].pc \in {"lock", "order", "publish"} /\ srv[s].stop /\ srv[s].renewing
  /\ Assign(s, Ended)
  /\ cacheLock' = IF cacheLock = s THEN NoServer ELSE cacheLock
  /\ UNCHANGED <<time, disk, issued, starts, promised>>

\* Mutant: what was renewed while the lock was awaited is not looked at.
RenewedMeanwhileNever(s) == FALSE

\* The certificate is no longer the one this renewal set out to replace.  A start passes no
\* expected certificate, and orders what it found due whatever was published meanwhile.
RenewedMeanwhile(s) == srv[s].renewing /\ cert # NoCert /\ cert # srv[s].seen

\* Under the lock: adopt what another server published, or begin an order, for which a
\* missing private key is created.
LockForOrder(s) ==
  /\ srv[s].pc = "lock" /\ ~(srv[s].renewing /\ srv[s].stop) /\ cacheLock = NoServer
  /\ ~RenewedMeanwhile(s) /\ issued < MaxCerts
  /\ cacheLock' = s /\ Assign(s, [pc |-> "order"])
  /\ key' = IF key = 0 THEN issued + 1 ELSE key
  /\ UNCHANGED <<time, cert, schedule, retry, issued, starts, promised>>

LockForAdoption(s) ==
  /\ srv[s].pc = "lock" /\ ~srv[s].stop /\ cacheLock = NoServer /\ RenewedMeanwhile(s)
  /\ IF PairValid /\ cert.end > time /\ cert.end > srv[s].active.end
     THEN /\ Assign(s, ServeRenewed(s, cert)) /\ ClearRetry(s)
          /\ UNCHANGED schedule
     ELSE Failure(s, "up", 0)
  /\ UNCHANGED <<time, cert, key, cacheLock, issued, starts>>

\* The order ends with a certificate for the cached key; it may be of no use, because it
\* names another host or does not outlive the one in use.
OrderEnds(s) ==
  /\ srv[s].pc = "order" /\ issued' = issued + 1
  /\ \E life \in {1, Lifetime} :
       Assign(s, [pc |-> "publish", got |-> [n |-> issued + 1, key |-> key, end |-> time + life]])
  /\ UNCHANGED <<time, disk, cacheLock, starts, promised>>

\* A startup without a usable cache ends with its failed order; any other goes on.
AfterFailure(s) == IF srv[s].renewing \/ CacheUsable THEN "up" ELSE "down"

OrderFails(s) ==
  /\ srv[s].pc \in {"order", "publish"}
  /\ \E asked \in {0, RetryAfter} : Failure(s, AfterFailure(s), asked)
  /\ cacheLock' = NoServer
  /\ UNCHANGED <<time, cert, key, issued, starts>>

StartRetains(s) ==
  /\ srv[s].pc = "up" /\ srv[s].ctx = NoCert /\ CacheUsable
  /\ Assign(s, Serve(s, cert))
  /\ UNCHANGED <<time, disk, cacheLock, issued, starts, promised>>

Publishable(s) ==
  /\ srv[s].got.key = key /\ srv[s].got.end > time
  /\ srv[s].renewing => srv[s].got.end > srv[s].active.end

\* Mutant: publication does not look at the stop event.
StoppedNever(s) == FALSE

Stopped(s) == srv[s].stop

\* _publish_certificate: under the publication lock, the file and the context together.
Publish(s) ==
  /\ srv[s].pc = "publish" /\ Publishable(s) /\ ~Stopped(s)
  /\ cert' = srv[s].got
  /\ Assign(s, ServeRenewed(s, srv[s].got)) /\ ClearRetry(s)
  /\ cacheLock' = NoServer
  /\ UNCHANGED <<time, key, schedule, issued, starts>>

PublishRefused(s) ==
  /\ srv[s].pc = "publish" /\ ~Publishable(s)
  /\ Failure(s, AfterFailure(s), 0)
  /\ cacheLock' = NoServer
  /\ UNCHANGED <<time, cert, key, issued, starts>>
-----------------------------------------------------------------------------
StopRenewal(s) ==
  /\ srv[s].pc \notin {"down", "ended"} /\ srv[s].ctx # NoCert /\ ~srv[s].stop
  /\ Assign(s, [stop |-> TRUE])
  /\ UNCHANGED <<time, disk, cacheLock, issued, starts, promised>>

\* The process is killed, or its cleanup ends; the operating system drops its lock.
Exit(s) ==
  /\ srv[s].pc # "down"
  /\ srv' = [srv EXCEPT ![s] = Down]
  /\ cacheLock' = IF cacheLock = s THEN NoServer ELSE cacheLock
  /\ UNCHANGED <<time, disk, issued, starts, promised>>

TlsTick ==
  /\ time < MaxTime /\ time' = time + 1
  /\ promised' = [s \in Servers |-> IF promised[s] > time' THEN promised[s] ELSE 0]
  /\ UNCHANGED <<disk, cacheLock, srv, issued, starts>>

TlsNext ==
  \/ \E s \in Servers :
       \/ StartFromCache(s) \/ StartDeferred(s) \/ StartBroken(s) \/ StartObtain(s) \/ StartRetains(s)
       \/ AdoptRead(s) \/ AdoptLoad(s) \/ AdoptFails(s) \/ CheckAri(s) \/ RenewDue(s) \/ LoopEnds(s)
       \/ Interrupted(s) \/ LockForOrder(s) \/ LockForAdoption(s) \/ OrderEnds(s) \/ OrderFails(s)
       \/ Publish(s) \/ PublishRefused(s) \/ StopRenewal(s) \/ Exit(s)
  \/ TlsTick

TlsSpec == TlsInit /\ [][TlsNext]_tlsVars
-----------------------------------------------------------------------------
(* Once stop_renewal has returned, the server publishes nothing: neither the context of *)
(* its connections nor the shared certificate file changes by its doing, whatever the   *)
(* renewal thread was in the middle of.                                                 *)
NoSwitchAfterStop ==
  [][\A s \in Servers : (srv[s].stop /\ srv'[s].stop) =>
       srv'[s].ctx = srv[s].ctx /\ (srv'[s].pc # srv[s].pc => UNCHANGED cert)]_tlsVars

(* A failed order is not repeated before the deadline it set, not even by the same      *)
(* server started again, as long as no certificate was published and no other server    *)
(* wrote the shared retry file since.                                                   *)
BackoffSurvivesRestart ==
  [][\A s \in Servers : (srv[s].pc # "lock" /\ srv'[s].pc = "lock") => time >= promised[s]]_tlsVars

\* What a stop or a failed renewal decided is heeded by every later step and start.
RenewalSound == NoSwitchAfterStop /\ BackoffSurvivesRestart

(* Two renewal threads never order one after the other for the same renewal: an order   *)
(* replaces the very certificate its server found due, although that was read before    *)
(* the lock.  A start that finds the certificate due is not covered: it may order again *)
(* what another server has just renewed.                                                 *)
OneOrderPerRenewal ==
  \A s \in Servers : (srv[s].pc = "order" /\ srv[s].renewing) => cert = srv[s].seen
==============================================================================
