----------------------------- MODULE Detectors -----------------------------
(***************************************************************************)
(* The detectors of internal/detection over the two windows of an          *)
(* investigation: the ten that Run applies to one service, the two that    *)
(* compare services inside a trace, and the depth that breaks the ties of  *)
(* the ranking. Windows grow as telemetry is stored; a diagnosis may be    *)
(* asked for at any moment, so each state is one.                          *)
(*                                                                         *)
(* Simplifications: a signal keeps the attributes detectors read, already  *)
(* classified (semconv); a rate is a pair of naturals and is compared      *)
(* without rounding; score, confidence and wording decide nothing here.    *)
(***************************************************************************)
EXTENDS Integers, FiniteSets, SequencesExt, FiniteSetsExt

CONSTANTS
  ScopeServices,   \* services of the scope
  Situations,      \* pairs of sets of signals, what each window may hold
  None,            \* no identifier, no version or no operation
  MinimumSample,   \* minimumSampleSize
  RetryTraces,     \* minimumRetryTraceCount
  TailOperations,  \* minimumDatabaseTailOperations
  MaxHops          \* maxAncestorHops, maxDepthHops

\* ms is -1 in a signal that was not measured; id is the order of reading.
IsSignal(s) ==
  /\ {"id", "service", "log", "trace", "span", "parent", "kind", "status",
      "db", "call", "error", "failure", "ms", "version"} = DOMAIN s
  /\ s.id \in Nat /\ s.service \in ScopeServices
  /\ s.log \in BOOLEAN /\ s.db \in BOOLEAN /\ s.error \in BOOLEAN
  /\ s.kind \in {"server", "client", "internal"}
  /\ s.failure \in {"none", "timeout", "cancel", "other"}
  /\ s.status \in Nat /\ s.ms \in Nat \cup {-1}
  /\ {s.trace, s.span, s.parent, s.call, s.version} \subseteq Nat

ASSUME DetectorsAssumption ==
  /\ {MinimumSample, RetryTraces, TailOperations, MaxHops} \subseteq Nat \ {0}
  /\ None \in Nat
  /\ \A p \in Situations :
       /\ IsFiniteSet(p.baseline) /\ IsFiniteSet(p.incident)  \* --limit
       /\ \A s \in p.baseline \cup p.incident : IsSignal(s)
       /\ \A s, t \in p.baseline \cup p.incident : s.id = t.id => s = t

VARIABLES
  situation,  \* the telemetry of this investigation
  baseline,   \* signals stored of the baseline window
  incident    \* signals stored of the incident window

windows == <<situation, baseline, incident>>

DetectionInit ==
  /\ situation \in Situations
  /\ baseline = {} /\ incident = {}

StoreBaseline(s) ==
  /\ s \in situation.baseline \ baseline
  /\ baseline' = baseline \cup {s}
  /\ UNCHANGED <<situation, incident>>

StoreIncident(s) ==
  /\ s \in situation.incident \ incident
  /\ incident' = incident \cup {s}
  /\ UNCHANGED <<situation, baseline>>

DetectionNext ==
  \/ \E s \in situation.baseline : StoreBaseline(s)
  \/ \E s \in situation.incident : StoreIncident(s)

DetectionSpec == DetectionInit /\ [][DetectionNext]_windows
-----------------------------------------------------------------------------
(* Rates, noise and percentiles.                                           *)

\* fraction: nothing out of nothing is a rate of zero.
Rate(part, whole) ==
  [n |-> Cardinality(part), of |-> IF whole = {} THEN 1 ELSE Cardinality(whole)]

Rise(p, q) == q.n * p.of - p.n * q.of

Cube(n)   == n * n * n
Spread(p) == p.n * (p.of - p.n)

\* exceedsSamplingNoise: at least 2 % and more than two standard errors of
\* the difference of the proportions; p and q are of windows not empty.
ExceedsSamplingNoise(p, q) ==
  LET rise == Rise(p, q)
  IN  /\ 50 * rise >= p.of * q.of
      /\ rise * rise * p.of * q.of
           > 4 * (Spread(p) * Cube(q.of) + Spread(q) * Cube(p.of))

\* What the detectors of rates ask before they speak.
RateGrew(p, q) == Rise(p, q) > 0 /\ ExceedsSamplingNoise(p, q)

Durations(W) == {s.ms : s \in {t \in W : t.ms >= 0}}
HasP95(W)    == Durations(W) # {}

\* percentile95: the observation of order ceil(0.95 n) among those measured.
P95(W) ==
  LET measured == {s \in W : s.ms >= 0}
      order    == (95 * Cardinality(measured) + 99) \div 100
      UpTo(d)  == Cardinality({s \in measured : s.ms <= d})
  IN  Min({d \in Durations(W) : UpTo(d) >= order})

\* p95 of q above that of p by an amount and by a share of it (in percent).
P95Grew(p, q, atLeast, percent) ==
  /\ HasP95(p) /\ HasP95(q) /\ P95(q) > P95(p)
  /\ P95(q) - P95(p) >= atLeast
  /\ \/ P95(p) <= 0
     \/ 100 * (P95(q) - P95(p)) >= percent * P95(p)

-----------------------------------------------------------------------------
(* What a signal is.                                                       *)

OfService(service, W) == {s \in W : s.service = service}

\* filterHTTPSignals: internal spans repeat the status of the request.
Http(W) == {s \in W : s.status # 0 /\ s.kind # "internal"}

\* Mutant: only the status 500 is a failure of the server.
IsServerError_Only500(s) == s.status = 500

IsServerError(s) == s.status \in 500 .. 599
ServerErrors(W)  == {s \in Http(W) : IsServerError(s)}

Database(W) == {s \in W : s.db}

\* databaseFailures: by the status of the span or by a type of failure.
Failures(W) == {s \in Database(W) : s.error \/ s.failure # "none"}
Timeouts(W) == {s \in Failures(W) : s.failure = "timeout"}

\* databaseNonTimeoutFailures: a call the client gave up is not a failure.
OtherFailures(W) == {s \in Failures(W) \ Timeouts(W) : s.failure # "cancel"}

Succeeded(W) == Database(W) \ Failures(W)
Logs(W)      == {s \in W : s.log}
Failed(W)    == {s \in W : s.error}
Traces(W)    == {s.trace : s \in W} \ {None}
InTrace(t, W) == {s \in W : s.trace = t}

NewFinding(rule, service, cited) ==
  [rule |-> rule, service |-> service, cited |-> {s.id : s \in cited}]

When(condition, finding) == IF condition THEN {finding} ELSE {}
-----------------------------------------------------------------------------
(* The detectors of Run: B and I are the windows of one service.           *)

ErrorRateDelta(service, B, I) ==
  When(/\ Http(B) # {} /\ Http(I) # {}
       /\ RateGrew(Rate(ServerErrors(B), Http(B)), Rate(ServerErrors(I), Http(I))),
       NewFinding("error_rate_delta", service, Http(I)))

LatencyDelta(service, B, I) ==
  When(P95Grew(Http(B), Http(I), 5, 20),
       NewFinding("latency_delta", service, Http(I)))

\* DetectDatabaseTimeout looks at the incident alone.
DatabaseTimeout(service, I) ==
  When(Timeouts(I) # {}, NewFinding("database_timeout", service, Timeouts(I)))

\* filterHTTPImpact: a failure, or a request slower than the baseline.
Impacts(W, p95) == {s \in W : IsServerError(s) \/ s.ms > p95}

\* DetectTraceCorrelation: timeout and impact in the same trace.
TraceCorrelation(service, B, I) ==
  IF ~HasP95(Http(B)) THEN {}
  ELSE LET hit(t)  == Impacts(InTrace(t, Http(I)), P95(Http(B)))
           traces  == {t \in Traces(Timeouts(I)) : hit(t) # {}}
       IN  When(traces # {},
                NewFinding("database_http_trace_correlation", service,
                        UNION {InTrace(t, Timeouts(I)) \cup hit(t) : t \in traces}))

\* retryStats: the attempts of one operation, trace by trace.
Attempts(call, W) ==
  {s \in W : s.call = call /\ s.kind = "client" /\ s.trace # None}

Calls(W) == {s.call : s \in {t \in W : t.kind = "client" /\ t.trace # None}} \ {None}

Average(call, W) ==
  [n |-> Cardinality(Attempts(call, W)), of |-> Cardinality(Traces(Attempts(call, W)))]

Repeated(call, W) ==
  {t \in Traces(Attempts(call, W)) : Cardinality(InTrace(t, Attempts(call, W))) > 1}

\* The conditions of DetectRetryStorm over one operation of both windows.
IsStorm(call, B, I) ==
  LET was == Average(call, B)
      is  == Average(call, I)
  IN  /\ was.of >= RetryTraces /\ is.of >= RetryTraces
      /\ Cardinality(Repeated(call, I)) >= RetryTraces
      /\ is.n >= 2 * is.of
      /\ Rise(was, is) >= was.of * is.of

\* The operation that grew most, by its share of the average; a tie goes to
\* the least signature.
Worse(a, b, B, I) ==
  LET left  == Average(a, B).n * Average(a, I).of * Average(b, I).n * Average(b, B).of
      right == Average(b, B).n * Average(b, I).of * Average(a, I).n * Average(a, B).of
  IN  left < right \/ (left = right /\ a <= b)

RetryStorm(service, B, I) ==
  LET storms == {c \in Calls(B) \cap Calls(I) : IsStorm(c, B, I)}
      chosen == CHOOSE c \in storms : \A d \in storms : Worse(c, d, B, I)
  IN  When(storms # {},
           NewFinding("retry_storm", service,
                   {s \in Attempts(chosen, I) : s.trace \in Repeated(chosen, I)}))

\* DetectLogCorrelation: logs of error grew and share a trace with a failure.
LogCorrelation(service, B, I) ==
  LET failing    == Traces(ServerErrors(I))
      correlated == {s \in Failed(Logs(I)) : s.trace \in failing}
  IN  When(/\ Logs(B) # {} /\ Logs(I) # {}
           /\ RateGrew(Rate(Failed(Logs(B)), Logs(B)), Rate(Failed(Logs(I)), Logs(I)))
           /\ correlated # {},
           NewFinding("log_correlation", service, correlated))

\* DetectDatabaseLatencyDelta: at least twice as slow, of what succeeded.
DatabaseLatencyDelta(service, B, I) ==
  When(P95Grew(Succeeded(B), Succeeded(I), 2, 100),
       NewFinding("database_latency_delta", service, Succeeded(I)))

Slower(W, threshold) == {s \in W : s.ms > threshold}

\* The share of the tail is more than twice that of the baseline.
TailGrew(p, q) == q.n * p.of > 2 * p.n * q.of

\* DetectDatabaseLatencyTail: few operations, far beyond the normal worst.
DatabaseLatencyTail(service, B, I) ==
  IF ~HasP95(Succeeded(B)) THEN {}
  ELSE LET threshold == Max({20 * P95(Succeeded(B)), 100})
           tail      == Slower(Succeeded(I), threshold)
       IN  When(/\ Cardinality(tail) >= TailOperations
                /\ TailGrew(Rate(Slower(Succeeded(B), threshold), Succeeded(B)),
                            Rate(tail, Succeeded(I))),
                NewFinding("database_latency_tail", service, tail))

\* Mutant: the failures of the baseline are forgotten.
DatabaseError_IncidentAlone(service, B, I) ==
  When(/\ Database(B) # {} /\ Database(I) # {} /\ OtherFailures(I) # {},
       NewFinding("database_error", service, OtherFailures(I)))

DatabaseError(service, B, I) ==
  When(/\ Database(B) # {} /\ Database(I) # {} /\ OtherFailures(I) # {}
       /\ RateGrew(Rate(OtherFailures(B), Database(B)),
                   Rate(OtherFailures(I), Database(I))),
       NewFinding("database_error", service, OtherFailures(I)))

OfVersion(v, I) == {s \in Http(I) : s.version = v}

\* comparableVersionStats: the versions with requests enough.
Versions(I) ==
  {v \in {s.version : s \in Http(I)} \ {None} :
     Cardinality(OfVersion(v, I)) >= MinimumSample}

ErrorsOf(v, I) == Rate(ServerErrors(OfVersion(v, I)), OfVersion(v, I))

\* DetectVersionRegression: the worst version against the best, by errors
\* and, only when those are noise, by latency; a tie keeps the least name.
VersionRegression(service, I) ==
  LET comparable == Versions(I)
      measured   == {v \in comparable : HasP95(OfVersion(v, I))}
      First(S)   == Min(S)
      best  == First({v \in comparable : \A w \in comparable :
                        Rise(ErrorsOf(v, I), ErrorsOf(w, I)) >= 0})
      worst == First({v \in comparable : \A w \in comparable :
                        Rise(ErrorsOf(w, I), ErrorsOf(v, I)) >= 0})
      fastest == First({v \in measured : \A w \in measured :
                          P95(OfVersion(v, I)) <= P95(OfVersion(w, I))})
      slowest == First({v \in measured : \A w \in measured :
                          P95(OfVersion(v, I)) >= P95(OfVersion(w, I))})
  IN  IF Cardinality(comparable) < 2 THEN {}
      ELSE IF best # worst /\ ExceedsSamplingNoise(ErrorsOf(best, I), ErrorsOf(worst, I))
      THEN {NewFinding("version_regression", service, OfVersion(worst, I))}
      ELSE When(/\ Cardinality(measured) >= 2
                /\ P95Grew(OfVersion(fastest, I), OfVersion(slowest, I), 5, 20),
                NewFinding("version_regression", service, OfVersion(slowest, I)))

Run(service, baselineWindow, incidentWindow) ==
  LET B == OfService(service, baselineWindow)
      I == OfService(service, incidentWindow)
  IN  ErrorRateDelta(service, B, I) \cup LatencyDelta(service, B, I)
      \cup DatabaseTimeout(service, I) \cup TraceCorrelation(service, B, I)
      \cup RetryStorm(service, B, I) \cup LogCorrelation(service, B, I)
      \cup DatabaseLatencyDelta(service, B, I) \cup DatabaseLatencyTail(service, B, I)
      \cup DatabaseError(service, B, I) \cup VersionRegression(service, I)
-----------------------------------------------------------------------------
(* The detectors across services: B and I are the windows of the scope.    *)

\* indexSpansByID: of the signals with one key, spans or logs, the last read.
IndexedAt(trace, span, W) ==
  LET same == {s \in W : s.trace = trace /\ s.span = span /\ s.span # None}
  IN  {s \in same : \A t \in same : t.id <= s.id}

\* The signal the index gives for the parent of s: one or none.
ParentOf(s, W) == IF s.parent = None THEN {} ELSE IndexedAt(s.trace, s.parent, W)

\* The climb from s, hop by hop: s and the ancestors found above it.
Ascent(s, W) ==
  LET path[hop \in 0 .. MaxHops] ==
        IF hop = 0 THEN <<s>>
        ELSE LET below == path[hop - 1]
             IN  below \o SetToSeq(ParentOf(Last(below), W))
  IN  path

Climb(s, W) == Ascent(s, W)[MaxHops]

Key(s) == <<s.trace, s.span>>

\* Mutant: the service of the span climbed last, not that of the first.
FailingAncestorServices_OfTheLast(s, W) ==
  LET path == Climb(s, W)
  IN  {path[n].service : n \in {n \in 2 .. Len(path) :
         path[n].error /\ path[n].service # path[n - 1].service}}

\* failingAncestorServices: the climb stops at a span it has seen.
FailingAncestorServices(s, W) ==
  LET path == Climb(s, W)
      Seen(n) == \E m \in 1 .. n - 1 : Key(path[m]) = Key(path[n])
      climbed == {n \in 2 .. Len(path) : \A m \in 2 .. n : ~Seen(m)}
  IN  {path[n].service : n \in {n \in climbed :
         path[n].error /\ path[n].service # s.service}}

\* propagationByService: failures of a service below a failure of another.
Propagated(service, W) ==
  {s \in OfService(service, W) :
     s.error /\ s.trace # None /\ FailingAncestorServices(s, W) # {}}

DependencyRate(service, W) ==
  Rate(Traces(Propagated(service, W)), Traces(OfService(service, W)))

DependencyFailure(B, I) ==
  UNION {When(/\ Propagated(service, I) # {}
              /\ Rise(DependencyRate(service, B), DependencyRate(service, I)) > 0,
              NewFinding("dependency_failure", service, Propagated(service, I)))
           : service \in ScopeServices}

\* parentChildLinks: the pairs of services in which a span calls another.
Links(W) ==
  UNION {{<<p.service, s.service>> : p \in {p \in ParentOf(s, W) : p.service # s.service}}
           : s \in W}

\* DetectTraceBreak: a link of the baseline nobody saw in the incident, while
\* both services are still heard. One finding for each link.
TraceBreak(B, I) ==
  {[rule |-> "trace_break", service |-> link[2], caller |-> link[1],
    cited |-> {s.id : s \in OfService(link[2], I)}] :
     link \in {l \in Links(B) \ Links(I) :
                 OfService(l[1], I) # {} /\ OfService(l[2], I) # {}}}

\* serviceDepths, of the services the window shows.
ServiceDepths(W) ==
  LET Depth(s) == Len(Climb(s, W)) - 1
  IN  [service \in {s.service : s \in W} |-> Max({Depth(s) : s \in OfService(service, W)})]

\* What DiagnoseIncidentInScope finds before it looks for changes nearby.
Findings(B, I) ==
  UNION {Run(service, B, I) : service \in ScopeServices}
    \cup DependencyFailure(B, I) \cup TraceBreak(B, I)
-----------------------------------------------------------------------------
Slowest(s, W) == s.ms >= 0 /\ \A t \in W : t.ms <= s.ms

\* A signal that says of its service, by one rule, nothing but worse.
WorsensErrors(s)   == s.status \in 500 .. 599 /\ s.kind # "internal"
WorsensLatency(s) == s \in Http({s}) /\ Slowest(s, Http(OfService(s.service, incident)))
WorsensDatabase(s) == s \in OtherFailures({s})
WorsensQueries(s) ==
  s \in Succeeded({s}) /\ Slowest(s, Succeeded(OfService(s.service, incident)))

\* No rule that speaks of what s worsens is silenced by storing it.
NotAcquittedBy(s) ==
  LET B  == OfService(s.service, baseline)
      I  == OfService(s.service, incident)
      J  == OfService(s.service, incident')
      Kept(Detector(_, _, _)) ==
        Detector(s.service, B, I) # {} => Detector(s.service, B, J) # {}
  IN  /\ WorsensErrors(s) => Kept(ErrorRateDelta)
      /\ WorsensLatency(s) => Kept(LatencyDelta)
      /\ WorsensDatabase(s) => Kept(DatabaseError)
      /\ WorsensQueries(s) => Kept(DatabaseLatencyDelta) /\ Kept(DatabaseLatencyTail)

(***************************************************************************)
(* What gets worse is not acquitted: one more answer 5xx, one more request *)
(* or query slower than all before it, one more failed operation of the    *)
(* database never withdraws what the rule about it had found. The noise    *)
(* barriers divide by the size of the window, which the signal increases.  *)
(***************************************************************************)
WorseIsNotAcquitted ==
  [][\A s \in incident' \ incident : NotAcquittedBy(s)]_windows

OfTheIncidentAlone ==
  {"database_timeout", "database_http_trace_correlation", "version_regression"}

(***************************************************************************)
(* What was there before is not an accusation: a service whose windows     *)
(* hold the same is accused by no rule that compares windows, and windows  *)
(* that are the same break no trace and spread no failure ("um sistema que *)
(* sempre falha na mesma proporção não produz hipótese").                  *)
(***************************************************************************)
ChronicIsSilent ==
  /\ \A service \in ScopeServices :
       OfService(service, baseline) = OfService(service, incident) =>
         \A f \in Run(service, baseline, incident) : f.rule \in OfTheIncidentAlone
  /\ baseline = incident =>
       {f \in Findings(baseline, incident) : f.rule \notin OfTheIncidentAlone} = {}

\* Reference for the climb: the calls of the window, followed from set to set,
\* for windows in which a key names one signal.
KeysAreUnique(W) ==
  \A s, t \in W : s.span # None /\ Key(s) = Key(t) => s = t

CallersOf(s, W) ==
  {p \in W : p.trace = s.trace /\ p.span = s.parent /\ s.parent # None}

\* Who called s, by so many calls at most.
Within(s, W) ==
  LET within[n \in 0 .. MaxHops] ==
        IF n = 0 THEN {}
        ELSE UNION {CallersOf(p, W) : p \in {s} \cup within[n - 1]}
  IN  within

Above(s, W) == Within(s, W)[MaxHops]
InLoop(s, W) == \E p \in Above(s, W) \cup {s} : p \in Above(p, W)

(***************************************************************************)
(* A failure is laid on a service below another only when the trace says   *)
(* so: the failing services the climb finds are those of the spans from    *)
(* which the failed one was called, in the same trace and by the calls the *)
(* ceiling allows, even when instrumentation closes a loop; and without    *)
(* loops the depth of a service is the longest chain of calls, up to the   *)
(* ceiling, that reaches it.                                               *)
(***************************************************************************)
ClimbFollowsTheTrace ==
  KeysAreUnique(incident) =>
    /\ \A s \in Failed(incident) :
         FailingAncestorServices(s, incident) =
           {p.service : p \in Failed(Above(s, incident))} \ {s.service}
    /\ \A service \in DOMAIN ServiceDepths(incident) :
         LET mine == OfService(service, incident)
         IN  (\A s \in mine : ~InLoop(s, incident)) =>
               ServiceDepths(incident)[service]
                 = Max({Cardinality(Above(s, incident)) : s \in mine})

(***************************************************************************)
(* Refuted by the code (see the finding): a failed span below the failed   *)
(* span of another service is seen as such (dependency_failure.go:151). A  *)
(* record of log takes the place of the span it was written in.            *)
(***************************************************************************)
FailedCallerIsSeen ==
  \A s, p \in Failed(incident) :
    ~s.log /\ ~p.log /\ p \in CallersOf(s, incident) /\ p.service # s.service
      => p.service \in FailingAncestorServices(s, incident)

=============================================================================
