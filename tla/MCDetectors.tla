----------------------------- MODULE MCDetectors -----------------------------
(* Telemetry of two or three services, small enough for TLC. *)
EXTENDS Detectors

Plain(id, service, trace, span, parent) ==
  [id |-> id, service |-> service, log |-> FALSE, trace |-> trace, span |-> span,
   parent |-> parent, kind |-> "server", status |-> 0, db |-> FALSE, call |-> 0,
   error |-> FALSE, failure |-> "none", ms |-> 10, version |-> 0]

Request(id, trace, status, ms, version) ==
  [Plain(id, 1, trace, id, 0) EXCEPT !.status = status, !.ms = ms,
     !.version = version, !.error = status >= 500]

Query(id, trace, failure, ms) ==
  [Plain(id, 1, trace, id, 0) EXCEPT !.kind = "client", !.db = TRUE, !.call = 1,
     !.failure = failure, !.error = failure # "none", !.ms = ms]

Log(id, service, trace, span, error) ==
  [Plain(id, service, trace, span, 0) EXCEPT !.log = TRUE, !.error = error, !.ms = -1]

Call(id, service, trace, span, parent, error) ==
  [Plain(id, service, trace, span, parent) EXCEPT !.error = error]

\* A canary that fails or is slow, logs of errors, a request repeated inside.
Requests ==
  LET was == {Request(1, 1, 200, 10, 1), Request(2, 2, 502, 40, 2),
              Request(3, 3, 200, 30, 2), Log(4, 1, 1, 0, FALSE)}
      is  == {Request(5, 4, 200, 60, 1), Request(6, 5, 503, 15, 2),
              Request(7, 6, 500, 100, 2), Request(8, 7, 504, 25, 1),
              Log(9, 1, 5, 0, TRUE),
              [Request(10, 5, 503, 90, 2) EXCEPT !.kind = "internal"]}
  IN  [baseline |-> was, incident |-> is \cup {Request(1, 1, 200, 10, 1),
                                               Request(2, 2, 502, 40, 2)}]

\* Windows large enough for a few failures to be noise or not.
Crowd ==
  [baseline |-> {Request(n, n, IF n = 1 THEN 503 ELSE 200, 10 * n, 0) : n \in 1 .. 6},
   incident |-> {Request(n, n, IF n % 2 = 1 THEN 503 ELSE 200, 7 * n, 0) : n \in 7 .. 14}]

\* Queries that wait, fail, are given up and are repeated, and a request.
Queries ==
  LET was == {Query(1, 1, "none", 2), Query(2, 2, "none", 120), Query(3, 3, "other", 9),
              Request(4, 1, 200, 20, 0)}
      is  == {Query(5, 4, "none", 150), Query(6, 4, "none", 400), Query(7, 5, "none", 3),
              Query(8, 5, "timeout", 500), Query(9, 4, "other", 5), Query(10, 5, "cancel", 5),
              Request(11, 5, 200, 700, 0)}
  IN  [baseline |-> was, incident |-> is \cup {Query(3, 3, "other", 9)}]

\* Chains of three services, a healthy one between two that fail, the same
\* spans in another trace, a service that calls itself, a chain longer than
\* the ceiling; while it is not all stored, parents that are missing.
Chains ==
  [baseline |-> {Call(1, 1, 1, 1, 0, FALSE), Call(2, 2, 1, 2, 1, FALSE),
                 Call(3, 3, 1, 3, 2, TRUE)},
   incident |-> {Call(11, 1, 2, 1, 0, TRUE), Call(12, 2, 2, 2, 1, FALSE),
                 Call(13, 3, 2, 3, 2, TRUE), Call(14, 3, 2, 4, 3, TRUE),
                 Call(15, 2, 3, 2, 1, TRUE), Call(16, 3, 3, 3, 2, TRUE),
                 Call(17, 1, 2, 5, 4, TRUE), Call(1, 1, 1, 1, 0, FALSE),
                 Call(2, 2, 1, 2, 1, FALSE), Call(3, 3, 1, 3, 2, TRUE)}]

\* Parents in a loop, one span the parent of itself, two spans of one key.
Loops ==
  [baseline |-> {Call(1, 1, 1, 1, 3, TRUE), Call(2, 2, 1, 2, 1, TRUE)},
   incident |-> {Call(1, 1, 1, 1, 3, TRUE), Call(2, 2, 1, 2, 1, TRUE),
                 Call(3, 3, 1, 3, 2, TRUE), Call(4, 2, 1, 4, 4, TRUE),
                 Call(5, 3, 1, 5, 4, TRUE), Call(6, 3, 1, 2, 4, FALSE)}]

FiveSituations == {Requests, Crowd, Queries, Chains, Loops}

\* A service that fails below another, whose failure wrote a log.
LoggedFailure ==
  {[Chains EXCEPT !.incident = {Call(11, 1, 2, 1, 0, TRUE), Call(13, 3, 2, 3, 1, TRUE),
                                Call(14, 3, 2, 4, 3, TRUE), Log(15, 1, 2, 1, FALSE),
                                Call(16, 2, 2, 5, 1, FALSE)}]}
=============================================================================
