----------------------------- MODULE McpSession -----------------------------
(***************************************************************************)
(* `faultmap mcp`: one session over stdio that reads the diagnoses kept by *)
(* DiagnosisStore while investigations are still being saved.              *)
(*                                                                         *)
(* The client writes lines; the server reads one in pieces of the size of  *)
(* its buffer, handles it and writes at most one reply.  tools/call reads  *)
(* the history: a list is one query, a snapshot three queries in one       *)
(* transaction that, at the default isolation, sees the commits made       *)
(* between them.  `faultmap incident` and `faultmap explain` make the same *)
(* reads, once.  A cancelled context (SIGINT, SIGTERM) is looked at before *)
(* each line and by the database, never while the server waits for input.  *)
(***************************************************************************)
EXTENDS DiagnosisStore, Naturals, Sequences, Functions

CONSTANTS
    Lines,      \* what the client may write: see Line
    MaxPieces,  \* maxRequestBytes, in pieces of the read buffer
    MaxLines    \* bound: lines of a session

(***************************************************************************)
(* The kinds of line the server tells apart.  "method" stands for ping,    *)
(* initialize, tools/list and methods that do not exist; "badCall" for a   *)
(* tools/call with invalid parameters or an unknown tool; "get" for        *)
(* get_incident and explain_suspect, which read the same.  A line that is  *)
(* "last" ends with the input instead of a line break.                     *)
(***************************************************************************)
Line == [kind : {"blank", "malformed", "notification", "method", "badCall", "list", "get"},
         incident : Incidents, pieces : Nat \ {0}, last : BOOLEAN]

ASSUME McpAssumption == Lines \subseteq Line /\ MaxPieces \in Nat \ {0} /\ MaxLines \in Nat

VARIABLES
    phase,      \* where the server is
    line,       \* the line being read or handled: <<>> before the first
    unread,     \* pieces of it still in the input
    held,       \* pieces of it in memory; readLine's line
    got,        \* rows the current call has read
    reply,      \* what the current line will be answered with
    replies,    \* written to stdout
    audit,      \* lines of the audit trail: the number of the line they are about
    received,   \* lines whose reading began
    cancelled,  \* the context of the process
    late        \* lines handled since it was cancelled, for the properties only

mcpVars == <<phase, line, unread, held, got, reply, replies, audit, received,
             cancelled, late>>
vars == <<storeVars, mcpVars>>

None == <<>>

McpInit ==
    /\ phase = "top" /\ line = None /\ unread = 0 /\ held = 0 /\ got = {} /\ reply = None
    /\ replies = <<>> /\ audit = <<>> /\ received = <<>>
    /\ cancelled = FALSE /\ late = 0

Init == StoreInit /\ McpInit

-----------------------------------------------------------------------------
(***************************************************************************)
(* The top of the loop of Serve.  The next line starts where the reading   *)
(* of the previous one stopped; what is left of a line is no message.      *)
(***************************************************************************)
(* Mutant: the context is not looked at between lines. *)
MayServe_Always == TRUE

MayServe == ~cancelled

Top ==
    /\ phase = "top"
    /\ phase' = IF ~MayServe THEN "ended" ELSE IF unread > 0 THEN "reading" ELSE "input"
    /\ line' = IF unread > 0
               THEN [line EXCEPT !.kind = "malformed", !.pieces = unread] ELSE line
    /\ UNCHANGED <<unread, held, got, reply, replies, audit, received, cancelled, late>>

(***************************************************************************)
(* The client: it writes a line, or closes the input.  Nothing obliges it  *)
(* to do either.                                                           *)
(***************************************************************************)
Write(l) ==
    /\ phase = "input" /\ Len(received) < MaxLines
    /\ line' = l /\ unread' = l.pieces /\ received' = Append(received, l)
    /\ phase' = "reading"
    /\ UNCHANGED <<held, got, reply, replies, audit, cancelled, late>>

Close ==
    /\ phase = "input"
    /\ phase' = "ended"
    /\ UNCHANGED <<line, unread, held, got, reply, replies, audit, received, cancelled, late>>

(***************************************************************************)
(* readLine: a piece at a time, keeping nothing of a line once it exceeds  *)
(* the ceiling, and always up to the end of the line.                      *)
(***************************************************************************)
TooLong == line.pieces > MaxPieces

(* Mutant: reading stops once the ceiling is full; the rest is left. *)
LineRead_AtCeiling == unread = 1 \/ line.pieces - unread + 1 = MaxPieces

(* Mutant: a line is expected to go on past its end. *)
LineRead_PastTheEnd == unread = 0

LineRead == unread = 1

ReadPiece ==
    /\ phase = "reading"
    /\ unread' = unread - 1
    /\ held' = IF line.pieces - unread < MaxPieces THEN held + 1 ELSE 0
    /\ phase' = IF LineRead THEN "handling" ELSE "reading"
    /\ UNCHANGED <<line, got, reply, replies, audit, received, cancelled, late>>

-----------------------------------------------------------------------------
(***************************************************************************)
(* handle and callTool.  Blank lines and notifications get no reply.  The  *)
(* audit of a call precedes its reply, that of a line that cannot be       *)
(* understood follows it.                                                  *)
(***************************************************************************)
Number == Len(received)

Done(is, what, trail) ==
    /\ phase' = "replying" /\ reply' = [to |-> Number, is |-> is, what |-> what]
    /\ audit' = IF trail THEN Append(audit, Number) ELSE audit

NoReply(l) == l.kind \in {"blank", "notification"} /\ l.pieces <= MaxPieces

Unreadable(l) == l.pieces > MaxPieces \/ l.kind = "malformed"

Audited(l) == ~NoReply(l) /\ (Unreadable(l) \/ l.kind \in {"badCall", "list", "get"})

Handle ==
    /\ phase = "handling"
    /\ late' = IF cancelled THEN late + 1 ELSE late
    /\ \/ /\ NoReply(line) /\ phase' = "handled" /\ UNCHANGED <<reply, audit>>
       \/ /\ ~NoReply(line) /\ (Unreadable(line) \/ line.kind \in {"method", "badCall"})
          /\ Done(IF line.kind = "method" /\ ~Unreadable(line) THEN "ok" ELSE "error", {},
                  ~Unreadable(line) /\ line.kind = "badCall")
       \/ /\ ~NoReply(line) /\ ~Unreadable(line) /\ line.kind \in {"list", "get"}
          /\ phase' = (IF line.kind = "list" THEN "list" ELSE "incident")
          /\ UNCHANGED <<reply, audit>>
    /\ UNCHANGED <<line, unread, held, got, replies, received, cancelled>>

(***************************************************************************)
(* List: one query.  A call the context has cancelled, or that the         *)
(* database fails, is answered with isError.                               *)
(***************************************************************************)
Reading == phase \in {"list", "incident", "findings", "ranking"}

Query(table) == {r \in rows : r.table = table /\ r.incident = line.incident}

QueryUnchanged ==
    UNCHANGED <<line, unread, held, replies, received, cancelled, late>>

ListIncidents ==
    /\ phase = "list" /\ ~cancelled
    /\ Done("list", {r.incident : r \in {q \in rows : q.table = "incidents"}}, TRUE)
    /\ UNCHANGED got /\ QueryUnchanged

ReadFails ==
    /\ Reading /\ Done("error", {}, TRUE)
    /\ got' = {} /\ QueryUnchanged

(***************************************************************************)
(* Get: the incident, the findings, the ranking.                           *)
(***************************************************************************)
ReadIncident ==
    /\ phase = "incident" /\ ~cancelled
    /\ IF Query("incidents") = {}
       THEN Done("not found", {}, TRUE) /\ UNCHANGED got
       ELSE phase' = "findings" /\ got' = Query("incidents") /\ UNCHANGED <<reply, audit>>
    /\ QueryUnchanged

ReadFindings ==
    /\ phase = "findings" /\ ~cancelled
    /\ phase' = "ranking" /\ got' = got \cup Query("findings")
    /\ UNCHANGED <<reply, audit>> /\ QueryUnchanged

ReadRanking ==
    /\ phase = "ranking" /\ ~cancelled
    /\ Done("snapshot", got \cup Query("ranking_results"), TRUE)
    /\ got' = {} /\ QueryUnchanged

(***************************************************************************)
(* The reply is written, and the loop starts again unless the input ended. *)
(* A client that is gone ends the session.                                 *)
(***************************************************************************)
After == IF line.last THEN "ended" ELSE "top"

WriteReply ==
    /\ phase = "replying"
    /\ replies' = Append(replies, reply)
    /\ audit' = IF Unreadable(line) THEN Append(audit, Number) ELSE audit
    /\ reply' = None /\ held' = 0 /\ phase' = After
    /\ UNCHANGED <<line, unread, got, received, cancelled, late>>

NothingToWrite ==
    /\ phase = "handled"
    /\ held' = 0 /\ phase' = After
    /\ UNCHANGED <<line, unread, got, reply, replies, audit, received, cancelled, late>>

WriteFails ==
    /\ phase = "replying" /\ phase' = "ended"
    /\ UNCHANGED <<line, unread, held, got, reply, replies, audit, received, cancelled, late>>

Cancel ==
    /\ ~cancelled /\ phase # "ended" /\ cancelled' = TRUE
    /\ UNCHANGED <<phase, line, unread, held, got, reply, replies, audit, received, late>>

-----------------------------------------------------------------------------
Serve ==
    \/ Top \/ ReadPiece \/ Handle \/ ListIncidents \/ ReadIncident \/ ReadFindings
    \/ ReadRanking \/ WriteReply \/ NothingToWrite

Client == Close \/ WriteFails \/ \E l \in Lines : Write(l)

Session == Serve \/ ReadFails \/ Client \/ Cancel

Next ==
    \/ StoreNext /\ UNCHANGED mcpVars
    \/ Session /\ UNCHANGED storeVars

Spec == Init /\ [][Next]_vars

(***************************************************************************)
(* The process is scheduled and the database answers: investigations and   *)
(* the server take their steps.  The client owes nothing, and no fairness  *)
(* is assumed of it nor of failures.                                       *)
(***************************************************************************)
FairSpec ==
    /\ Spec
    /\ \A i \in Investigations : WF_vars(Save(i) /\ UNCHANGED mcpVars)
    /\ WF_vars((Serve \/ ReadFails) /\ UNCHANGED storeVars)

-----------------------------------------------------------------------------
TypeOK ==
    /\ StoreTypeOK
    /\ phase \in {"top", "input", "reading", "handling", "handled", "list", "incident",
                  "findings", "ranking", "replying", "ended"}
    /\ line = None \/ line \in Lines
    /\ unread \in Nat /\ held \in 0 .. MaxPieces
    /\ got \subseteq rows
    /\ \A n \in DOMAIN replies : replies[n].to \in 1 .. Number
    /\ \A n \in DOMAIN audit : audit[n] \in 1 .. Number

(* A sequence that goes up through all of the numbers wanted, and no other. *)
Numbers(s, wanted) ==
    /\ \A m, n \in DOMAIN s : m < n => s[m] < s[n]
    /\ Range(s) = wanted

(***************************************************************************)
(* Between two lines, every line that asks for an answer has had exactly   *)
(* one, in the order they were read, and no other has had any; the trail   *)
(* has one entry for each call and each line that could not be understood, *)
(* in the same order.  A line above the ceiling counts as one.             *)
(***************************************************************************)
OneReplyPerLine ==
    phase \in {"top", "input"} =>
        /\ Numbers([n \in DOMAIN replies |-> replies[n].to],
                   {n \in 1 .. Number : ~NoReply(received[n])})
        /\ Numbers(audit, {n \in 1 .. Number : Audited(received[n])})

(***************************************************************************)
(* What the session says of an incident is one investigation and stays so, *)
(* although its three reads see commits made between them: every snapshot  *)
(* answered is whole and of one author, the same in every answer, and an   *)
(* incident once listed or shown is never "not found" again.               *)
(***************************************************************************)
AnswersAgree ==
    LET about(n) == received[replies[n].to].incident
        told(n, c) == \/ replies[n].is = "list" /\ c \in replies[n].what
                      \/ replies[n].is = "snapshot" /\ c = about(n)
    IN  \A n \in DOMAIN replies :
            /\ replies[n].is = "snapshot" =>
                    \E i \in Investigations : /\ IncidentOf[i] = about(n)
                                              /\ replies[n].what = Snapshot(i)
            /\ \A m \in 1 .. n - 1 :
                    /\ told(m, about(n)) => replies[n].is # "not found"
                    /\ (replies[m].is = "snapshot" /\ replies[n].is = "snapshot"
                            /\ about(m) = about(n)) => replies[m].what = replies[n].what

(***************************************************************************)
(* After Ctrl+C the session handles at most the line it was reading or     *)
(* waiting for.                                                            *)
(***************************************************************************)
AtMostOneAfterCancel == late <= 1

(***************************************************************************)
(* Every investigation ends, even when others of its incident fail while   *)
(* it waits for them, and whatever the session does it comes back to its   *)
(* input or ends: no line is left half handled.                            *)
(***************************************************************************)
EverythingEnds ==
    /\ \A i \in Investigations : <>(pc[i] \in Ended)
    /\ (phase \notin {"input", "ended"}) ~> (phase \in {"input", "ended"})
=============================================================================
