-------------------------- MODULE ProxyConnection --------------------------
(***************************************************************************)
(* One connection of a browser through the proxy of hw5: thread_proxy      *)
(* (hw5/proxy.c), the browser, the one host it is connected to, and what   *)
(* TCP does when an end leaves.  Requests are numbered; a request is known *)
(* by what the checks make of it, a response by the reads it takes.        *)
(* A browser puts one request at a time into the stream.                   *)
(***************************************************************************)
EXTENDS Naturals, Sequences, FiniteSets

CONSTANTS MaxRequests, \* bound on the requests of the browser
          FaultSets    \* the sets of faults to look at

\* The browser closes or resets the connection, the host closes or resets it,
\* cannot be reached, answers after the timeout, or sends a header that does
\* not fit the first read.
Fault == {"browser ends", "browser aborts", "host leaves", "unreachable", "late",
          "long header"}

ASSUME MaxRequestsAssumption == MaxRequests \in Nat \ {0}
ASSUME FaultSetsAssumption == FaultSets \subseteq SUBSET Fault

VARIABLES
  faults,                 \* what may go wrong in this behaviour
  browser, host_sock,     \* state of the two connections
  stream, sent,           \* the request under way from the browser; their number
  to_host, from_host,     \* what the host has to answer, and reads of its answers
  pc,                     \* where the thread is, or how the process ended
  persistent_connect, checkflag, has_contentlength_flag,
  log_responsecode,       \* request whose response gave the code, or Garbage
  handled,                \* number of requests read; the last one is in hand
  open,                   \* the descriptors of this connection
  log,                    \* the lines written to access.log
  copied                  \* history: which response was copied for which request

vars == <<faults, browser, host_sock, stream, sent, to_host, from_host, pc,
          persistent_connect, checkflag, has_contentlength_flag, log_responsecode,
          handled, open, log, copied>>
ends  == <<faults, stream, sent, to_host>>
flags == <<persistent_connect, checkflag, has_contentlength_flag>>

NoRequest == "none"
Garbage   == 0

\* What becomes of a request.  "unknown" names a host that has no address; the
\* last two are forwarded.
Kind == {"bad method", "bad request", "forbidden", "unknown", "once", "persistent"}

\* "ended": the other side has closed; "stirred": and has been written to;
\* "reset": an error is pending; "dead": there is nobody, and the error is told.
Socket == {"open", "ended", "stirred", "reset", "dead"}

\* One read of an answer.  Without Content-Length and without the end of the
\* header it is "headless".
Segment == [request : 1 .. MaxRequests, has : {"length", "no length", "headless"}]

Init ==
  /\ faults \in FaultSets
  /\ browser = "open" /\ host_sock = "none"
  /\ stream = NoRequest /\ sent = 0
  /\ to_host = << >> /\ from_host = << >>
  /\ pc = "start"
  /\ persistent_connect = FALSE /\ checkflag = FALSE /\ has_contentlength_flag = FALSE
  /\ log_responsecode = Garbage
  /\ handled = 0
  /\ open = {"server_sock"}
  /\ log = << >>
  /\ copied = {}

-----------------------------------------------------------------------------
(* TCP.  A write to a side that has closed succeeds and is answered by a   *)
(* reset.  The first call after a reset fails; once the error is told, or  *)
(* if the reset follows a close, a write raises SIGPIPE.                   *)

Written(sock) == CASE sock = "ended" -> "stirred" [] sock = "reset" -> "dead"
                   [] OTHER -> sock
ReadFrom(sock) == IF sock = "reset" THEN "dead" ELSE sock

\* Nobody handles SIGPIPE: the process is killed.
Killed ==
  /\ pc' = "killed"
  /\ UNCHANGED <<browser, host_sock, open, copied>>

Line(code) == Append(log, [request |-> handled', code |-> code])

\* Mutant: the host's socket is left open.
CloseServerOnly == pc' = "ended" /\ open' = open \ {"server_sock"}

\* The connection is over, its descriptors are closed.
CloseBoth == pc' = "ended" /\ open' = {}

\* Mutant: a write that fails is overlooked.
AfterUnchecked(sock, next) == pc' = next /\ open' = open

\* Return if the write fails, go on if it does not.
After(sock, next) == IF sock = "reset" THEN CloseBoth ELSE pc' = next /\ open' = open

-----------------------------------------------------------------------------
(* The thread.                                                             *)

\* getpeername fails on a connection that is reset, and failHandler exits.
Start ==
  /\ pc = "start"
  /\ pc' = IF browser = "reset" THEN "exited" ELSE "read"
  /\ UNCHANGED <<ends, flags, browser, host_sock, from_host, log_responsecode, handled,
                 open, log, copied>>

Clear == stream' = NoRequest

\* A host without an address is noticed only when there is no host yet.
Refused(kind) == \/ kind \in {"bad method", "bad request", "forbidden"}
                 \/ kind = "unknown" /\ host_sock = "none"

\* Log, answer with an error, and read on, or leave if the site is forbidden.
Refuse ==
  /\ pc = "read" /\ Refused(stream)
  /\ handled' = handled + 1
  /\ log' = Line(handled')
  /\ IF browser = "dead" THEN Killed
     ELSE /\ browser' = Written(browser)
          /\ IF stream = "forbidden" THEN CloseBoth ELSE UNCHANGED <<pc, open>>
          /\ UNCHANGED <<host_sock, copied>>
  /\ Clear
  /\ UNCHANGED <<faults, sent, to_host, from_host, flags, log_responsecode>>

Take ==
  /\ pc = "read" /\ stream # NoRequest /\ ~Refused(stream)
  /\ handled' = handled + 1
  /\ persistent_connect' = (stream # "once")
  /\ Clear
  /\ pc' = "forward"
  /\ UNCHANGED <<faults, browser, host_sock, sent, to_host, from_host, checkflag,
                 has_contentlength_flag, log_responsecode, open, log, copied>>

\* The first request to be forwarded: failHandler exits if connect fails.
Connect ==
  /\ pc = "forward" /\ host_sock = "none"
  /\ \/ host_sock' = "open" /\ open' = open \cup {"host_sock"} /\ pc' = pc
     \/ /\ "unreachable" \in faults
        /\ pc' = "exited"
        /\ UNCHANGED <<host_sock, open>>
  /\ UNCHANGED <<ends, flags, browser, from_host, log_responsecode, handled, log,
                 copied>>

\* Mutant: checkflag, cleared by the filter, is not set again.
NewResponseUnchecked == checkflag' = FALSE /\ has_contentlength_flag' = FALSE

NewResponse == checkflag' = TRUE /\ has_contentlength_flag' = FALSE

\* The request is written to the socket there is, whatever has become of it.
Forward ==
  /\ pc = "forward" /\ host_sock # "none"
  /\ IF host_sock = "dead" THEN Killed
     ELSE /\ host_sock' = Written(host_sock)
          /\ After(host_sock, "response")
          /\ UNCHANGED <<browser, copied>>
  /\ to_host' = IF host_sock = "open" THEN Append(to_host, handled) ELSE to_host
  /\ NewResponse
  /\ UNCHANGED <<faults, stream, sent, from_host, persistent_connect, log_responsecode,
                 handled, log>>

Read == pc = "response" /\ from_host # << >>

\* The first read of a response gives the code, and perhaps the length: then
\* the line of the log is written.
First == checkflag /\ Read
NoHeader == First /\ Head(from_host).has = "headless" /\ ~has_contentlength_flag

\* strstr finds no end of the header and strlen is called with NULL.
Crash ==
  /\ NoHeader
  /\ pc' = "crashed"
  /\ UNCHANGED <<ends, flags, browser, host_sock, from_host, log_responsecode,
                 handled, open, log, copied>>

\* Read from the host and write to the browser.
Copy ==
  /\ Read /\ ~NoHeader
  /\ from_host' = Tail(from_host)
  /\ checkflag' = FALSE
  /\ has_contentlength_flag' = (\/ has_contentlength_flag
                                \/ First /\ Head(from_host).has = "length")
  /\ log_responsecode' = IF First THEN Head(from_host).request ELSE log_responsecode
  /\ handled' = handled
  /\ log' = IF First /\ has_contentlength_flag' THEN Line(log_responsecode') ELSE log
  /\ IF browser = "dead" THEN Killed
     ELSE /\ browser' = Written(browser)
          /\ After(browser, "response")
          /\ copied' = copied \cup {<<handled, Head(from_host).request>>}
          /\ UNCHANGED host_sock
  /\ UNCHANGED <<ends, persistent_connect>>

\* Mutant: the loop ends as soon as nothing is there to be read.
SilentAlways == TRUE

\* The read from the host fails, or ends after 60 seconds.
Silent == host_sock # "open" \/ to_host = << >> \/ "late" \in faults

\* The response is over: its line of the log is due if it had no length.
EndResponse ==
  /\ pc = "response" /\ from_host = << >> /\ Silent
  /\ host_sock' = ReadFrom(host_sock)
  /\ handled' = handled
  /\ log' = IF has_contentlength_flag THEN log ELSE Line(log_responsecode)
  /\ IF persistent_connect THEN pc' = "read" /\ open' = open ELSE CloseBoth
  /\ UNCHANGED <<ends, flags, browser, from_host, log_responsecode, copied>>

\* The browser is gone, or has been silent for 60 seconds.
EndConnection ==
  /\ pc = "read" /\ stream = NoRequest
  /\ CloseBoth
  /\ UNCHANGED <<ends, flags, browser, host_sock, from_host>>
  /\ UNCHANGED <<log_responsecode, handled, log, copied>>

-----------------------------------------------------------------------------
(* The browser, the host and the network, while the thread is there.       *)

Over == pc \in {"ended", "killed", "exited", "crashed"}

Send(kind) ==
  /\ ~Over /\ browser = "open" /\ stream = NoRequest /\ sent < MaxRequests
  /\ stream' = kind
  /\ sent' = sent + 1
  /\ UNCHANGED <<faults, flags, browser, host_sock, to_host, from_host, pc,
                 log_responsecode, handled, open, log, copied>>

Browser(sock) ==
  /\ ~Over
  /\ browser' = sock
  /\ UNCHANGED <<ends, flags, host_sock, from_host, pc, log_responsecode, handled, open,
                 log, copied>>

LeaveBrowser == \/ "browser ends" \in faults /\ browser = "open" /\ Browser("ended")
                \/ "browser aborts" \in faults /\ browser = "open" /\ Browser("reset")
                \/ browser = "stirred" /\ Browser("dead")

Host(sock) ==
  /\ ~Over
  /\ host_sock' = sock
  /\ UNCHANGED <<ends, flags, browser, from_host, pc, log_responsecode, handled, open,
                 log, copied>>

LeaveHost == \/ /\ "host leaves" \in faults /\ host_sock = "open"
                /\ Host("ended") \/ Host("reset")
             \/ host_sock = "stirred" /\ Host("dead")

\* The reads an answer may take.
Answers(r) ==
  LET Has(h) == [request |-> r, has |-> h]
      heads  == {"length", "no length"}
                  \cup (IF "long header" \in faults THEN {"headless"} ELSE {})
  IN  {<<Has(h)>> : h \in heads} \cup {<<Has(h), Has("headless")>> : h \in heads}

Answer ==
  /\ ~Over /\ host_sock = "open" /\ to_host # << >>
  /\ \E answer \in Answers(Head(to_host)) : from_host' = from_host \o answer
  /\ to_host' = Tail(to_host)
  /\ UNCHANGED <<faults, flags, browser, host_sock, stream, sent, pc, log_responsecode,
                 handled, open, log, copied>>

Thread == Start \/ Refuse \/ Take \/ Connect \/ Forward \/ Crash \/ Copy \/ EndResponse
            \/ EndConnection
Others == (\E kind \in Kind : Send(kind)) \/ LeaveBrowser \/ LeaveHost \/ Answer

Terminated == Over /\ UNCHANGED vars

Next == Thread \/ Others \/ Terminated

Spec == Init /\ [][Next]_vars

\* The thread is scheduled, its reads time out, and a host answers.
FairSpec == Spec /\ WF_vars(Thread) /\ WF_vars(Answer)

-----------------------------------------------------------------------------
TypeOK ==
  /\ faults \subseteq Fault
  /\ browser \in Socket /\ host_sock \in Socket \cup {"none"}
  /\ stream \in Kind \cup {NoRequest} /\ sent \in 0 .. MaxRequests
  /\ to_host \in Seq(1 .. MaxRequests) /\ from_host \in Seq(Segment)
  /\ pc \in {"start", "read", "forward", "response", "ended", "killed", "exited",
            "crashed"}
  /\ {persistent_connect, checkflag, has_contentlength_flag} \subseteq BOOLEAN
  /\ log_responsecode \in 0 .. MaxRequests
  /\ handled \in 0 .. sent
  /\ open \subseteq {"server_sock", "host_sock"}
  /\ log \in Seq([request : 1 .. MaxRequests, code : 0 .. MaxRequests])
  /\ copied \subseteq (1 .. MaxRequests) \X (1 .. MaxRequests)

Lines(r) == Cardinality({i \in DOMAIN log : log[i].request = r})

\* A request gets one line of the log, whether its response has a length, has
\* none or never comes; only one cut short by a failing write may get none.
\* Unless hosts leave or answer late, the line has the code of that request.
LoggedOnce ==
  /\ \A r \in 1 .. handled : /\ Lines(r) <= 1
                             /\ r < handled \/ pc = "read" => Lines(r) = 1
  /\ faults \cap {"host leaves", "late"} = {} =>
       \A i \in DOMAIN log : log[i].code = log[i].request

\* Unless hosts answer late, the browser gets nothing but the response to the
\* request the proxy has read last, however many follow each other.
InStep == "late" \notin faults => \A pair \in copied : pair[1] = pair[2]

\* One connection takes the whole proxy down in these cases only: a browser
\* that resets is survived once its address is known.
DownExplained ==
  /\ pc = "killed"  => faults \cap {"browser ends", "host leaves"} # {}
  /\ pc = "crashed" => faults \cap {"late", "long header"} # {}
  /\ pc = "exited"  => "unreachable" \in faults \/ handled = 0

\* A browser or a host that says nothing, or leaves, does not hold the thread for
\* ever, and no descriptor of the connection stays open.  (Answers are finite, and
\* a write finds room.)
Ends == <>(Over /\ (pc = "ended" => open = {}))

\* "Once it failed or return less than 0, it will close two sides" (readme): a
\* write to a side that has left closes the pair, and not the proxy.
WriteFailureCloses == pc # "killed"
=============================================================================
