---------------------------- MODULE ProxyProofs ----------------------------
(***************************************************************************)
(* Proofs about the proxy of hw5: one connection through it, for any       *)
(* number of requests and any set of faults, and the main loop that hands  *)
(* connections to threads, which the chat server of pro has, too.          *)
(***************************************************************************)
EXTENDS ProxyConnection, AcceptLoop, ListLemmas

-----------------------------------------------------------------------------
(* The inductive invariant.                                                *)

\* Every request that was sent is read or in the stream.
Counted ==
  /\ sent = IF stream = NoRequest THEN handled ELSE handled + 1
  /\ pc \in {"forward", "response"} => handled >= 1
  /\ pc = "start" => handled = 0

\* Which fault each state of the two sockets goes back to.  A browser that resets
\* sends nothing more, so that the error is told to a write of the last response.
Blamed ==
  /\ browser \in {"ended", "stirred"} => "browser ends" \in faults
  /\ browser = "dead" => \/ "browser ends" \in faults
                         \/ Over
                         \/ stream = NoRequest /\ pc \notin {"forward", "response"}
  /\ host_sock \notin {"none", "open"} => "host leaves" \in faults
  /\ host_sock = "none" => to_host = << >>

\* Unless answers come late, what is under way between proxy and host belongs to
\* the request in hand, and a response is over before the next request.
Paired ==
  "late" \notin faults =>
    /\ pc \in {"start", "read", "forward"} =>
         from_host = << >> /\ (host_sock = "open" => to_host = << >>)
    /\ pc = "response" =>
         /\ host_sock = "open" =>
              to_host = << >> \/ (to_host = <<handled>> /\ checkflag /\ from_host = << >>)
         /\ \A i \in 1 .. Len(from_host) : from_host[i].request = handled
         /\ checkflag /\ from_host # << >> /\ from_host[1].has = "headless" =>
              "long header" \in faults
         /\ checkflag => \/ "host leaves" \in faults
                         \/ to_host # << >> \/ from_host # << >>
         /\ ~ checkflag => log_responsecode = handled

\* The requests that have a line of the log: those before the one in hand, and
\* that one as the flags say.
Logged == {log[i].request : i \in 1 .. Len(log)}

Logging ==
  /\ Logged \subseteq 1 .. handled
  /\ \A r \in 1 .. handled : r < handled => r \in Logged
  /\ pc = "read" => \A r \in 1 .. handled : r \in Logged
  /\ pc = "forward" => handled \notin Logged
  /\ pc = "response" => /\ handled \in Logged <=> has_contentlength_flag
                        /\ ~ (checkflag /\ has_contentlength_flag)

\* No request has two, and the code in it is that of its own response.
OneLine == \A i, k \in 1 .. Len(log) : log[i].request = log[k].request => i = k

OwnCode == faults \cap {"host leaves", "late"} = {} =>
             \A i \in 1 .. Len(log) : log[i].code = log[i].request

IInv == /\ TypeOK /\ Counted /\ Blamed /\ DownExplained /\ Paired /\ InStep
        /\ Logging /\ OneLine /\ OwnCode

-----------------------------------------------------------------------------
(* Types.                                                                  *)

\* What the lists and the flags are, apart from the rest.
LEMMA Lists ==
  ASSUME TypeOK
  PROVE  /\ to_host \in Seq(1 .. MaxRequests) /\ Len(to_host) \in Nat
         /\ from_host \in Seq(Segment) /\ Len(from_host) \in Nat
         /\ log \in Seq([request : 1 .. MaxRequests, code : 0 .. MaxRequests])
         /\ Len(log) \in Nat
  BY LenProperties DEF TypeOK

LEMMA Numbers ==
  ASSUME TypeOK
  PROVE  /\ handled \in Nat /\ sent \in Nat /\ handled <= sent /\ sent <= MaxRequests
         /\ MaxRequests \in Nat \ {0}
         /\ log_responsecode \in 0 .. MaxRequests
  BY MaxRequestsAssumption DEF TypeOK

\* A line of the log.
LEMMA Writes ==
  ASSUME TypeOK, NEW code \in 0 .. MaxRequests, handled' \in 1 .. MaxRequests
  PROVE  /\ Line(code) \in Seq([request : 1 .. MaxRequests, code : 0 .. MaxRequests])
         /\ Len(Line(code)) = Len(log) + 1
         /\ \A i \in 1 .. Len(log) : Line(code)[i] = log[i]
         /\ Line(code)[Len(log) + 1] = [request |-> handled', code |-> code]
  <1> DEFINE R == [request : 1 .. MaxRequests, code : 0 .. MaxRequests]
             line == [request |-> handled', code |-> code]
  <1>2. line \in R
    OBVIOUS
  <1>3. log \in Seq(R)
    BY Lists
  <1> HIDE DEF R, line
  <1>4. /\ Append(log, line) \in Seq(R)
        /\ Len(Append(log, line)) = Len(log) + 1
        /\ \A i \in 1 .. Len(log) : Append(log, line)[i] = log[i]
        /\ Append(log, line)[Len(log) + 1] = line
    BY <1>2, <1>3, AppendProperties
  <1> QED BY <1>4 DEF Line, R, line
\* The reads of an answer belong to the request; the first has the end of the
\* header, unless the header is long.
LEMMA AnswerReads ==
  ASSUME NEW r \in 1 .. MaxRequests, NEW a \in Answers(r)
  PROVE  /\ a \in Seq(Segment) /\ Len(a) \in Nat \ {0}
         /\ \A i \in 1 .. Len(a) : a[i].request = r
         /\ a[1].has = "headless" => "long header" \in faults
  <1> DEFINE Has(h) == [request |-> r, has |-> h]
             heads  == {"length", "no length"}
                         \cup (IF "long header" \in faults THEN {"headless"} ELSE {})
  <1>1. \A h \in heads : h \in {"length", "no length", "headless"}
                         /\ (h = "headless" => "long header" \in faults)
    OBVIOUS
  <1>2. \A h \in heads \cup {"headless"} :
          Has(h) \in Segment /\ Has(h).request = r /\ Has(h).has = h
    BY <1>1 DEF Segment
  <1>3. PICK h \in heads : a = <<Has(h)>> \/ a = <<Has(h), Has("headless")>>
    BY DEF Answers
  <1> HIDE DEF Has, heads
  <1>4. Has(h) \in Segment /\ Has("headless") \in Segment
    BY <1>2
  <1>5. a \in Seq(Segment) /\ Len(a) \in Nat \ {0} /\ a[1] = Has(h)
    <2>1. CASE a = <<Has(h)>>
      BY <1>4, <2>1
    <2>2. CASE a = <<Has(h), Has("headless")>>
      BY <1>4, <2>2
    <2> QED BY <1>3, <2>1, <2>2
  <1>6. \A i \in 1 .. Len(a) : a[i] = Has(h) \/ a[i] = Has("headless")
    BY <1>3
  <1> QED BY <1>1, <1>2, <1>5, <1>6

\* Every step of the thread and of the others keeps the types.
LEMMA StepTypes ==
  ASSUME TypeOK, Counted, Next
  PROVE  TypeOK'
  <1>0. /\ stream # NoRequest => handled + 1 \in 1 .. MaxRequests /\ handled + 1 <= sent
        /\ pc \in {"forward", "response"} => handled \in 1 .. MaxRequests
    BY Numbers DEF Counted
  <1>1. CASE Start
    BY <1>1 DEF TypeOK, Start, ends, flags
  <1>2. CASE Refuse
    <2>1. handled' = handled + 1 /\ handled' \in 1 .. MaxRequests /\ handled' <= sent
      BY <1>0, <1>2 DEF Refuse, Refused, NoRequest
    <2>2. log' \in Seq([request : 1 .. MaxRequests, code : 0 .. MaxRequests])
      <3>1. PICK code : code = handled'
        OBVIOUS
      <3>2. log' = Line(code) /\ code \in 0 .. MaxRequests
        BY <1>2, <2>1, <3>1, Numbers DEF Refuse
      <3> QED BY <2>1, <3>2, Writes
    <2>3. sent' = sent /\ handled' \in 0 .. sent'
      BY <1>2, <2>1, Numbers DEF Refuse
    <2> QED BY <1>2, <2>2, <2>3
            DEF TypeOK, Refuse, Clear, Killed, CloseBoth, Written, Socket, flags
  <1>3. CASE Take
    <2>1. sent' = sent /\ handled' \in 0 .. sent'
      BY <1>0, <1>3, Numbers DEF Take
    <2> QED BY <1>3, <2>1 DEF TypeOK, Take, Clear
  <1>4. CASE Connect
    BY <1>4 DEF TypeOK, Connect, ends, flags, Socket
  <1>5. CASE Forward
    <2>1. to_host' \in Seq(1 .. MaxRequests)
      <3>1. handled \in 1 .. MaxRequests
        BY <1>0, <1>5 DEF Forward
      <3>2. Append(to_host, handled) \in Seq(1 .. MaxRequests)
        BY <3>1, Lists, AppendProperties
      <3> QED BY <1>5, <3>2, Lists DEF Forward
    <2> QED BY <1>5, <2>1
            DEF TypeOK, Forward, NewResponse, Killed, After, CloseBoth, Written, Socket
  <1>6. CASE Crash
    BY <1>6 DEF TypeOK, Crash, ends, flags
  <1>7. CASE Copy
    <2>1. handled \in 1 .. MaxRequests /\ handled' = handled
      BY <1>0, <1>7 DEF Copy, Read
    <2>2. /\ from_host' \in Seq(Segment) /\ Head(from_host) \in Segment
          /\ Head(from_host).request \in 1 .. MaxRequests
      <3>1. from_host' = Tail(from_host) /\ from_host # << >>
        BY <1>7 DEF Copy, Read
      <3>2. from_host' \in Seq(Segment) /\ Head(from_host) \in Segment
        BY <3>1, Lists, DropFirst
      <3> QED BY <3>2 DEF Segment
    <2>3. log_responsecode' \in 0 .. MaxRequests
      BY <1>7, <2>2, Numbers DEF Copy
    <2>4. log' \in Seq([request : 1 .. MaxRequests, code : 0 .. MaxRequests])
      <3>1. log' = log \/ log' = Line(log_responsecode')
        BY <1>7 DEF Copy
      <3>2. PICK code : code = log_responsecode'
        OBVIOUS
      <3>3. Line(code) \in Seq([request : 1 .. MaxRequests, code : 0 .. MaxRequests])
        BY <2>1, <2>3, <3>2, Writes
      <3> QED BY <3>1, <3>2, <3>3, Lists
    <2>5. checkflag' \in BOOLEAN /\ has_contentlength_flag' \in BOOLEAN
      BY <1>7 DEF Copy
    <2>6. copied' \subseteq (1 .. MaxRequests) \X (1 .. MaxRequests)
      BY <1>7, <2>1, <2>2 DEF TypeOK, Copy, Killed
    <2> QED BY <1>7, <2>1, <2>2, <2>3, <2>4, <2>5, <2>6
            DEF TypeOK, Copy, Read, Killed, After, CloseBoth, Written, Socket, ends
  <1>8. CASE EndResponse
    <2>1. handled \in 1 .. MaxRequests /\ handled' = handled
      BY <1>0, <1>8 DEF EndResponse
    <2>2. log' \in Seq([request : 1 .. MaxRequests, code : 0 .. MaxRequests])
      <3>1. log' = log \/ log' = Line(log_responsecode)
        BY <1>8 DEF EndResponse
      <3> QED BY <2>1, <3>1, Writes, Numbers, Lists
    <2> QED BY <1>8, <2>2 DEF TypeOK, EndResponse, CloseBoth, ReadFrom, Socket, ends, flags
  <1>9. CASE EndConnection
    BY <1>9 DEF TypeOK, EndConnection, CloseBoth, ends, flags
  <1>10. CASE \E kind \in Kind : Send(kind)
    <2>1. PICK kind \in Kind : Send(kind)
      BY <1>10
    <2>2. sent' \in 0 .. MaxRequests /\ handled' \in 0 .. sent'
      BY <2>1, Numbers DEF Send
    <2> QED BY <2>1, <2>2 DEF TypeOK, Send, flags
  <1>11. CASE LeaveBrowser
    BY <1>11 DEF TypeOK, LeaveBrowser, Browser, Socket, ends, flags
  <1>12. CASE LeaveHost
    BY <1>12 DEF TypeOK, LeaveHost, Host, Socket, ends, flags
  <1>13. CASE Answer
    <2>1. to_host' \in Seq(1 .. MaxRequests) /\ Head(to_host) \in 1 .. MaxRequests
      BY <1>13, Lists, DropFirst DEF Answer
    <2>2. from_host' \in Seq(Segment)
      <3>1. PICK a \in Answers(Head(to_host)) : from_host' = from_host \o a
        BY <1>13 DEF Answer
      <3> QED BY <2>1, <3>1, AnswerReads, Lists, JoinLists
    <2> QED BY <1>13, <2>1, <2>2 DEF TypeOK, Answer, flags
  <1>14. CASE Terminated
    BY <1>14 DEF TypeOK, Terminated, vars
  <1> QED BY <1>1, <1>2, <1>3, <1>4, <1>5, <1>6, <1>7, <1>8, <1>9, <1>10, <1>11, <1>12,
             <1>13, <1>14 DEF Next, Thread, Others
-----------------------------------------------------------------------------
(* Each part of the invariant is kept by every step.                       *)

\* The stream holds at most one request, and a thread that forwards or responds
\* has read one.
LEMMA StepCounted ==
  ASSUME TypeOK, Counted, Next
  PROVE  Counted'
  <1> USE Numbers DEF Counted
  <1>1. CASE Start
    BY <1>1 DEF Start, ends
  <1>2. CASE Refuse
    <2>1. pc = "read" /\ pc' \in {"read", "ended", "killed"} /\ stream # NoRequest
      BY <1>2 DEF Refuse, Refused, Killed, CloseBoth, NoRequest
    <2> QED BY <1>2, <2>1 DEF Refuse, Clear
  <1>3. CASE Take
    BY <1>3 DEF Take, Clear
  <1>4. CASE Connect
    BY <1>4 DEF Connect, ends
  <1>5. CASE Forward
    BY <1>5 DEF Forward, Killed, After, CloseBoth
  <1>6. CASE Crash
    BY <1>6 DEF Crash, ends
  <1>7. CASE Copy
    BY <1>7 DEF Copy, Read, ends, Killed, After, CloseBoth
  <1>8. CASE EndResponse
    BY <1>8 DEF EndResponse, ends, CloseBoth
  <1>9. CASE EndConnection
    BY <1>9 DEF EndConnection, ends, CloseBoth
  <1>10. CASE \E kind \in Kind : Send(kind)
    BY <1>10 DEF Send, Kind, NoRequest
  <1>11. CASE LeaveBrowser
    BY <1>11 DEF LeaveBrowser, Browser, ends
  <1>12. CASE LeaveHost
    BY <1>12 DEF LeaveHost, Host, ends
  <1>13. CASE Answer
    BY <1>13 DEF Answer
  <1>14. CASE Terminated
    BY <1>14 DEF Terminated, vars
  <1> QED BY <1>1, <1>2, <1>3, <1>4, <1>5, <1>6, <1>7, <1>8, <1>9, <1>10, <1>11, <1>12,
             <1>13, <1>14 DEF Next, Thread, Others

\* A socket changes by what its other side does, and by what is told of that to
\* the calls of the thread.
LEMMA StepBlamed ==
  ASSUME TypeOK, Blamed, Next
  PROVE  Blamed'
  <1> USE DEF Blamed, Over
  <1>0. faults' = faults
    BY DEF Next, Thread, Others, Start, Refuse, Take, Connect, Forward, Crash, Copy,
           EndResponse, EndConnection, Send, LeaveBrowser, Browser, LeaveHost, Host,
           Answer, Terminated, ends, vars
  <1>1. CASE Start
    BY <1>0, <1>1 DEF Start, ends
  <1>2. CASE Refuse
    <2>1. pc' \in {"read", "ended", "killed"} /\ stream' = NoRequest
          /\ host_sock' = host_sock /\ to_host' = to_host
      BY <1>2 DEF Refuse, Clear, Killed, CloseBoth
    <2>2. browser' = browser \/ browser' = Written(browser)
      BY <1>2 DEF Refuse, Killed
    <2> QED BY <1>0, <2>1, <2>2 DEF Written
  <1>3. CASE Take
    BY <1>0, <1>3 DEF Take
  <1>4. CASE Connect
    BY <1>0, <1>4 DEF Connect, ends
  <1>5. CASE Forward
    <2>1. /\ pc = "forward" /\ pc' \in {"response", "ended", "killed"}
          /\ browser' = browser /\ stream' = stream
      BY <1>5 DEF Forward, Killed, After, CloseBoth
    <2>2. host_sock # "none" /\ (host_sock' = host_sock \/ host_sock' = Written(host_sock))
      BY <1>5 DEF Forward, Killed
    <2> QED BY <1>0, <2>1, <2>2 DEF Written
  <1>6. CASE Crash
    BY <1>0, <1>6 DEF Crash, ends
  <1>7. CASE Copy
    <2>1. /\ pc = "response" /\ stream' = stream /\ to_host' = to_host
          /\ host_sock' = host_sock
      BY <1>7 DEF Copy, Read, ends, Killed
    <2>2. \/ browser' = browser /\ pc' \in {"response", "killed"}
          \/ browser = "ended" /\ browser' = "stirred"
          \/ browser = "reset" /\ browser' = "dead" /\ pc' = "ended"
      BY <1>7 DEF Copy, Killed, After, CloseBoth, Written
    <2> QED BY <1>0, <2>1, <2>2
  <1>8. CASE EndResponse
    <2>1. /\ pc = "response" /\ pc' \in {"read", "ended"} /\ stream' = stream
          /\ to_host' = to_host /\ browser' = browser
      BY <1>8 DEF EndResponse, ends, CloseBoth
    <2>2. host_sock' = ReadFrom(host_sock)
      BY <1>8 DEF EndResponse
    <2> QED BY <1>0, <2>1, <2>2 DEF ReadFrom
  <1>9. CASE EndConnection
    BY <1>0, <1>9 DEF EndConnection, ends, CloseBoth
  <1>10. CASE \E kind \in Kind : Send(kind)
    BY <1>0, <1>10 DEF Send
  <1>11. CASE LeaveBrowser
    BY <1>0, <1>11 DEF LeaveBrowser, Browser, ends
  <1>12. CASE LeaveHost
    BY <1>0, <1>12 DEF LeaveHost, Host, ends
  <1>13. CASE Answer
    BY <1>0, <1>13 DEF Answer
  <1>14. CASE Terminated
    BY <1>14 DEF Terminated, vars
  <1> QED BY <1>1, <1>2, <1>3, <1>4, <1>5, <1>6, <1>7, <1>8, <1>9, <1>10, <1>11, <1>12,
             <1>13, <1>14 DEF Next, Thread, Others
\* The set of faults stays what it is.
LEMMA FaultsStay == Next => faults' = faults
  BY DEF Next, Thread, Others, Start, Refuse, Take, Connect, Forward, Crash, Copy,
         EndResponse, EndConnection, Send, LeaveBrowser, Browser, LeaveHost, Host,
         Answer, Terminated, ends, vars

\* The process ends where a write finds that the other side has left, where the
\* end of the header is missed, or at the first two calls that may fail.
LEMMA StepDown ==
  ASSUME TypeOK, Counted, Blamed, Paired, DownExplained, Next
  PROVE  DownExplained'
  <1>0. faults' = faults
    BY FaultsStay
  <1>1. CASE pc' = pc /\ handled' = handled
    BY <1>0, <1>1 DEF DownExplained
  <1>2. CASE pc' \notin {"killed", "crashed", "exited"}
    BY <1>2 DEF DownExplained
  <1>3. CASE Start
    BY <1>0, <1>2, <1>3 DEF Start, DownExplained, Counted
  <1>4. CASE Refuse
    <2>1. pc' \in {"read", "ended"} \/ (pc' = "killed" /\ browser = "dead")
      BY <1>4 DEF Refuse, Killed, CloseBoth
    <2>2. pc = "read" /\ stream # NoRequest
      BY <1>4 DEF Refuse, Refused, NoRequest
    <2> QED BY <1>0, <2>1, <2>2 DEF Blamed, Over, DownExplained
  <1>5. CASE Take
    BY <1>2, <1>5 DEF Take
  <1>6. CASE Connect
    BY <1>0, <1>1, <1>6 DEF Connect, DownExplained
  <1>7. CASE Forward
    <2>1. pc' \in {"response", "ended"} \/ (pc' = "killed" /\ host_sock = "dead")
      BY <1>7 DEF Forward, Killed, After, CloseBoth
    <2> QED BY <1>0, <2>1 DEF Blamed, DownExplained
  <1>8. CASE Crash
    <2>1. pc = "response" /\ checkflag /\ from_host # << >> /\ pc' = "crashed"
          /\ Head(from_host).has = "headless"
      BY <1>8 DEF Crash, NoHeader, First, Read
    <2>2. from_host[1].has = "headless"
      BY <2>1, Lists, DropFirst
    <2> QED BY <1>0, <2>1, <2>2 DEF Paired, DownExplained
  <1>9. CASE Copy
    <2>1. pc' \in {"response", "ended"} \/ (pc' = "killed" /\ browser = "dead")
      BY <1>9 DEF Copy, Killed, After, CloseBoth
    <2>2. pc = "response"
      BY <1>9 DEF Copy, Read
    <2> QED BY <1>0, <2>1, <2>2 DEF Blamed, Over, DownExplained
  <1>10. CASE EndResponse
    BY <1>2, <1>10 DEF EndResponse, CloseBoth
  <1>11. CASE EndConnection
    BY <1>2, <1>11 DEF EndConnection, CloseBoth
  <1>12. CASE Others
    BY <1>1, <1>12 DEF Others, Send, LeaveBrowser, Browser, LeaveHost, Host, Answer
  <1>13. CASE Terminated
    BY <1>1, <1>13 DEF Terminated, vars
  <1> QED BY <1>3, <1>4, <1>5, <1>6, <1>7, <1>8, <1>9, <1>10, <1>11, <1>12, <1>13
          DEF Next, Thread

\* What is copied is the response to the request in hand.
LEMMA StepInStep ==
  ASSUME TypeOK, Paired, InStep, Next
  PROVE  InStep'
  <1>0. faults' = faults
    BY FaultsStay
  <1>1. CASE copied' = copied
    BY <1>0, <1>1 DEF InStep
  <1>2. CASE Copy
    <2>1. copied' = copied \/ copied' = copied \cup {<<handled, Head(from_host).request>>}
      BY <1>2 DEF Copy, Killed
    <2>2. pc = "response" /\ from_host # << >>
      BY <1>2 DEF Copy, Read
    <2>3. "late" \notin faults => Head(from_host).request = handled
      <3>1. 1 \in 1 .. Len(from_host) /\ Head(from_host) = from_host[1]
        BY <2>2, Lists, DropFirst
      <3> QED BY <2>2, <3>1 DEF Paired
    <2>4. ASSUME "late" \notin faults, NEW pair \in copied' PROVE pair[1] = pair[2]
      <3>1. CASE pair \in copied
        BY <2>4, <3>1 DEF InStep
      <3>2. CASE pair = <<handled, Head(from_host).request>>
        BY <2>3, <2>4, <3>2
      <3> QED BY <2>1, <2>4, <3>1, <3>2
    <2> QED BY <1>0, <2>4 DEF InStep
  <1> QED BY <1>1, <1>2 DEF Next, Thread, Others, Start, Refuse, Take, Connect, Forward,
          Crash, EndResponse, EndConnection, Send, LeaveBrowser, Browser, LeaveHost, Host,
          Answer, Terminated, vars, Killed
\* An answer that comes in time is read before the next request is.
LEMMA StepPaired ==
  ASSUME TypeOK, Counted, Blamed, Paired, Next
  PROVE  Paired'
  <1>0. faults' = faults
    BY FaultsStay
  <1> SUFFICES ASSUME "late" \notin faults PROVE Paired'
    BY <1>0 DEF Paired
  \* What Paired says between two responses, and in one.
  <1> DEFINE Between == from_host = << >> /\ (host_sock = "open" => to_host = << >>)
  <1>a. CASE pc' \notin {"start", "read", "forward", "response"}
    BY <1>a DEF Paired
  <1>b. CASE pc' \in {"start", "read", "forward"} /\ Between'
    BY <1>b DEF Paired
  <1>c. pc \in {"start", "read", "forward"} => Between
    BY DEF Paired
  <1>1. CASE Start
    BY <1>a, <1>b, <1>c, <1>1 DEF Start, ends
  <1>2. CASE Refuse
    <2>1. pc = "read" /\ pc' \in {"read", "ended", "killed"} /\ host_sock' = host_sock
          /\ to_host' = to_host /\ from_host' = from_host
      BY <1>2 DEF Refuse, Killed, CloseBoth
    <2> QED BY <1>a, <1>b, <1>c, <2>1
  <1>3. CASE Take
    BY <1>b, <1>c, <1>3 DEF Take
  <1>4. CASE Connect
    <2>1. pc = "forward" /\ pc' \in {"forward", "exited"} /\ host_sock = "none"
          /\ to_host' = to_host /\ from_host' = from_host
      BY <1>4 DEF Connect, ends
    <2> QED BY <1>a, <1>b, <1>c, <2>1 DEF Blamed
  <1>5. CASE Forward
    <2>1. pc = "forward" /\ pc' \in {"response", "ended", "killed"}
      BY <1>5 DEF Forward, Killed, After, CloseBoth
    <2>2. /\ from_host' = << >> /\ checkflag' = TRUE /\ handled' = handled
          /\ host_sock # "none" /\ to_host \in Seq(1 .. MaxRequests)
      BY <1>c, <1>5, <2>1, Lists DEF Forward, NewResponse
    <2>0. \A i \in 1 .. Len(from_host') : from_host'[i].request = handled'
      BY <2>2
    <2>3. CASE host_sock = "open"
      <3>1. to_host' = <<handled>>
        <4>1. to_host' = Append(to_host, handled) /\ to_host = << >>
          BY <1>c, <1>5, <2>1, <2>3 DEF Forward
        <4> QED BY <4>1
      <3>2. to_host' # << >> /\ to_host' = <<handled'>>
        BY <2>2, <3>1
      <3> QED BY <1>0, <1>a, <2>0, <2>1, <2>2, <3>2 DEF Paired
    <2>4. CASE host_sock # "open"
      <3>1. host_sock' # "open" /\ "host leaves" \in faults
        BY <1>5, <2>2, <2>4 DEF Forward, Killed, Written, Blamed
      <3>2. "host leaves" \in faults'
        BY <1>0, <3>1
      <3> QED BY <1>a, <2>0, <2>1, <2>2, <3>1, <3>2 DEF Paired
    <2> QED BY <2>3, <2>4
  <1>6. CASE Crash
    BY <1>a, <1>6 DEF Crash
  <1>7. CASE Copy
    <2>1. /\ pc = "response" /\ pc' \in {"response", "ended", "killed"}
          /\ from_host # << >> /\ from_host' = Tail(from_host) /\ handled' = handled
          /\ to_host' = to_host /\ host_sock' = host_sock /\ checkflag' = FALSE
      BY <1>7 DEF Copy, Read, Killed, After, CloseBoth, ends
    <2>2. /\ Head(from_host) = from_host[1] /\ 1 \in 1 .. Len(from_host)
          /\ Len(Tail(from_host)) = Len(from_host) - 1
          /\ \A i \in 1 .. Len(from_host) - 1 : Tail(from_host)[i] = from_host[i + 1]
      BY <2>1, Lists, DropFirst
    <2>3. \A i \in 1 .. Len(from_host) - 1 : i + 1 \in 1 .. Len(from_host)
      BY Lists
    <2>4. \A i \in 1 .. Len(from_host) : from_host[i].request = handled
      BY <2>1 DEF Paired
    <2>5. \A i \in 1 .. Len(from_host') : from_host'[i].request = handled'
      BY <2>1, <2>2, <2>3, <2>4
    <2>6. log_responsecode' = handled'
      <3>1. CASE First
        BY <1>7, <2>1, <2>2, <2>4, <3>1 DEF Copy
      <3>2. CASE ~ First
        BY <1>7, <2>1, <3>2 DEF Copy, First, Read, Paired
      <3> QED BY <3>1, <3>2
    <2>7. host_sock' = "open" => to_host' = << >>
      BY <2>1 DEF Paired
    <2> QED BY <1>a, <2>1, <2>5, <2>6, <2>7 DEF Paired
  <1>8. CASE EndResponse
    <2>1. /\ pc = "response" /\ pc' \in {"read", "ended"} /\ from_host' = << >>
          /\ to_host' = to_host /\ (host_sock # "open" \/ to_host = << >>)
          /\ host_sock' = ReadFrom(host_sock)
      BY <1>8 DEF EndResponse, Silent, CloseBoth, ends
    <2> QED BY <1>a, <1>b, <2>1 DEF ReadFrom
  <1>9. CASE EndConnection
    BY <1>a, <1>9 DEF EndConnection, CloseBoth
  <1>d. CASE UNCHANGED <<pc, handled, to_host, from_host, checkflag, log_responsecode>>
             /\ (host_sock' = "open" => host_sock = "open")
    <2> QED BY <1>0, <1>d DEF Paired
  <1>10. CASE \E kind \in Kind : Send(kind)
    BY <1>d, <1>10 DEF Send, flags
  <1>11. CASE LeaveBrowser
    BY <1>d, <1>11 DEF LeaveBrowser, Browser, ends, flags
  <1>12. CASE LeaveHost
    BY <1>d, <1>12 DEF LeaveHost, Host, ends, flags
  <1>13. CASE Answer
    <2>1. /\ pc' = pc /\ handled' = handled /\ checkflag' = checkflag
          /\ host_sock = "open" /\ to_host # << >> /\ host_sock' = host_sock
          /\ pc \in {"start", "read", "forward", "response"}
      BY <1>13 DEF Answer, flags, Over, TypeOK
    <2>2. pc = "response" /\ to_host = <<handled>> /\ checkflag /\ from_host = << >>
      BY <1>c, <2>1 DEF Paired
    <2>3. /\ handled \in 1 .. MaxRequests /\ Head(to_host) = handled
          /\ Tail(to_host) = << >>
      BY <2>2, Numbers DEF Counted
    <2>4. PICK a \in Answers(handled) : from_host' = from_host \o a
      BY <1>13, <2>3 DEF Answer
    <2>5. /\ a \in Seq(Segment) /\ Len(a) \in Nat \ {0}
          /\ \A i \in 1 .. Len(a) : a[i].request = handled
          /\ a[1].has = "headless" => "long header" \in faults
      BY <2>3, AnswerReads
    <2>6. from_host' = a /\ a # << >>
      BY <2>2, <2>4, <2>5, ConcatEmptySeq, EmptySeq
    <2>7. to_host' = << >>
      BY <1>13, <2>3 DEF Answer
    <2>8. checkflag'
      BY <2>1, <2>2
    <2> QED BY <1>0, <2>1, <2>2, <2>5, <2>6, <2>7, <2>8 DEF Paired
  <1>14. CASE Terminated
    BY <1>d, <1>14 DEF Terminated, vars
  <1> QED BY <1>1, <1>2, <1>3, <1>4, <1>5, <1>6, <1>7, <1>8, <1>9, <1>10, <1>11, <1>12,
             <1>13, <1>14 DEF Next, Thread, Others
\* A line that is added is the line of the request in hand, which had none.
LEMMA AddLine ==
  ASSUME TypeOK, NEW code \in 0 .. MaxRequests, handled' \in 1 .. MaxRequests,
         log' = Line(code), handled' \notin Logged
  PROVE  /\ OneLine => OneLine'
         /\ Logged' = Logged \cup {handled'}
         /\ \A i \in 1 .. Len(log') : log'[i] = [request |-> handled', code |-> code]
                                    \/ (i \in 1 .. Len(log) /\ log'[i] = log[i])
  <1>1. /\ Len(log') = Len(log) + 1 /\ Len(log) \in Nat
        /\ \A i \in 1 .. Len(log) : log'[i] = log[i]
        /\ log'[Len(log) + 1] = [request |-> handled', code |-> code]
    BY Writes, Lists
  <1> DEFINE n == Len(log)
             old == log
             new == log'
             r0 == handled'
  <1>2. /\ Len(new) = n + 1 /\ n \in Nat
        /\ \A i \in 1 .. n : new[i] = old[i]
        /\ new[n + 1] = [request |-> r0, code |-> code]
    BY <1>1
  <1>3. OneLine <=> \A i, k \in 1 .. n : old[i].request = old[k].request => i = k
    BY DEF OneLine
  <1>4. \A i \in 1 .. n : old[i].request # r0
    BY DEF Logged
  <1>5. Logged' = {new[i].request : i \in 1 .. Len(new)}
    BY DEF Logged
  <1>6. Logged = {old[i].request : i \in 1 .. n}
    BY DEF Logged
  <1> HIDE DEF n, old, new, r0
  <1>7. \A i \in 1 .. Len(new) : i = n + 1 \/ (i \in 1 .. n /\ new[i] = old[i])
    BY <1>2
  <1>8. n + 1 \in 1 .. Len(new) /\ \A i \in 1 .. n : i \in 1 .. Len(new)
    BY <1>2
  <1>9. new[n + 1].request = r0
    BY <1>2
  <1>10. OneLine => \A i, k \in 1 .. Len(new) : new[i].request = new[k].request => i = k
    BY <1>3, <1>4, <1>7, <1>9
  <1>11. Logged' = Logged \cup {r0}
    BY <1>2, <1>5, <1>6, <1>7, <1>8, <1>9
  <1>12. \A i \in 1 .. Len(new) : new[i] = [request |-> r0, code |-> code]
                                 \/ (i \in 1 .. n /\ new[i] = old[i])
    BY <1>2, <1>7
  <1>13. OneLine' <=> \A i, k \in 1 .. Len(new) : new[i].request = new[k].request => i = k
    BY DEF OneLine, new
  <1> QED BY <1>10, <1>11, <1>12, <1>13 DEF n, old, new, r0
\* A step leaves the log alone or adds the line of the request in hand, which had
\* none, and with the code that is due.
LEMMA LogStep ==
  ASSUME TypeOK, Counted, Blamed, Paired, Logging, Next
  PROVE  \/ log' = log
         \/ /\ handled' \in 1 .. MaxRequests /\ handled' \notin Logged
            /\ \E code \in 0 .. MaxRequests :
                 /\ log' = Line(code)
                 /\ faults \cap {"host leaves", "late"} = {} => code = handled'
  <1>1. CASE Refuse
    <2>1. handled' = handled + 1 /\ log' = Line(handled') /\ stream # NoRequest
      BY <1>1 DEF Refuse, Refused, NoRequest
    <2>2. PICK code : code = handled'
      OBVIOUS
    <2>3. handled' \in 1 .. MaxRequests
      BY <2>1, Numbers DEF Counted
    <2>4. code \in 0 .. MaxRequests /\ log' = Line(code)
      BY <2>1, <2>2, <2>3
    <2>5. \A r \in Logged : r # handled'
      BY <2>1, Numbers DEF Logging
    <2> QED BY <2>2, <2>3, <2>4, <2>5
  <1>2. CASE Copy
    <2> SUFFICES ASSUME log' # log
                 PROVE  /\ handled' \in 1 .. MaxRequests /\ handled' \notin Logged
                        /\ \E code \in 0 .. MaxRequests :
                             /\ log' = Line(code)
                             /\ faults \cap {"host leaves", "late"} = {} => code = handled'
      OBVIOUS
    <2>1. /\ log' = Line(log_responsecode') /\ log_responsecode' = Head(from_host).request
          /\ checkflag /\ from_host # << >> /\ pc = "response" /\ handled' = handled
      BY <1>2 DEF Copy, First, Read
    <2>2. PICK code : code = log_responsecode'
      OBVIOUS
    <2>3. /\ Head(from_host) \in Segment /\ Head(from_host) = from_host[1]
          /\ 1 \in 1 .. Len(from_host)
      BY <2>1, Lists, DropFirst
    <2>4. code \in 0 .. MaxRequests
      <3>1. Head(from_host).request \in 1 .. MaxRequests
        BY <2>3 DEF Segment
      <3> QED BY <2>1, <2>2, <3>1, Numbers
    <2>5. handled' \in 1 .. MaxRequests
      BY <2>1, Numbers DEF Counted
    <2>6. handled' \notin Logged
      BY <2>1 DEF Logging
    <2>7. faults \cap {"host leaves", "late"} = {} => code = handled'
      BY <2>1, <2>2, <2>3 DEF Paired
    <2> QED BY <2>1, <2>2, <2>4, <2>5, <2>6, <2>7
  <1>3. CASE EndResponse
    <2> SUFFICES ASSUME log' # log
                 PROVE  /\ handled' \in 1 .. MaxRequests /\ handled' \notin Logged
                        /\ \E code \in 0 .. MaxRequests :
                             /\ log' = Line(code)
                             /\ faults \cap {"host leaves", "late"} = {} => code = handled'
      OBVIOUS
    <2>1. /\ pc = "response" /\ handled' = handled /\ from_host = << >> /\ Silent
          /\ log' = Line(log_responsecode) /\ ~ has_contentlength_flag
      BY <1>3 DEF EndResponse
    <2>2. PICK code : code = log_responsecode
      OBVIOUS
    <2>3. code \in 0 .. MaxRequests /\ log' = Line(code)
      BY <2>1, <2>2, Numbers
    <2>4. handled' \in 1 .. MaxRequests
      BY <2>1, Numbers DEF Counted
    <2>5. handled' \notin Logged
      BY <2>1 DEF Logging
    <2>6. faults \cap {"host leaves", "late"} = {} => to_host = << >>
      BY <2>1 DEF Silent, Blamed
    <2>7. faults \cap {"host leaves", "late"} = {} => code = handled'
      BY <2>1, <2>2, <2>6 DEF Paired
    <2> QED BY <2>3, <2>4, <2>5, <2>7
  <1> QED BY <1>1, <1>2, <1>3 DEF Next, Thread, Others, Start, Take, Connect, Forward,
          Crash, EndConnection, Send, LeaveBrowser, Browser, LeaveHost, Host, Answer,
          Terminated, vars

\* So the lines stay the only ones of their requests, with their own codes.
LEMMA StepLines ==
  ASSUME IInv, Next
  PROVE  OneLine' /\ OwnCode'
  <1>0. faults' = faults
    BY FaultsStay
  <1>1. CASE log' = log
    BY <1>0, <1>1 DEF IInv, OneLine, OwnCode
  <1>2. CASE log' # log
    <2>1. /\ handled' \in 1 .. MaxRequests /\ handled' \notin Logged
          /\ \E code \in 0 .. MaxRequests :
               /\ log' = Line(code)
               /\ faults \cap {"host leaves", "late"} = {} => code = handled'
      BY <1>2, LogStep DEF IInv
    <2>2. PICK code \in 0 .. MaxRequests :
            /\ log' = Line(code)
            /\ faults \cap {"host leaves", "late"} = {} => code = handled'
      BY <2>1
    <2>3. /\ OneLine => OneLine'
          /\ \A i \in 1 .. Len(log') : log'[i] = [request |-> handled', code |-> code]
                                     \/ (i \in 1 .. Len(log) /\ log'[i] = log[i])
      BY <2>1, <2>2, AddLine DEF IInv
    <2>4. ASSUME faults' \cap {"host leaves", "late"} = {}, NEW i \in 1 .. Len(log')
          PROVE  log'[i].code = log'[i].request
      <3>1. code = handled'
        BY <1>0, <2>2, <2>4
      <3>2. CASE log'[i] = [request |-> handled', code |-> code]
        BY <3>1, <3>2
      <3>3. CASE i \in 1 .. Len(log) /\ log'[i] = log[i]
        BY <1>0, <2>4, <3>3 DEF IInv, OwnCode
      <3> QED BY <2>3, <3>2, <3>3
    <2> QED BY <2>3, <2>4 DEF IInv, OwnCode
  <1> QED BY <1>1, <1>2

\* The flags say whether the request in hand has its line.
LEMMA StepLogging ==
  ASSUME IInv, Next
  PROVE  Logging'
  <1> DEFINE Added == handled' \in 1 .. MaxRequests /\ Logged' = Logged \cup {handled'}
  <1>0. log' = log \/ Added
    <2>1. ASSUME NEW code \in 0 .. MaxRequests, log' = Line(code),
                 handled' \in 1 .. MaxRequests, handled' \notin Logged
          PROVE  Added
      BY <2>1, AddLine DEF IInv
    <2> QED BY <2>1, LogStep DEF IInv
  <1>00. log' = log => Logged' = Logged
    BY DEF Logged
  <1>n. /\ handled \in Nat /\ Logged \subseteq 1 .. handled
        /\ \A r \in 1 .. handled : r < handled => r \in Logged
    BY Numbers DEF IInv, Logging
  \* A step that reads no request and is not in a response.
  <1>a. ASSUME handled' = handled, log' = log, pc' \notin {"read", "forward", "response"}
        PROVE  Logging'
    BY <1>a, <1>n, <1>00 DEF Logging
  <1>b. ASSUME UNCHANGED <<pc, handled, has_contentlength_flag, checkflag, log>>
        PROVE  Logging'
    BY <1>b, <1>n, <1>00 DEF IInv, Logging
  <1>1. CASE Start
    <2>1. handled = 0 /\ handled' = 0 /\ log' = log /\ pc' \in {"read", "exited"}
      BY <1>1 DEF Start, IInv, Counted
    <2>2. Logged' = {}
      <3>1. 1 .. handled = {}
        BY <2>1
      <3> QED BY <1>n, <1>00, <2>1, <3>1
    <2> QED BY <2>1, <2>2 DEF Logging
  <1>2. CASE Refuse
    <2>1. /\ pc = "read" /\ pc' \in {"read", "ended", "killed"}
          /\ handled' = handled + 1 /\ log' = Line(handled')
      BY <1>2 DEF Refuse, Killed, CloseBoth
    <2>2. \A r \in 1 .. handled : r \in Logged
      BY <2>1 DEF IInv, Logging
    <2>3. Logged' = Logged \cup {handled'}
      <3>1. stream # NoRequest
        BY <1>2 DEF Refuse, Refused, NoRequest
      <3>2. handled' \in 1 .. MaxRequests
        BY <2>1, <3>1, Numbers DEF IInv, Counted
      <3>3. \A r \in Logged : r # handled'
        BY <1>n, <2>1
      <3>4. PICK code : code = handled'
        OBVIOUS
      <3>5. code \in 0 .. MaxRequests /\ log' = Line(code)
        BY <2>1, <3>2, <3>4
      <3> QED BY <3>2, <3>3, <3>5, AddLine DEF IInv
    <2>4. Logged' \subseteq 1 .. handled' /\ \A r \in 1 .. handled' : r \in Logged'
      BY <1>n, <2>1, <2>2, <2>3
    <2> QED BY <2>1, <2>4 DEF Logging
  <1>3. CASE Take
    <2>1. /\ pc = "read" /\ pc' = "forward" /\ handled' = handled + 1 /\ log' = log
      BY <1>3 DEF Take
    <2>2. \A r \in 1 .. handled : r \in Logged
      BY <2>1 DEF IInv, Logging
    <2>3. /\ Logged \subseteq 1 .. handled' /\ handled' \notin Logged
          /\ \A r \in 1 .. handled' : r < handled' => r \in Logged
      BY <1>n, <2>1, <2>2
    <2> QED BY <1>00, <2>1, <2>3 DEF Logging
  <1>4. CASE Connect
    BY <1>a, <1>b, <1>4 DEF Connect, flags
  <1>5. CASE Forward
    <2>1. /\ pc = "forward" /\ pc' \in {"response", "ended", "killed"}
          /\ handled' = handled /\ log' = log
          /\ checkflag' = TRUE /\ has_contentlength_flag' = FALSE
      BY <1>5 DEF Forward, NewResponse, Killed, After, CloseBoth
    <2>2. handled' \notin Logged'
      BY <1>00, <2>1 DEF IInv, Logging
    <2> QED BY <1>n, <1>00, <2>1, <2>2 DEF Logging
  <1>6. CASE Crash
    BY <1>a, <1>6 DEF Crash
  <1>7. CASE Copy
    <2>1. /\ pc = "response" /\ pc' \in {"response", "ended", "killed"}
          /\ handled' = handled /\ checkflag' = FALSE
      BY <1>7 DEF Copy, Read, Killed, After, CloseBoth
    <2>2. handled \in 1 .. handled
      BY <2>1, Numbers DEF IInv, Counted
    <2>3. handled' \in Logged' <=> has_contentlength_flag'
      <3>1. CASE First /\ has_contentlength_flag'
        <4>1. log' = Line(log_responsecode') /\ log_responsecode' = Head(from_host).request
              /\ from_host # << >>
          BY <1>7, <3>1 DEF Copy, First, Read
        <4>2. PICK code : code = log_responsecode'
          OBVIOUS
        <4>3. Head(from_host) \in Segment
          BY <4>1, Lists, DropFirst DEF IInv
        <4>4. code \in 0 .. MaxRequests /\ handled' \in 1 .. MaxRequests
          <5>1. Head(from_host).request \in 1 .. MaxRequests
            BY <4>3 DEF Segment
          <5> QED BY <2>1, <4>1, <4>2, <5>1, Numbers DEF IInv, Counted
        <4>5. handled' \notin Logged
          BY <2>1, <3>1 DEF First, IInv, Logging
        <4>6. Logged' = Logged \cup {handled'}
          BY <4>1, <4>2, <4>4, <4>5, AddLine DEF IInv
        <4> QED BY <3>1, <4>6
      <3>2. CASE ~ (First /\ has_contentlength_flag')
        <4>1. log' = log
          BY <1>7, <3>2 DEF Copy
        <4>2. has_contentlength_flag' <=> has_contentlength_flag
          BY <1>7, <3>2 DEF Copy
        <4>3. handled \in Logged <=> has_contentlength_flag
          BY <2>1 DEF IInv, Logging
        <4> QED BY <1>00, <2>1, <4>1, <4>2, <4>3
      <3> QED BY <3>1, <3>2
    <2>4. /\ Logged' \subseteq 1 .. handled'
          /\ \A r \in 1 .. handled' : r < handled' => r \in Logged'
      BY <1>0, <1>00, <1>n, <2>1, <2>2
    <2> QED BY <2>1, <2>3, <2>4 DEF Logging
  <1>8. CASE EndResponse
    <2>1. /\ pc = "response" /\ pc' \in {"read", "ended"} /\ handled' = handled
      BY <1>8 DEF EndResponse, CloseBoth
    <2>2. handled \in 1 .. handled /\ handled' \in 1 .. MaxRequests
      BY <2>1, Numbers DEF IInv, Counted
    <2>3. handled' \in Logged' /\ (Logged' = Logged \/ Logged' = Logged \cup {handled'})
      <3>1. CASE has_contentlength_flag
        <4>1. log' = log /\ handled \in Logged
          BY <1>8, <2>1, <3>1 DEF EndResponse, IInv, Logging
        <4> QED BY <1>00, <2>1, <4>1
      <3>2. CASE ~ has_contentlength_flag
        <4>1. log' = Line(log_responsecode)
          BY <1>8, <3>2 DEF EndResponse
        <4>2. handled' \notin Logged
          BY <2>1, <3>2 DEF IInv, Logging
        <4>3. PICK code : code = log_responsecode
          OBVIOUS
        <4>4. code \in 0 .. MaxRequests
          BY <4>3, Numbers DEF IInv
        <4>5. Logged' = Logged \cup {handled'}
          BY <2>2, <4>1, <4>2, <4>3, <4>4, AddLine DEF IInv
        <4> QED BY <4>5
      <3> QED BY <3>1, <3>2
    <2>4. Logged' \subseteq 1 .. handled' /\ \A r \in 1 .. handled' : r \in Logged'
      BY <1>n, <2>1, <2>2, <2>3
    <2> QED BY <2>1, <2>4 DEF Logging
  <1>9. CASE EndConnection
    BY <1>a, <1>9 DEF EndConnection, CloseBoth
  <1>10. CASE Others
    BY <1>b, <1>10 DEF Others, Send, LeaveBrowser, Browser, LeaveHost, Host, Answer, flags
  <1>11. CASE Terminated
    BY <1>b, <1>11 DEF Terminated, vars
  <1> QED BY <1>1, <1>2, <1>3, <1>4, <1>5, <1>6, <1>7, <1>8, <1>9, <1>10, <1>11
          DEF IInv, Next, Thread
-----------------------------------------------------------------------------
(* The theorems.                                                           *)

LEMMA InitInv == Init => IInv
  <1> SUFFICES ASSUME Init PROVE IInv
    OBVIOUS
  <1>1. /\ faults \in FaultSets /\ browser = "open" /\ host_sock = "none"
        /\ stream = NoRequest /\ sent = 0 /\ to_host = << >> /\ from_host = << >>
        /\ pc = "start" /\ log_responsecode = 0 /\ handled = 0
        /\ open = {"server_sock"} /\ log = << >> /\ copied = {}
        /\ persistent_connect = FALSE /\ checkflag = FALSE
        /\ has_contentlength_flag = FALSE
    BY DEF Init, Garbage
  <1>2. TypeOK
    <2>1. faults \subseteq Fault /\ sent \in 0 .. MaxRequests /\ handled \in 0 .. sent
          /\ log_responsecode \in 0 .. MaxRequests
      BY <1>1, MaxRequestsAssumption, FaultSetsAssumption
    <2>2. /\ to_host \in Seq(1 .. MaxRequests) /\ from_host \in Seq(Segment)
          /\ log \in Seq([request : 1 .. MaxRequests, code : 0 .. MaxRequests])
      BY <1>1
    <2>3. {persistent_connect, checkflag, has_contentlength_flag} \subseteq BOOLEAN
          /\ copied \subseteq (1 .. MaxRequests) \X (1 .. MaxRequests)
      BY <1>1
    <2> QED BY <1>1, <2>1, <2>2, <2>3 DEF TypeOK, Socket
  <1>3. Counted /\ Blamed /\ DownExplained /\ Paired /\ InStep
    BY <1>1 DEF Counted, Blamed, DownExplained, Paired, InStep
  <1>4. Len(log) = 0 /\ 1 .. Len(log) = {} /\ 1 .. handled = {}
    BY <1>1
  <1>5. Logged = {}
    BY <1>4 DEF Logged
  <1>6. Logging /\ OneLine /\ OwnCode
    BY <1>1, <1>4, <1>5 DEF Logging, OneLine, OwnCode
  <1> QED BY <1>2, <1>3, <1>6 DEF IInv

\* The parts of the invariant hold together in every reachable state.
THEOREM Invariance == Spec => []IInv
  <1>1. IInv /\ [Next]_vars => IInv'
    <2> SUFFICES ASSUME IInv, [Next]_vars PROVE IInv'
      OBVIOUS
    <2>1. CASE Next
      <3>1. TypeOK' /\ Counted' /\ Blamed' /\ Paired'
        BY <2>1, StepTypes, StepCounted, StepBlamed, StepPaired DEF IInv
      <3>2. DownExplained' /\ InStep'
        BY <2>1, StepDown, StepInStep DEF IInv
      <3>3. Logging' /\ OneLine' /\ OwnCode'
        BY <2>1, StepLogging, StepLines
      <3> QED BY <3>1, <3>2, <3>3 DEF IInv
    <2>2. CASE UNCHANGED vars
      <3>1. Logged' = Logged
        BY <2>2 DEF vars, Logged
      <3>2. TypeOK' /\ Counted'
        BY <2>2 DEF vars, IInv, TypeOK, Counted
      <3>3. Blamed' /\ DownExplained'
        BY <2>2 DEF vars, IInv, Blamed, Over, DownExplained
      <3>4. Paired'
        BY <2>2 DEF vars, IInv, Paired
      <3>5. InStep' /\ Logging'
        BY <2>2, <3>1 DEF vars, IInv, InStep, Logging
      <3>6. OneLine' /\ OwnCode'
        BY <2>2 DEF vars, IInv, OneLine, OwnCode
      <3> QED BY <3>2, <3>3, <3>4, <3>5, <3>6 DEF IInv
    <2> QED BY <2>1, <2>2
  <1> QED BY InitInv, <1>1, PTL DEF Spec

\* Every variable keeps to its type, whatever fails.
THEOREM TypeCorrect == Spec => []TypeOK
  <1>1. IInv => TypeOK
    BY DEF IInv
  <1> QED BY Invariance, <1>1, PTL

\* The lines of a request are the one it has, if any.
LEMMA LinesCount ==
  ASSUME IInv, NEW r
  PROVE  /\ r \in Logged => Lines(r) = 1
         /\ r \notin Logged => Lines(r) = 0
  <1> DEFINE I == {i \in DOMAIN log : log[i].request = r}
  <1>1. DOMAIN log = 1 .. Len(log)
    BY Lists, LenProperties DEF IInv
  <1>2. CASE r \in Logged
    <2>1. PICK i \in 1 .. Len(log) : log[i].request = r
      BY <1>2 DEF Logged
    <2>2. I = {i}
      BY <1>1, <2>1 DEF IInv, OneLine
    <2> QED BY <1>2, <2>2, FS_Singleton DEF Lines
  <1>3. CASE r \notin Logged
    <2>1. I = {}
      BY <1>1, <1>3 DEF Logged
    <2> QED BY <1>3, <2>1, FS_EmptySet DEF Lines
  <1> QED BY <1>2, <1>3

\* access.log: every request has one line, however its response ends, and the
\* line has its own code unless hosts leave or answer late.
THEOREM LoggedExactly == Spec => []LoggedOnce
  <1>1. IInv => LoggedOnce
    <2> SUFFICES ASSUME IInv PROVE LoggedOnce
      OBVIOUS
    <2>1. ASSUME NEW r \in 1 .. handled
          PROVE  /\ Lines(r) <= 1
                 /\ r < handled \/ pc = "read" => Lines(r) = 1
      <3>1. Lines(r) = 1 \/ Lines(r) = 0
        BY LinesCount
      <3>2. r < handled \/ pc = "read" => r \in Logged
        BY <2>1 DEF IInv, Logging
      <3> QED BY <3>1, <3>2, LinesCount
    <2>2. DOMAIN log = 1 .. Len(log)
      BY Lists, LenProperties DEF IInv
    <2> QED BY <2>1, <2>2 DEF LoggedOnce, IInv, OwnCode
  <1> QED BY Invariance, <1>1, PTL

\* Responses: the browser gets the answer to the request in hand.
THEOREM CopiedInStep == Spec => []InStep
  <1>1. IInv => InStep
    BY DEF IInv
  <1> QED BY Invariance, <1>1, PTL

\* The process of the proxy ends only of the causes that are listed.
THEOREM DownIsExplained == Spec => []DownExplained
  <1>1. IInv => DownExplained
    BY DEF IInv
  <1> QED BY Invariance, <1>1, PTL

-----------------------------------------------------------------------------
(* The main loop of the proxy, which is the chat server's too, and how it  *)
(* hands connections to threads: AcceptLoop, for any number of clients and *)
(* of descriptors, and for both programs.  First what descriptors stand    *)
(* for.                                                                    *)

\* Connections are told apart by the client and by the kind.
LEMMA Kinds ==
  ASSUME NEW c \in Clients, NEW d \in Clients
  PROVE  /\ Of(c) \in Connections /\ HostOf(c) \in Connections
         /\ Of(c) = Of(d) => c = d
         /\ HostOf(c) = HostOf(d) => c = d
         /\ Of(c) # HostOf(d)
         /\ Of(c)[1] = c /\ Of(c)[2] = "client"
  BY DEF Of, HostOf, Connections

\* What is not a connection is none.
LEMMA NoConnection ==
  Free \notin Connections /\ Reserved \notin Connections /\ Beyond \notin Connections
  BY NoClientAssumption DEF Free, Reserved, Beyond, Connections

\* A connection of the kind client is the one of its client.
LEMMA ClientOf ==
  ASSUME NEW e \in Connections, e[2] = "client"
  PROVE  e[1] \in Clients /\ e = Of(e[1])
  BY DEF Of, Connections

-----------------------------------------------------------------------------
(* Types.                                                                  *)

\* A thread reads from, and handles requests of, connections only.
Reading == \A c \in Clients : at[c] \in {"blocked", "handle"} => on[c] \in Connections

TypesInv == LoopTypes /\ Reading

\* The variables have their types from the start.
LEMMA InitTypes ==
  ASSUME LoopInit
  PROVE  TypesInv
  <1>1. program \in Program
    BY ProcessesAssumption DEF LoopInit
  <1>2. /\ fds \in [Fds -> {Free, Reserved, Beyond} \cup Connections]
        /\ on \in [Clients -> {Free} \cup Connections]
    BY DEF LoopInit
  <1>3. crossed \in BOOLEAN
    BY DEF LoopInit
  <1>4. /\ client \in [Clients -> {"away", "here", "quit", "gone", "left"}]
        /\ asking \subseteq Clients /\ overtaken \subseteq Clients
        /\ main \in {"call", "accept", "failed"}
        /\ server_fd \in 0 .. Limit
        /\ at \in [Clients -> {"none", "created", "ended"} \cup Loaded]
        /\ fd \in [Clients -> 0 .. Limit] /\ host \in [Clients -> 0 .. Limit]
    BY LimitAssumption DEF LoopInit
  <1>5. Reading
    BY DEF LoopInit, Reading
  <1> QED BY <1>1, <1>2, <1>3, <1>4, <1>5 DEF TypesInv, LoopTypes

\* A thread that ends, or goes on to close, leaves its variables with their types.
LEMMA LeaveTypes ==
  ASSUME TypesInv, NEW c \in Clients, Leave(c) \/ End(c)
  PROVE  /\ at' \in [Clients -> {"none", "created", "ended"} \cup Loaded]
         /\ fd' \in [Clients -> 0 .. Limit] /\ host' \in [Clients -> 0 .. Limit]
         /\ on' \in [Clients -> {Free} \cup Connections]
         /\ at'[c] \notin {"blocked", "handle"}
         /\ \A d \in Clients \ {c} : at'[d] = at[d] /\ on'[d] = on[d]
  BY LimitAssumption DEF TypesInv, LoopTypes, Leave, End, Go, Loaded

\* Every step keeps them.
LEMMA LoopStepTypes ==
  ASSUME TypesInv, [LoopNext]_loopVars
  PROVE  TypesInv'
  <1> USE DEF TypesInv, LoopTypes, Reading, Loaded, Running, At, Go,
              Keep, clients, thread, Fds
  <1>1. CASE CallAccept
    BY <1>1, LimitAssumption DEF CallAccept, Lowest, Overtake
  <1>2. ASSUME NEW c \in Clients, Accept(c) PROVE TypesInv'
    BY <1>2, Kinds DEF Accept, Overtake
  <1>3. ASSUME NEW c \in Clients, Load(c) PROVE TypesInv'
    BY <1>3 DEF Load
  <1>4. ASSUME NEW c \in Clients, CallRead(c) PROVE TypesInv'
    <2>1. CASE StandsFor(fd[c]) \in Connections
      <3>1. fd[c] \in Fds /\ fds[fd[c]] \in Connections
        BY <2>1, NoConnection DEF StandsFor
      <3> QED BY <1>4, <2>1, <3>1 DEF CallRead
    <2>2. CASE Leave(c)
      <3>1. UNCHANGED <<program, client, asking, main, server_fd, fds, overtaken, crossed>>
        BY <1>4 DEF CallRead
      <3> QED BY <2>2, <3>1, LeaveTypes
    <2> QED BY <1>4, <2>1, <2>2 DEF CallRead
  <1>5. ASSUME NEW c \in Clients, ReadRequest(c) PROVE TypesInv'
    BY <1>5 DEF ReadRequest
  <1>6. ASSUME NEW c \in Clients, ReadQuit(c) PROVE TypesInv'
    BY <1>6 DEF ReadQuit
  <1>7. ASSUME NEW c \in Clients, ReadEnd(c) PROVE TypesInv'
    BY <1>7, LeaveTypes DEF ReadEnd
  <1>8. ASSUME NEW c \in Clients, OpenHost(c) PROVE TypesInv'
    <2>1. HostOf(c) \in Connections
      BY Kinds
    <2>2. /\ fds' \in [Fds -> {Free, Reserved, Beyond} \cup Connections]
          /\ host' \in [Clients -> 0 .. Limit] /\ main' \in {"call", "accept", "failed"}
      <3>1. CASE Full /\ main' = "failed" /\ UNCHANGED <<fds, host>>
        BY <3>1
      <3>2. ASSUME NEW n \in Fds, fds' = [fds EXCEPT ![n] = HostOf(c)],
                   host' = [host EXCEPT ![c] = n], UNCHANGED main
            PROVE  /\ fds' \in [Fds -> {Free, Reserved, Beyond} \cup Connections]
                   /\ host' \in [Clients -> 0 .. Limit]
                   /\ main' \in {"call", "accept", "failed"}
        BY <2>1, <3>2, LimitAssumption
      <3> QED BY <1>8, <3>1, <3>2 DEF OpenHost
    <2>3. UNCHANGED <<program, clients, server_fd, at, fd, on, overtaken, crossed>>
      BY <1>8 DEF OpenHost
    <2> QED BY <2>2, <2>3
  <1>9. ASSUME NEW c \in Clients, Handle(c) PROVE TypesInv'
    BY <1>9 DEF Handle
  <1>10. ASSUME NEW c \in Clients, Close(c) PROVE TypesInv'
    <2>1. fds' \in [Fds -> {Free, Reserved, Beyond} \cup Connections]
      BY <1>10 DEF Close
    <2> QED BY <1>10, <2>1, LeaveTypes DEF Close
  <1>11. ASSUME NEW c \in Clients, Behave(c) PROVE TypesInv'
    BY <1>11 DEF Behave, Dial, Quit, Left, Ask, Moves
  <1>12. CASE UNCHANGED loopVars
    BY <1>12 DEF loopVars
  <1> QED BY <1>1, <1>2, <1>3, <1>4, <1>5, <1>6, <1>7, <1>8, <1>9, <1>10, <1>11, <1>12
          DEF LoopNext, Step

-----------------------------------------------------------------------------
(* The inductive invariant.                                                *)

\* A client has a descriptor only once it is accepted, and only one.
Fresh == \A c \in Clients, n \in Fds : fds[n] = Of(c) => at[c] # "none"
Once  == \A c \in Clients, m, n \in Fds :
           fds[m] = Of(c) /\ fds[n] = Of(c) => m = n

\* Who reads from a connection that still has a descriptor has this descriptor.
ReadsFrom ==
  \A c, d \in Clients : at[d] = "blocked" /\ on[d] = Of(c) =>
    /\ at[c] # "none"
    /\ \A n \in Fds : fds[n] = Of(c) => fd[d] = n

\* Once /quit has been read, somebody is about to close the descriptor.
Closing ==
  \A c \in Clients : client[c] = "gone" =>
    /\ at[c] # "none"
    /\ \A n \in Fds : fds[n] = Of(c) => \E d \in Clients : at[d] = "close" /\ fd[d] = n

\* A thread that was not overtaken keeps the descriptor of its connection until it
\* closes it; in the chat server, until its client is gone.
OwnThread ==
  \A c \in Clients \ overtaken, n \in Fds : fds[n] = Of(c) =>
    \/ at[c] = "created" /\ server_fd = n
    \/ at[c] \in Loaded /\ fd[c] = n /\ (at[c] = "blocked" => on[c] = Of(c))
    \/ at[c] = "ended" /\ program = "chat" /\ client[c] \in {"left", "gone"}

\* A socket to a host is that of a thread of the proxy.
Hosts ==
  \A c \in Clients, n \in Fds : fds[n] = HostOf(c) =>
    at[c] \in Loaded /\ host[c] = n /\ program = "proxy"

\* Nothing comes between a thread and its connections if none was overtaken.
Undisturbed ==
  overtaken = {} =>
    \A c \in Clients :
      /\ at[c] = "created" => StandsFor(server_fd) = Of(c)
      /\ at[c] \in Loaded => StandsFor(fd[c]) = Of(c)
      /\ host[c] # 0 => StandsFor(host[c]) = HostOf(c)
      /\ at[c] \in {"blocked", "handle"} => on[c] = Of(c)

\* Nor is a client told what another asked.
AnswersOwn == overtaken = {} => ~crossed

LoopInv == /\ TypesInv /\ Fresh /\ Once /\ ReadsFrom /\ Closing /\ OwnThread /\ Hosts
           /\ Undisturbed /\ AnswersOwn

\* At the start there is no descriptor and no thread.
LEMMA LoopInitInv ==
  ASSUME LoopInit
  PROVE  LoopInv
  <1>1. TypesInv
    BY InitTypes
  <1>2. Fresh /\ Once /\ Closing /\ OwnThread /\ Hosts
    BY Kinds, NoConnection DEF LoopInit, Fresh, Once, Closing, OwnThread, Hosts
  <1>3. ReadsFrom
    BY DEF LoopInit, ReadsFrom
  <1>4. Undisturbed /\ AnswersOwn
    BY DEF LoopInit, Undisturbed, AnswersOwn, Loaded
  <1> QED BY <1>1, <1>2, <1>3, <1>4 DEF LoopInv

\* Main: the descriptor of a client that was not overtaken stays in server_fd.
LEMMA CallAcceptInv == ASSUME LoopInv, TypesInv', CallAccept PROVE LoopInv'
  <1> USE DEF LoopInv, TypesInv, LoopTypes, CallAccept, clients, thread,
              Lowest, Overtake
  <1>1. \A n \in Fds, c \in Clients :
          /\ fds'[n] = Of(c) <=> fds[n] = Of(c)
          /\ fds'[n] = HostOf(c) <=> fds[n] = HostOf(c)
    BY Kinds, NoConnection
  <1>2. UNCHANGED <<clients, thread, program, crossed>>
    OBVIOUS
  <1>3. overtaken \subseteq overtaken'
    OBVIOUS
  <1>4. \/ UNCHANGED <<server_fd, overtaken>>
        \/ \A c \in Clients \ overtaken' : at[c] # "created"
    OBVIOUS
  <1>5. Fresh' /\ Once' /\ ReadsFrom' /\ Closing' /\ Hosts'
    BY <1>1, <1>2 DEF Fresh, Once, ReadsFrom, Closing, Hosts
  <1>6. OwnThread'
    BY <1>1, <1>2, <1>3, <1>4 DEF OwnThread
  <1>7. AnswersOwn'
    BY <1>2, <1>3 DEF AnswersOwn
  <1>8. Undisturbed'
    <2>1. \A n \in 0 .. Limit, c \in Clients :
            /\ StandsFor(n)' = Of(c) <=> StandsFor(n) = Of(c)
            /\ StandsFor(n)' = HostOf(c) <=> StandsFor(n) = HostOf(c)
      BY <1>1, Kinds, NoConnection DEF StandsFor
    <2> QED BY <1>2, <1>3, <1>4, <2>1 DEF Undisturbed
  <1> QED BY <1>5, <1>6, <1>7, <1>8

\* Main: a client gets a descriptor nobody else has, and every thread that has not
\* read server_fd is overtaken.
LEMMA AcceptInv == ASSUME LoopInv, TypesInv', NEW c \in Clients, Accept(c) PROVE LoopInv'
  <1> USE DEF LoopInv, TypesInv, LoopTypes, clients
  <1>1. PICK n \in Fds : /\ fds[n] = Reserved /\ fds' = [fds EXCEPT ![n] = Of(c)]
                         /\ server_fd' = n
    BY DEF Accept
  <1>2. /\ at[c] = "none" /\ at' = [at EXCEPT ![c] = "created"]
        /\ overtaken' = overtaken \cup {d \in Clients : at[d] = "created"}
        /\ UNCHANGED <<program, client, asking, fd, host, on, crossed>>
    BY DEF Accept, Waiting, Overtake
  <1>3. \A d \in Clients : fds[n] # Of(d) /\ fds[n] # HostOf(d)
    BY <1>1, Kinds, NoConnection
  <1>4. \A m \in Fds \ {n} : fds'[m] = fds[m] /\ fds'[m] # Of(c)
    BY <1>1, <1>2 DEF Fresh
  <1>5. \A d \in Clients : (fds'[n] = Of(d) <=> d = c) /\ fds'[n] # HostOf(d)
    BY <1>1, Kinds
  <1>6. Fresh' /\ Once'
    BY <1>2, <1>3, <1>4, <1>5 DEF Fresh, Once
  <1>7. ReadsFrom'
    BY <1>2, <1>4, <1>5 DEF ReadsFrom
  <1>8. Closing'
    BY <1>2, <1>4, <1>5 DEF Closing
  <1>9. OwnThread'
    BY <1>1, <1>2, <1>4, <1>5 DEF OwnThread
  <1>10. Hosts'
    BY <1>2, <1>4, <1>5 DEF Hosts, Loaded
  <1>11. AnswersOwn'
    BY <1>2 DEF AnswersOwn
  <1>12. Undisturbed'
    <2>1. \A d \in Clients, m \in 0 .. Limit :
            /\ StandsFor(m) = Of(d) => StandsFor(m)' = Of(d)
            /\ StandsFor(m) = HostOf(d) => StandsFor(m)' = HostOf(d)
      BY <1>1, <1>3, <1>4, Kinds, NoConnection DEF StandsFor
    <2>2. StandsFor(server_fd)' = Of(c)
      BY <1>1, <1>5 DEF StandsFor
    <2> QED BY <1>2, <2>1, <2>2 DEF Undisturbed, Loaded
  <1> QED BY <1>6, <1>7, <1>8, <1>9, <1>10, <1>11, <1>12

\* A thread that was not overtaken reads the descriptor of its connection.
LEMMA LoadInv == ASSUME LoopInv, TypesInv', NEW c \in Clients, Load(c) PROVE LoopInv'
  <1> USE DEF LoopInv, TypesInv, LoopTypes
  <1>1. /\ at[c] = "created" /\ at' = [at EXCEPT ![c] = "read"]
        /\ fd' = [fd EXCEPT ![c] = server_fd]
        /\ UNCHANGED <<program, client, server_fd, fds, host, on, overtaken, crossed>>
    BY DEF Load, At, Go, Keep, clients
  <1>2. Fresh' /\ Once' /\ ReadsFrom' /\ Closing' /\ Hosts'
    BY <1>1 DEF Fresh, Once, ReadsFrom, Closing, Hosts, Loaded
  <1>3. OwnThread'
    BY <1>1 DEF OwnThread, Loaded
  <1>4. Undisturbed' /\ AnswersOwn'
    BY <1>1 DEF Undisturbed, AnswersOwn, Loaded, StandsFor
  <1> QED BY <1>2, <1>3, <1>4

\* A request is read from the thread's connection.
LEMMA ReadRequestInv ==
  ASSUME LoopInv, TypesInv', NEW c \in Clients, ReadRequest(c)
  PROVE  LoopInv'
  <1> USE DEF LoopInv, TypesInv, LoopTypes
  <1>1. /\ at[c] = "blocked" /\ at' = [at EXCEPT ![c] = "handle"]
        /\ UNCHANGED <<program, client, server_fd, fds, fd, host, on, overtaken, crossed>>
    BY DEF ReadRequest, At, Go, Keep
  <1>2. Fresh' /\ Once' /\ ReadsFrom' /\ Closing' /\ Hosts'
    BY <1>1 DEF Fresh, Once, ReadsFrom, Closing, Hosts, Loaded
  <1>3. OwnThread'
    BY <1>1 DEF OwnThread, Loaded
  <1>4. Undisturbed' /\ AnswersOwn'
    BY <1>1 DEF Undisturbed, AnswersOwn, Loaded, StandsFor
  <1> QED BY <1>2, <1>3, <1>4

\* It is answered there, if the descriptor still stands for it.
LEMMA AnswerInv == ASSUME LoopInv, TypesInv', NEW c \in Clients, Handle(c) PROVE LoopInv'
  <1> USE DEF LoopInv, TypesInv, LoopTypes
  <1>1. CASE program = "proxy" /\ Full
    <2>1. UNCHANGED <<program, client, server_fd, fds, at, fd, host, on, overtaken, crossed>>
      BY <1>1 DEF Handle, Keep, clients
    <2> QED BY <2>1 DEF Fresh, Once, ReadsFrom, Closing, OwnThread, Hosts, Undisturbed,
                        AnswersOwn, StandsFor
  <1>2. CASE ~(program = "proxy" /\ Full)
    <2>1. /\ at[c] = "handle" /\ at'[c] \in {"read", "close"}
          /\ at' = [at EXCEPT ![c] = at'[c]] /\ on' = [on EXCEPT ![c] = Free]
          /\ UNCHANGED <<program, client, server_fd, fds, fd, host, overtaken>>
      BY <1>2 DEF Handle, At, Go, Keep, clients
    <2>2. Fresh' /\ Once' /\ ReadsFrom' /\ Closing' /\ Hosts'
      BY <2>1 DEF Fresh, Once, ReadsFrom, Closing, Hosts, Loaded
    <2>3. OwnThread'
      BY <2>1 DEF OwnThread, Loaded
    <2>4. Undisturbed'
      BY <2>1 DEF Undisturbed, Loaded, StandsFor
    <2>5. AnswersOwn'
      <3>1. overtaken = {} => on[c] = Of(c) /\ StandsFor(fd[c]) = on[c]
        BY <2>1 DEF Undisturbed, Loaded
      <3>2. Of(c)[2] = "client"
        BY Kinds
      <3>3. crossed' = (crossed \/ on[c][2] # "client" \/ StandsFor(fd[c]) # on[c])
        BY <1>2 DEF Handle
      <3> QED BY <2>1, <3>1, <3>2, <3>3 DEF AnswersOwn
    <2> QED BY <2>2, <2>3, <2>4, <2>5
  <1> QED BY <1>1, <1>2

\* What clients do by themselves.
LEMMA BehaveInv == ASSUME LoopInv, TypesInv', NEW c \in Clients, Behave(c) PROVE LoopInv'
  <1> USE DEF LoopInv, TypesInv, LoopTypes
  <1>1. /\ UNCHANGED <<program, server_fd, fds, at, fd, host, on, overtaken, crossed>>
        /\ \A d \in Clients : /\ client'[d] = "gone" <=> client[d] = "gone"
                              /\ client[d] = "left" => client'[d] = "left"
    <2>1. UNCHANGED <<program, server_fd, fds, at, fd, host, on, overtaken, crossed>>
      BY DEF Behave, Dial, Quit, Left, Ask, Moves, thread
    <2>2. \/ UNCHANGED client
          \/ /\ client[c] \in {"away", "here"} /\ client'[c] \in {"here", "quit", "left"}
             /\ \A d \in Clients \ {c} : client'[d] = client[d]
      BY DEF Behave, Dial, Quit, Left, Ask, Moves
    <2> QED BY <2>1, <2>2
  <1>2. Fresh' /\ Once' /\ ReadsFrom' /\ Closing' /\ Hosts'
    BY <1>1 DEF Fresh, Once, ReadsFrom, Closing, Hosts
  <1>3. OwnThread'
    BY <1>1 DEF OwnThread
  <1>4. Undisturbed' /\ AnswersOwn'
    BY <1>1 DEF Undisturbed, AnswersOwn, StandsFor
  <1> QED BY <1>2, <1>3, <1>4

\* What is true of Leave whatever it is called for: a thread of the proxy goes on to
\* close, one of the chat server is gone.
LEMMA LeaveStep ==
  ASSUME TypesInv, NEW c \in Clients, Leave(c)
  PROVE  /\ at'[c] = IF program = "chat" THEN "ended" ELSE "close"
         /\ program # "chat" => UNCHANGED <<fd, host>>
         /\ \A d \in Clients \ {c} :
              at'[d] = at[d] /\ fd'[d] = fd[d] /\ host'[d] = host[d] /\ on'[d] = on[d]
         /\ host'[c] \in {host[c], 0}
  BY DEF TypesInv, LoopTypes, Leave, End, Go

\* What a thread leaves behind that goes without close: in the chat server, nothing
\* that it still had.
LEMMA LeaveInv ==
  ASSUME LoopInv, TypesInv', NEW c \in Clients, Leave(c), at[c] \in {"read", "blocked"},
         UNCHANGED <<program, client, server_fd, fds, overtaken, crossed>>,
         program = "chat" /\ c \notin overtaken =>
           \A n \in Fds : fds[n] = Of(c) => client[c] \in {"left", "gone"}
  PROVE  LoopInv'
  <1> USE DEF LoopInv, TypesInv, LoopTypes, Program
  <1>1. Fresh' /\ Once'
    BY LeaveStep DEF Fresh, Once
  <1>2. ReadsFrom'
    BY LeaveStep DEF ReadsFrom
  <1>3. Closing'
    BY LeaveStep DEF Closing
  <1>4. OwnThread'
    BY LeaveStep DEF OwnThread, Loaded
  <1>5. Hosts'
    BY LeaveStep DEF Hosts, Loaded
  <1>6. Undisturbed'
    BY LeaveStep DEF Undisturbed, Loaded, StandsFor
  <1>7. AnswersOwn'
    BY DEF AnswersOwn
  <1> QED BY <1>1, <1>2, <1>3, <1>4, <1>5, <1>6, <1>7

\* A thread that was not overtaken reads from its own connection.
LEMMA ReadInv == ASSUME LoopInv, TypesInv', NEW c \in Clients, CallRead(c) PROVE LoopInv'
  <1> USE DEF LoopInv, TypesInv, LoopTypes
  <1>1. at[c] = "read" /\ UNCHANGED <<program, client, server_fd, fds, overtaken, crossed>>
    BY DEF CallRead, At, Keep, clients
  <1>2. CASE StandsFor(fd[c]) \in Connections
    <2>1. fd[c] \in Fds
      BY <1>2, NoConnection DEF StandsFor
    <2>2. /\ at' = [at EXCEPT ![c] = "blocked"] /\ on' = [on EXCEPT ![c] = fds[fd[c]]]
          /\ UNCHANGED <<fd, host>>
      BY <1>2 DEF CallRead, Go
    <2>3. Fresh' /\ Once' /\ Closing' /\ Hosts'
      BY <1>1, <2>2 DEF Fresh, Once, Closing, Hosts, Loaded
    <2>4. ReadsFrom'
      BY <1>1, <2>1, <2>2 DEF ReadsFrom, Fresh, Once
    <2>5. OwnThread'
      BY <1>1, <2>1, <2>2 DEF OwnThread, Loaded
    <2>6. Undisturbed'
      BY <1>1, <2>1, <2>2 DEF Undisturbed, Loaded, StandsFor
    <2>7. AnswersOwn'
      BY <1>1 DEF AnswersOwn
    <2> QED BY <2>3, <2>4, <2>5, <2>6, <2>7
  <1>3. CASE StandsFor(fd[c]) \notin Connections
    <2>1. Leave(c)
      BY <1>3 DEF CallRead
    <2>2. c \notin overtaken => \A n \in Fds : fds[n] # Of(c)
      BY <1>1, <1>3, Kinds DEF OwnThread, Loaded, StandsFor
    <2> QED BY <1>1, <2>1, <2>2, LeaveInv
  <1> QED BY <1>2, <1>3

\* The request to quit is read by who will close the descriptor it came from.
LEMMA ReadQuitInv ==
  ASSUME LoopInv, TypesInv', NEW c \in Clients, ReadQuit(c)
  PROVE  LoopInv'
  <1> USE DEF LoopInv, TypesInv, LoopTypes
  <1> DEFINE x == on[c][1]
  <1>1. /\ at[c] = "blocked" /\ at' = [at EXCEPT ![c] = "close"]
        /\ client' = [client EXCEPT ![x] = "gone"] /\ on' = [on EXCEPT ![c] = Free]
        /\ UNCHANGED <<program, server_fd, fds, fd, host, overtaken, crossed>>
    BY DEF ReadQuit, At, Go, Keep
  <1>2. x \in Clients /\ on[c] = Of(x)
    BY <1>1, ClientOf DEF ReadQuit, Reading
  <1>3. Fresh' /\ Once' /\ ReadsFrom' /\ Hosts'
    BY <1>1 DEF Fresh, Once, ReadsFrom, Hosts, Loaded
  <1>4. Closing'
    <2>1. /\ at'[x] # "none"
          /\ \A n \in Fds : fds[n] = Of(x) => at'[c] = "close" /\ fd[c] = n
      BY <1>1, <1>2 DEF ReadsFrom
    <2> QED BY <1>1, <1>2, <2>1 DEF Closing
  <1>5. OwnThread'
    BY <1>1, <1>2 DEF OwnThread, Loaded
  <1>6. Undisturbed'
    BY <1>1 DEF Undisturbed, Loaded, StandsFor
  <1>7. AnswersOwn'
    BY <1>1 DEF AnswersOwn
  <1> QED BY <1>3, <1>4, <1>5, <1>6, <1>7

\* The end of a connection.
LEMMA ReadEndInv == ASSUME LoopInv, TypesInv', NEW c \in Clients, ReadEnd(c) PROVE LoopInv'
  <1> USE DEF LoopInv, TypesInv, LoopTypes
  <1>1. /\ at[c] = "blocked" /\ Leave(c)
        /\ UNCHANGED <<program, client, server_fd, fds, overtaken, crossed>>
        /\ on[c][2] = "client" => Ended(c)
    BY DEF ReadEnd, At, Keep, clients
  <1>2. ASSUME program = "chat", c \notin overtaken, NEW n \in Fds, fds[n] = Of(c)
        PROVE  client[c] \in {"left", "gone"}
    <2>1. on[c] = Of(c)
      BY <1>1, <1>2 DEF OwnThread, Loaded
    <2> QED BY <1>1, <1>2, <2>1, Kinds DEF Ended
  <1> QED BY <1>1, <1>2, LeaveInv

\* A descriptor for the host is one nobody has.
LEMMA ConnectInv == ASSUME LoopInv, TypesInv', NEW c \in Clients, OpenHost(c) PROVE LoopInv'
  <1> USE DEF LoopInv, TypesInv, LoopTypes
  <1>1. /\ at[c] = "handle" /\ program = "proxy" /\ host[c] = 0
        /\ UNCHANGED <<program, client, server_fd, at, fd, on, overtaken, crossed>>
    BY DEF OpenHost, At, Keep, clients
  <1>2. CASE UNCHANGED <<fds, host>>
    BY <1>1, <1>2 DEF Fresh, Once, ReadsFrom, Closing, OwnThread, Hosts, Undisturbed,
                      AnswersOwn, StandsFor
  <1>3. ASSUME NEW n \in Fds, fds[n] = Free, fds' = [fds EXCEPT ![n] = HostOf(c)],
               host' = [host EXCEPT ![c] = n]
        PROVE  LoopInv'
    <2>1. \A d \in Clients : /\ fds[n] # Of(d) /\ fds[n] # HostOf(d)
                            /\ fds'[n] # Of(d)
      BY <1>3, Kinds, NoConnection
    <2>2. \A d \in Clients : fds'[n] = HostOf(d) => d = c
      BY <1>3, Kinds
    <2>3. \A m \in Fds \ {n} : fds'[m] = fds[m]
      BY <1>3
    <2>4. Fresh' /\ Once'
      BY <1>1, <2>1, <2>3 DEF Fresh, Once
    <2>5. ReadsFrom' /\ Closing'
      BY <1>1, <2>1, <2>3 DEF ReadsFrom, Closing
    <2>6. OwnThread'
      BY <1>1, <2>1, <2>3 DEF OwnThread
    <2>7. Hosts'
      <3>1. host'[c] = n /\ \A d \in Clients \ {c} : host'[d] = host[d]
        BY <1>3
      <3>2. \A m \in Fds \ {n} : fds[m] # HostOf(c)
        BY <1>1, LimitAssumption DEF Hosts, Fds
      <3> QED BY <1>1, <2>2, <2>3, <3>1, <3>2 DEF Hosts, Loaded
    <2>8. Undisturbed'
      <3>1. \A d \in Clients, m \in 0 .. Limit :
              /\ StandsFor(m) = Of(d) => StandsFor(m)' = Of(d)
              /\ StandsFor(m) = HostOf(d) => StandsFor(m)' = HostOf(d)
        BY <2>1, <2>3 DEF StandsFor
      <3>2. StandsFor(n)' = HostOf(c)
        BY <1>3 DEF StandsFor
      <3> QED BY <1>1, <1>3, <3>1, <3>2 DEF Undisturbed
    <2>9. AnswersOwn'
      BY <1>1 DEF AnswersOwn
    <2> QED BY <2>4, <2>5, <2>6, <2>7, <2>8, <2>9
  <1> QED BY <1>2, <1>3 DEF OpenHost, Lowest

\* What a thread closes is nobody else's, unless a thread was overtaken.
LEMMA CloseInv == ASSUME LoopInv, TypesInv', NEW c \in Clients, Close(c) PROVE LoopInv'
  <1> USE DEF LoopInv, TypesInv, LoopTypes
  <1>1. /\ at[c] = "close" /\ at' = [at EXCEPT ![c] = "ended"]
        /\ fd' = [fd EXCEPT ![c] = 0] /\ host' = [host EXCEPT ![c] = 0]
        /\ on' = [on EXCEPT ![c] = Free]
        /\ UNCHANGED <<program, client, server_fd, overtaken, crossed>>
    BY DEF Close, At, End, Go, Keep, clients
  <1>2. \A n \in Fds : IF n \in {fd[c], host[c]} /\ fds[n] \in Connections
                            THEN fds'[n] = Free ELSE fds'[n] = fds[n]
    BY DEF Close
  <1>3. \A n \in Fds, d \in Clients :
          /\ fds'[n] = Of(d) => fds[n] = Of(d) /\ n \notin {fd[c], host[c]}
          /\ fds'[n] = HostOf(d) => fds[n] = HostOf(d) /\ n \notin {fd[c], host[c]}
    BY <1>2, Kinds, NoConnection
  <1>4. Fresh' /\ Once'
    BY <1>1, <1>3 DEF Fresh, Once
  <1>5. ReadsFrom'
    BY <1>1, <1>3 DEF ReadsFrom
  <1>6. Closing'
    BY <1>1, <1>3 DEF Closing
  <1>7. OwnThread'
    BY <1>1, <1>3 DEF OwnThread, Loaded
  <1>8. Hosts'
    BY <1>1, <1>3 DEF Hosts, Loaded
  <1>9. Undisturbed'
    <2> SUFFICES ASSUME overtaken = {}
                 PROVE  Undisturbed'
      BY <1>1 DEF Undisturbed
    <2>1. /\ StandsFor(fd[c]) = Of(c)
          /\ host[c] # 0 => StandsFor(host[c]) = HostOf(c)
      BY <1>1 DEF Undisturbed, Loaded
    <2>2. \A d \in Clients \ {c}, m \in 0 .. Limit :
            /\ StandsFor(m) = Of(d) => StandsFor(m)' = Of(d)
            /\ StandsFor(m) = HostOf(d) => StandsFor(m)' = HostOf(d)
      <3>1. \A d \in Clients \ {c} :
              /\ Of(d) # Of(c) /\ Of(d) # HostOf(c)
              /\ HostOf(d) # Of(c) /\ HostOf(d) # HostOf(c)
        BY Kinds
      <3>2. \A d \in Clients \ {c}, m \in Fds :
              fds[m] = Of(d) \/ fds[m] = HostOf(d) => fds'[m] = fds[m]
        <4>1. \A m \in Fds : /\ m = fd[c] => fds[m] = Of(c)
                             /\ m = host[c] => fds[m] = HostOf(c)
          <5>1. 0 \notin Fds
            BY LimitAssumption DEF Fds
          <5> QED BY <2>1, <5>1 DEF StandsFor
        <4> QED BY <1>2, <3>1, <4>1
      <3>3. \A d \in Clients : Of(d) # Free /\ HostOf(d) # Free
        BY Kinds, NoConnection
      <3> QED BY <3>2, <3>3 DEF StandsFor
    <2> QED BY <1>1, <2>2 DEF Undisturbed, Loaded
  <1>10. AnswersOwn'
    BY <1>1 DEF AnswersOwn
  <1> QED BY <1>4, <1>5, <1>6, <1>7, <1>8, <1>9, <1>10

\* Every step keeps the invariant.
LEMMA LoopStepInv == LoopInv /\ [LoopNext]_loopVars => LoopInv'
  <1> SUFFICES ASSUME LoopInv, [LoopNext]_loopVars PROVE LoopInv'
    OBVIOUS
  <1>1. TypesInv'
    BY LoopStepTypes DEF LoopInv
  <1>2. CASE UNCHANGED loopVars
    BY <1>2 DEF loopVars, thread, clients, LoopInv, TypesInv, LoopTypes, Reading,
                Fresh, Once, ReadsFrom, Closing, OwnThread, Hosts, Undisturbed, AnswersOwn,
                StandsFor
  <1>3. CASE CallAccept
    BY <1>1, <1>3, CallAcceptInv
  <1>4. ASSUME NEW c \in Clients, Accept(c) \/ Behave(c) PROVE LoopInv'
    BY <1>1, <1>4, AcceptInv, BehaveInv
  <1>5. ASSUME NEW c \in Clients, Step(c) PROVE LoopInv'
    BY <1>1, <1>5, LoadInv, ReadInv, ReadRequestInv, ReadQuitInv, ReadEndInv, ConnectInv,
       AnswerInv, CloseInv DEF Step
  <1> QED BY <1>2, <1>3, <1>4, <1>5 DEF LoopNext

\* The invariant says of every descriptor what keeps it in use.
LEMMA InvHeld == LoopInv => LeaksExplained
  <1> SUFFICES ASSUME LoopInv, NEW n \in Fds PROVE Held(n)
    BY DEF LeaksExplained
  <1> USE DEF LoopInv, TypesInv, LoopTypes
  <1>1. CASE fds[n] \in {Free, Reserved, Beyond}
    BY <1>1 DEF Held
  <1>2. ASSUME NEW c \in Clients, fds[n] = HostOf(c) PROVE Held(n)
    BY <1>2 DEF Hosts, Held
  <1>3. ASSUME NEW c \in Clients, fds[n] = Of(c) PROVE Held(n)
    <2>1. CASE c \in overtaken
      BY <1>3, <2>1 DEF Held
    <2>2. CASE client[c] = "gone"
      BY <1>3, <2>2 DEF Closing, Held, Loaded
    <2>3. CASE c \notin overtaken /\ client[c] # "gone"
      BY <1>3, <2>3 DEF OwnThread, Held
    <2> QED BY <2>1, <2>2, <2>3
  <1>4. fds[n] \in Connections => \E c \in Clients : fds[n] \in {Of(c), HostOf(c)}
    BY DEF Connections, Of, HostOf
  <1> QED BY <1>1, <1>2, <1>3, <1>4

-----------------------------------------------------------------------------
(* The theorems.                                                           *)

\* Variables keep their types.
THEOREM Typed == LoopSpec => []LoopTypes
  <1>1. LoopInit => TypesInv
    BY InitTypes
  <1>2. TypesInv /\ [LoopNext]_loopVars => TypesInv'
    BY LoopStepTypes
  <1>3. TypesInv => LoopTypes
    BY DEF TypesInv
  <1> QED BY <1>1, <1>2, <1>3, PTL DEF LoopSpec

\* As long as no thread is overtaken, each has its own connection from its first
\* read to its close (client_handler, thread_handler), and answers go to who asked.
THEOREM ThreadsApart == LoopSpec => []OwnConnection
  <1>1. LoopInv => OwnConnection
    BY DEF LoopInv, Undisturbed, AnswersOwn, OwnConnection
  <1> QED BY <1>1, LoopInitInv, LoopStepInv, PTL DEF LoopSpec

\* Whatever the order of accepts and threads, a descriptor in use has a thread, or
\* is that of a client that left without /quit, or of one that was overtaken.
THEOREM DescriptorsExplained == LoopSpec => []LeaksExplained
  <1> QED BY LoopInitInv, LoopStepInv, InvHeld, PTL DEF LoopSpec
=============================================================================
