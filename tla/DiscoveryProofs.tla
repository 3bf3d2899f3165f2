-------------------------- MODULE DiscoveryProofs ---------------------------
(***************************************************************************)
(* Proofs about how the HW4 client finds its servers, for every list of    *)
(* servers, whichever of them have the file and whatever goes wrong.       *)
(***************************************************************************)
EXTENDS Discovery, ListLemmas

-----------------------------------------------------------------------------
(* The inductive invariant.                                                *)

\* The server main waits for, and the command it sent.
Current == server_info_list[t]
Awaiting == pc \in {"await handshake", "await query"}
Sent == IF pc = "await handshake" THEN "HSK" ELSE "CHK"

\* While main waits it waits for a listed server; it asks for the file at the
\* head of the list.
Pointed ==
  /\ Awaiting \/ pc \in {"decide", "downloading"} => Listed
  /\ pc \in {"query", "await query", "decide", "downloading"} => t = 1

\* Nothing is on its way from s, nor will be.
SilentAt(s) == responses[s] = << >> /\ (s \notin alive \/ requests[s] = << >>)

\* One request is on its way to the current server, or its answer is on the
\* way back, or neither.
OneAnswer ==
  LET a == Current
  IN  \/ SilentAt(a)
      \/ responses[a] = << >> /\ requests[a] = <<Sent>>
      \/ /\ a \notin alive \/ requests[a] = << >>
         /\ Len(responses[a]) = 1
         /\ responses[a][1].cmd = Sent /\ responses[a][1].from = a

\* Unless answers come late nothing is left over from an earlier question.
NothingStray ==
  "late" \notin faults =>
    IF Awaiting THEN OneAnswer /\ \A s \in Servers \ {Current} : SilentAt(s)
                ELSE Silent

\* The servers main has passed in its first loop have answered.
PassedAnswered ==
  "late" \notin faults =>
    /\ pc \in {"handshake", "await handshake"} =>
         \A i \in 1 .. Len(server_info_list) : i < t => server_info_list[i] \in answered
    /\ pc \in {"query", "await query", "decide", "downloading"} =>
         \A i \in 1 .. Len(server_info_list) : server_info_list[i] \in answered
    /\ pc \in {"decide", "downloading"} => read_buf.from = Current

\* A question to a server is never lost when nothing but servers fails.
StillAsked ==
  faults \subseteq {"die"} =>
    /\ alive \subseteq Range(server_info_list)
    /\ Awaiting => requests[Current] # << >> \/ responses[Current] # << >>

IInv == TypeOK /\ Pointed /\ NothingStray /\ PassedAnswered /\ StillAsked
-----------------------------------------------------------------------------
(* Types, and where main points.                                           *)

\* The list of servers is one, and t is an index of it or the one behind it.
LEMMA ListType ==
  ASSUME TypeOK
  PROVE  /\ server_info_list \in Seq(Servers)
         /\ Len(server_info_list) \in Nat
         /\ DOMAIN server_info_list = 1 .. Len(server_info_list)
         /\ t \in Nat \ {0} /\ t <= Len(server_info_list) + 1
         /\ \A i \in 1 .. Len(server_info_list) : server_info_list[i] \in Servers
  <1>1. server_info_list \in Seq(Servers) /\ t \in 1 .. Len(server_info_list) + 1
    BY DEF TypeOK
  <1>2. /\ Len(server_info_list) \in Nat
        /\ DOMAIN server_info_list = 1 .. Len(server_info_list)
        /\ \A i \in 1 .. Len(server_info_list) : server_info_list[i] \in Servers
    BY <1>1, LenProperties, ElementOfSeq
  <1> QED BY <1>1, <1>2

\* What main finds and what it leaves when it drops the t-th server.
LEMMA DropCurrent ==
  ASSUME TypeOK, Listed, NEW list, list = RemoveAt(server_info_list, t)
  PROVE  /\ list \in Seq(Servers) /\ Len(list) = Len(server_info_list) - 1
         /\ t \in 1 .. Len(list) + 1
         /\ \A i \in 1 .. Len(list) :
              list[i] = IF i < t THEN server_info_list[i] ELSE server_info_list[i + 1]
  <1>1. Len(server_info_list) \in Nat /\ t \in 1 .. Len(server_info_list)
    BY ListType DEF Listed
  <1>2. /\ list \in Seq(Servers) /\ Len(list) = Len(server_info_list) - 1
        /\ \A i \in 1 .. Len(server_info_list) - 1 :
             list[i] = IF i < t THEN server_info_list[i] ELSE server_info_list[i + 1]
    BY <1>1, ListType, RemoveItem
  <1> QED BY <1>1, <1>2

\* A listed index is one of a server.
LEMMA CurrentIsServer ==
  ASSUME TypeOK, Listed
  PROVE  /\ Len(server_info_list) \in Nat /\ t \in 1 .. Len(server_info_list)
         /\ DOMAIN server_info_list = 1 .. Len(server_info_list)
         /\ Current \in Servers
  <1>1. Len(server_info_list) \in Nat /\ t \in 1 .. Len(server_info_list)
    BY ListType DEF Listed
  <1> QED BY <1>1, ListType DEF Current

\* The answer of a server is a response with the command of the request and
\* the sender's own address.
LEMMA AnswerForm ==
  ASSUME TypeOK, NEW s \in Servers, Answer(s)
  PROVE  /\ Head(requests[s]) \in {"HSK", "CHK"}
         /\ requests' = [requests EXCEPT ![s] = Tail(@)]
         /\ \E r \in Response :
              /\ r.cmd = Head(requests[s]) /\ r.from = s
              /\ responses' = [responses EXCEPT ![s] = Append(@, r)]
  <1> DEFINE cmd  == Head(requests[s])
             flag == IF cmd = "HSK" THEN "zero"
                     ELSE IF s \in HasFile THEN "one" ELSE "minus one"
             r    == [cmd |-> cmd, have_file_flag |-> flag, from |-> s]
  <1>1. requests[s] \in Seq({"HSK", "CHK"}) /\ requests[s] # << >>
    BY DEF TypeOK, Answer
  <1>2. cmd \in {"HSK", "CHK"}
    BY <1>1, HeadTailProperties
  <1>3. r \in Response /\ r.cmd = cmd /\ r.from = s
    BY <1>2 DEF Response
  <1>4. /\ requests' = [requests EXCEPT ![s] = Tail(@)]
        /\ responses' = [responses EXCEPT ![s] = Append(@, r)]
    BY DEF Answer
  <1> QED BY <1>2, <1>3, <1>4

\* The variables keep their types, and main its place in the list.
LEMMA StepTypes == TypeOK /\ Pointed /\ [Next]_vars => TypeOK' /\ Pointed'
  <1> SUFFICES ASSUME TypeOK, Pointed, [Next]_vars PROVE TypeOK' /\ Pointed'
    OBVIOUS
  <1>0. Len(server_info_list) \in Nat /\ t \in Nat \ {0} /\ t <= Len(server_info_list) + 1
    BY ListType
  <1> USE DEF Awaiting, Listed
  <1>1. ASSUME NEW cmd \in {"HSK", "CHK"}, Listed, Send(cmd)
        PROVE  requests' \in [Servers -> Seq({"HSK", "CHK"})]
    <2>1. server_info_list[t] \in Servers
      BY <1>1, CurrentIsServer DEF Current
    <2>2. Append(requests[server_info_list[t]], cmd) \in Seq({"HSK", "CHK"})
      BY <2>1, AppendProperties DEF TypeOK
    <2> QED BY <1>1, <2>1, <2>2 DEF Send, TypeOK
  <1>2. ASSUME NEW s \in Servers, responses[s] # << >>
        PROVE  /\ Head(responses[s]) \in Response
               /\ [responses EXCEPT ![s] = Tail(@)] \in [Servers -> Seq(Response)]
    BY <1>2, HeadTailProperties DEF TypeOK
  <1>3. ASSUME NEW s \in Servers, requests[s] # << >>
        PROVE  /\ Head(requests[s]) \in {"HSK", "CHK"}
               /\ [requests EXCEPT ![s] = Tail(@)] \in [Servers -> Seq({"HSK", "CHK"})]
    BY <1>3, HeadTailProperties DEF TypeOK
  <1>4. CASE SendHandshake
    BY <1>1, <1>4 DEF SendHandshake, TypeOK, Pointed, Over
  <1>5. CASE SendQuery
    BY <1>1, <1>5 DEF SendQuery, TypeOK, Pointed, Over
  <1>6. ASSUME NEW s \in Servers, ReadHandshake(s) PROVE TypeOK' /\ Pointed'
    <2>1. t' \in 1 .. Len(server_info_list) + 1
      <3>1. t <= Len(server_info_list) /\ t' \in {t, t + 1}
        BY <1>6 DEF ReadHandshake, Pointed
      <3> QED BY <1>0, <3>1
    <2> QED BY <1>2, <1>6, <2>1 DEF ReadHandshake, TypeOK, Pointed, Over
  <1>7. ASSUME NEW s \in Servers, ReadQuery(s) PROVE TypeOK' /\ Pointed'
    BY <1>2, <1>7 DEF ReadQuery, TypeOK, Pointed, Over
  <1>8. CASE MissHandshake \/ MissQuery
    <2>1. Listed /\ server_info_list' = RemoveAt(server_info_list, t) /\ t' = t
      BY <1>8 DEF MissHandshake, MissQuery, Pointed
    <2>2. server_info_list' \in Seq(Servers) /\ t \in 1 .. Len(server_info_list') + 1
      BY <2>1, DropCurrent
    <2> QED BY <1>8, <2>1, <2>2 DEF MissHandshake, MissQuery, net, TypeOK, Pointed, Over
  <1>9. CASE EndHandshakes
    BY <1>0, <1>9 DEF EndHandshakes, net, TypeOK, Pointed, Over
  <1>10. CASE GiveUp \/ Decide
    BY <1>10 DEF GiveUp, Decide, net, TypeOK, Pointed, Over
  <1>11. ASSUME NEW s \in Servers, Answer(s) PROVE TypeOK' /\ Pointed'
    <2>1. PICK r \in Response : responses' = [responses EXCEPT ![s] = Append(@, r)]
      BY <1>11, AnswerForm
    <2>2. responses' \in [Servers -> Seq(Response)]
      <3>1. Append(responses[s], r) \in Seq(Response)
        BY AppendProperties DEF TypeOK
      <3> QED BY <2>1, <3>1 DEF TypeOK
    <2> QED BY <1>3, <1>11, <2>2 DEF Answer, TypeOK, Pointed
  <1>12. ASSUME NEW s \in Servers, LoseRequest(s) \/ LoseResponse(s) \/ Die(s)
         PROVE  TypeOK' /\ Pointed'
    BY <1>2, <1>3, <1>12 DEF LoseRequest, LoseResponse, Die, TypeOK, Pointed
  <1>13. CASE UNCHANGED vars
    BY <1>13 DEF vars, TypeOK, Pointed
  <1> QED
    BY <1>4, <1>5, <1>6, <1>7, <1>8, <1>9, <1>10, <1>11, <1>12, <1>13
    DEF Next, Main, Terminated
-----------------------------------------------------------------------------
(* What is on its way.                                                     *)

\* Main asks the current server when nothing is on its way.
LEMMA AskOne ==
  ASSUME TypeOK, Listed, Silent, NEW cmd \in {"HSK", "CHK"}, Send(cmd),
         UNCHANGED <<server_info_list, t, responses, alive>>, cmd = Sent'
  PROVE  OneAnswer' /\ \A s \in Servers \ {Current'} : SilentAt(s)'
  <1> DEFINE a == Current
  <1>1. a \in Servers /\ Current' = a
    BY CurrentIsServer DEF Current
  <1>2. \A s \in Servers : requests'[s] = IF s = a THEN Append(requests[a], cmd)
                                         ELSE requests[s]
    BY <1>1 DEF Send, TypeOK, Current
  <1> HIDE DEF a
  <1>3. \A s \in Servers \ {a} : SilentAt(s)'
    BY <1>2 DEF Silent, SilentAt
  <1>4. OneAnswer'
    <2>1. CASE a \notin alive
      BY <1>1, <2>1 DEF OneAnswer, SilentAt, Silent
    <2>2. CASE a \in alive
      <3>1. requests[a] = << >> /\ responses'[a] = << >>
        BY <1>1, <2>2 DEF Silent
      <3>2. requests'[a] = <<cmd>>
        BY <1>1, <1>2, <3>1
      <3> QED BY <1>1, <3>1, <3>2 DEF OneAnswer
    <2> QED BY <2>1, <2>2
  <1> QED BY <1>1, <1>3, <1>4

\* Unless answers come late, a response that main reads is the answer of the
\* current server to the question main asked, and it was the only one.
LEMMA AnswerIsOwn ==
  ASSUME TypeOK, Pointed, NothingStray, "late" \notin faults, Awaiting,
         NEW s \in Servers, responses[s] # << >>,
         responses' = [responses EXCEPT ![s] = Tail(@)],
         UNCHANGED <<requests, alive>>
  PROVE  /\ s = Current
         /\ Head(responses[s]).cmd = Sent /\ Head(responses[s]).from = s
         /\ Silent'
  <1>1. s = Current /\ OneAnswer /\ \A u \in Servers \ {s} : SilentAt(u)
    BY DEF NothingStray, SilentAt
  <1>2. /\ Len(responses[s]) = 1 /\ responses[s][1].cmd = Sent
        /\ responses[s][1].from = s /\ (s \notin alive \/ requests[s] = << >>)
    BY <1>1 DEF OneAnswer, SilentAt
  <1>3. responses[s] \in Seq(Response) /\ responses \in [Servers -> Seq(Response)]
    BY DEF TypeOK
  <1>4. Head(responses[s]) = responses[s][1] /\ Tail(responses[s]) = << >>
    BY <1>2, <1>3, TakeOnly
  <1>5. \A u \in Servers : responses'[u] = IF u = s THEN << >> ELSE responses[u]
    BY <1>3, <1>4
  <1>6. Silent'
    BY <1>1, <1>2, <1>5 DEF Silent, SilentAt
  <1> QED BY <1>1, <1>2, <1>4, <1>6

\* A receive that times out although nothing comes late leaves nothing behind.
LEMMA MissIsSilent ==
  ASSUME "late" \in faults \/ Silent, UNCHANGED <<faults, responses, requests, alive>>,
         ~Awaiting'
  PROVE  NothingStray'
  BY DEF NothingStray, Silent

\* A round of a server, a loss or a death keeps a single question single.
LEMMA NetworkStray ==
  ASSUME TypeOK, Pointed, NothingStray, NEW s \in Servers,
         Answer(s) \/ LoseRequest(s) \/ LoseResponse(s) \/ Die(s)
  PROVE  NothingStray'
  <1> SUFFICES ASSUME "late" \notin faults PROVE NothingStray'
    BY DEF NothingStray, Answer, LoseRequest, LoseResponse, Die
  <1>0. /\ UNCHANGED <<faults, pc, server_info_list, t>>
        /\ Current' = Current /\ Sent' = Sent /\ (Awaiting' <=> Awaiting)
    BY DEF Answer, LoseRequest, LoseResponse, Die, Current, Sent, Awaiting
  <1>1. \A u \in Servers : requests[u] \in Seq({"HSK", "CHK"}) /\ responses[u] \in Seq(Response)
    BY DEF TypeOK
  <1>2. ASSUME NEW u \in Servers, u # s \/ SilentAt(u), SilentAt(u) PROVE SilentAt(u)'
    BY <1>2 DEF Answer, LoseRequest, LoseResponse, Die, SilentAt, TypeOK
  <1>3. ASSUME Awaiting, OneAnswer, Current \in Servers PROVE OneAnswer'
    <2> DEFINE a == Current
    <2>1. CASE SilentAt(a)
      BY <1>0, <1>2, <1>3, <2>1 DEF OneAnswer
    <2>2. CASE a # s
      <3>1. /\ requests'[a] = requests[a] /\ responses'[a] = responses[a]
            /\ a \in alive' <=> a \in alive
        BY <1>3, <2>2 DEF Answer, LoseRequest, LoseResponse, Die, TypeOK
      <3> QED BY <1>0, <1>3, <3>1 DEF OneAnswer, SilentAt
    <2>3. CASE a = s /\ responses[a] = << >> /\ requests[a] = <<Sent>>
      <3>1. Head(requests[s]) = Sent /\ Tail(requests[s]) = << >>
        BY <2>3
      <3>2. CASE Answer(s)
        <4>1. /\ requests'[s] = << >>
              /\ \E r : /\ responses'[s] = Append(<< >>, r)
                        /\ r.cmd = Sent /\ r.from = s
          <5>1. PICK r \in Response :
                  /\ r.cmd = Sent /\ r.from = s
                  /\ responses' = [responses EXCEPT ![s] = Append(@, r)]
            BY <3>1, <3>2, AnswerForm
          <5>2. requests' = [requests EXCEPT ![s] = Tail(@)] /\ s \in Servers
            BY <3>2 DEF Answer
          <5>3. /\ requests \in [Servers -> Seq({"HSK", "CHK"})]
                /\ responses \in [Servers -> Seq(Response)]
            BY DEF TypeOK
          <5>4. requests'[s] = << >> /\ responses'[s] = Append(<< >>, r)
            BY <2>3, <3>1, <5>1, <5>2, <5>3
          <5> QED BY <5>1, <5>4
        <4> QED BY <1>0, <2>3, <4>1 DEF OneAnswer
      <3>3. CASE LoseRequest(s)
        <4>1. requests'[s] = << >> /\ responses'[s] = << >>
          BY <2>3, <3>1, <3>3 DEF LoseRequest, TypeOK
        <4> QED BY <1>0, <2>3, <4>1 DEF OneAnswer, SilentAt
      <3>4. CASE LoseResponse(s)
        BY <2>3, <3>4 DEF LoseResponse
      <3>5. CASE Die(s)
        BY <1>0, <2>3, <3>5 DEF Die, OneAnswer
      <3> QED BY <3>2, <3>3, <3>4, <3>5
    <2>4. CASE /\ a = s /\ (a \notin alive \/ requests[a] = << >>)
               /\ Len(responses[a]) = 1
               /\ responses[a][1].cmd = Sent /\ responses[a][1].from = a
      <3>1. responses[s] # << >> /\ Tail(responses[s]) = << >>
        BY <1>1, <2>4, TakeOnly
      <3>2. CASE LoseResponse(s)
        <4>1. requests' = requests /\ responses'[s] = << >> /\ alive' = alive
          BY <3>1, <3>2 DEF LoseResponse, TypeOK
        <4> QED BY <1>0, <2>4, <4>1 DEF OneAnswer, SilentAt
      <3>3. CASE LoseRequest(s) \/ Die(s)
        <4>1. /\ responses' = responses
              /\ s \notin alive' \/ requests'[s] = << >>
          BY <2>4, <3>3 DEF LoseRequest, Die, TypeOK
        <4> QED BY <1>0, <2>4, <4>1 DEF OneAnswer
      <3>4. CASE Answer(s)
        BY <2>4, <3>4 DEF Answer
      <3> QED BY <3>2, <3>3, <3>4
    <2> QED BY <1>3, <2>1, <2>2, <2>3, <2>4 DEF OneAnswer
  <1>4. CASE Awaiting
    <2>1. Current \in Servers /\ OneAnswer /\ \A u \in Servers \ {Current} : SilentAt(u)
      BY <1>4, CurrentIsServer DEF NothingStray, Pointed
    <2>2. OneAnswer' /\ \A u \in Servers \ {Current'} : SilentAt(u)'
      BY <1>0, <1>2, <1>3, <1>4, <2>1
    <2> QED BY <1>0, <1>4, <2>2 DEF NothingStray
  <1>5. CASE ~Awaiting
    <2>1. \A u \in Servers : SilentAt(u)
      BY <1>5 DEF NothingStray, Silent, SilentAt
    <2> QED BY <1>0, <1>2, <1>5, <2>1 DEF NothingStray, Silent, SilentAt
  <1> QED BY <1>4, <1>5
\* No step of main or of the rest leaves a stray answer.
LEMMA StepStray ==
  ASSUME TypeOK, Pointed, NothingStray, [Next]_vars
  PROVE  NothingStray'
  <1> SUFFICES ASSUME "late" \notin faults, faults' = faults PROVE NothingStray'
    BY DEF NothingStray, Next, Main, Terminated, vars, net, SendHandshake, ReadHandshake,
           MissHandshake, EndHandshakes, SendQuery, ReadQuery, MissQuery, GiveUp, Decide,
           Answer, LoseRequest, LoseResponse, Die
  <1>1. CASE SendHandshake
    <2>1. Silent /\ Listed
      BY <1>1 DEF SendHandshake, NothingStray, Awaiting
    <2>2. OneAnswer' /\ \A s \in Servers \ {Current'} : SilentAt(s)'
      BY <1>1, <2>1, AskOne DEF SendHandshake, Sent
    <2> QED BY <1>1, <2>2 DEF SendHandshake, NothingStray, Awaiting
  <1>2. CASE SendQuery
    <2>1. Silent /\ Listed
      BY <1>2 DEF SendQuery, NothingStray, Awaiting
    <2>2. OneAnswer' /\ \A s \in Servers \ {Current'} : SilentAt(s)'
      BY <1>2, <2>1, AskOne DEF SendQuery, Sent
    <2> QED BY <1>2, <2>2 DEF SendQuery, NothingStray, Awaiting
  <1>3. ASSUME NEW s \in Servers, ReadHandshake(s) \/ ReadQuery(s) PROVE NothingStray'
    <2>1. Silent'
      BY <1>3, AnswerIsOwn DEF ReadHandshake, ReadQuery, Awaiting
    <2>2. ~Awaiting'
      BY <1>3 DEF ReadHandshake, ReadQuery, Awaiting
    <2> QED BY <2>1, <2>2 DEF NothingStray
  <1>4. CASE MissHandshake \/ MissQuery
    <2>1. ~Awaiting'
      BY <1>4 DEF MissHandshake, MissQuery, Awaiting
    <2> QED BY <1>4, <2>1, MissIsSilent DEF MissHandshake, MissQuery, net
  <1>5. CASE EndHandshakes \/ GiveUp \/ Decide
    <2>1. Silent /\ ~Awaiting'
      BY <1>5 DEF EndHandshakes, GiveUp, Decide, NothingStray, Awaiting
    <2> QED BY <1>5, <2>1, MissIsSilent DEF EndHandshakes, GiveUp, Decide, net
  <1>6. ASSUME NEW s \in Servers, Answer(s) \/ LoseRequest(s) \/ LoseResponse(s) \/ Die(s)
        PROVE  NothingStray'
    BY <1>6, NetworkStray
  <1>7. CASE UNCHANGED vars
    BY <1>7
    DEF vars, NothingStray, Awaiting, OneAnswer, SilentAt, Silent, Current, Sent
  <1> QED
    BY <1>1, <1>2, <1>3, <1>4, <1>5, <1>6, <1>7 DEF Next, Main, Terminated

-----------------------------------------------------------------------------
(* What main learns.                                                       *)

\* Every step keeps the servers main has passed, and what it read, answered.
LEMMA StepPassed ==
  ASSUME TypeOK, Pointed, NothingStray, PassedAnswered, [Next]_vars
  PROVE  PassedAnswered'
  <1> SUFFICES ASSUME "late" \notin faults, faults' = faults PROVE PassedAnswered'
    BY DEF PassedAnswered, Next, Main, Terminated, vars, net, SendHandshake, ReadHandshake,
           MissHandshake, EndHandshakes, SendQuery, ReadQuery, MissQuery, GiveUp, Decide,
           Answer, LoseRequest, LoseResponse, Die
  <1>0. Len(server_info_list) \in Nat /\ t \in Nat \ {0} /\ t <= Len(server_info_list) + 1
    BY ListType
  <1>1. CASE SendHandshake \/ SendQuery
    BY <1>1 DEF SendHandshake, SendQuery, PassedAnswered
  <1>2. ASSUME NEW s \in Servers, ReadHandshake(s) PROVE PassedAnswered'
    <2>1. s = Current /\ Head(responses[s]).cmd = "HSK"
      BY <1>2, AnswerIsOwn DEF ReadHandshake, Awaiting, Sent
    <2>2. t' = t + 1 /\ answered' = answered \cup {server_info_list[t]}
      BY <1>2, <2>1 DEF ReadHandshake, Current
    <2>3. \A i \in 1 .. Len(server_info_list) :
            i < t + 1 => server_info_list[i] \in answered'
      <3>1. \A i \in 1 .. Len(server_info_list) : i < t => server_info_list[i] \in answered
        BY <1>2 DEF ReadHandshake, PassedAnswered
      <3> QED BY <1>0, <2>2, <3>1
    <2> QED BY <1>2, <2>2, <2>3 DEF ReadHandshake, PassedAnswered
  <1>3. ASSUME NEW s \in Servers, ReadQuery(s) PROVE PassedAnswered'
    <2>1. s = Current /\ Head(responses[s]).from = s
      BY <1>3, AnswerIsOwn DEF ReadQuery, Awaiting
    <2>2. read_buf'.from = Current'
      BY <1>3, <2>1 DEF ReadQuery, Current
    <2> QED BY <1>3, <2>2 DEF ReadQuery, PassedAnswered
  <1>4. CASE MissHandshake \/ MissQuery
    <2>1. Listed /\ server_info_list' = RemoveAt(server_info_list, t)
      BY <1>4 DEF MissHandshake, MissQuery, Pointed, Awaiting
    <2>2. /\ Len(server_info_list') = Len(server_info_list) - 1
          /\ \A i \in 1 .. Len(server_info_list') :
               server_info_list'[i] = IF i < t THEN server_info_list[i]
                                               ELSE server_info_list[i + 1]
      BY <2>1, DropCurrent
    <2>3. CASE MissHandshake
      <3>1. \A i \in 1 .. Len(server_info_list') :
              i < t => server_info_list'[i] \in answered
        <4>1. \A i \in 1 .. Len(server_info_list) : i < t => server_info_list[i] \in answered
          BY <2>3 DEF MissHandshake, PassedAnswered
        <4> QED BY <1>0, <2>2, <4>1
      <3> QED BY <2>3, <3>1 DEF MissHandshake, PassedAnswered
    <2>4. CASE MissQuery
      <3>1. \A i \in 1 .. Len(server_info_list') : server_info_list'[i] \in answered
        <4>1. \A i \in 1 .. Len(server_info_list) : server_info_list[i] \in answered
          BY <2>4 DEF MissQuery, PassedAnswered
        <4> QED BY <1>0, <2>2, <4>1
      <3> QED BY <2>4, <3>1 DEF MissQuery, PassedAnswered
    <2> QED BY <1>4, <2>3, <2>4
  <1>5. CASE EndHandshakes
    <2>1. \A i \in 1 .. Len(server_info_list) : server_info_list[i] \in answered
      BY <1>0, <1>5 DEF EndHandshakes, Listed, PassedAnswered
    <2> QED BY <1>5, <2>1 DEF EndHandshakes, net, PassedAnswered
  <1>6. CASE GiveUp \/ Decide
    BY <1>6 DEF GiveUp, Decide, net, PassedAnswered, Current
  <1>7. CASE UNCHANGED <<faults, server_info_list, t, pc, read_buf, answered>>
    BY <1>7 DEF PassedAnswered, Current
  <1> QED
    BY <1>1, <1>2, <1>3, <1>4, <1>5, <1>6, <1>7
    DEF Next, Main, Terminated, vars, Answer, LoseRequest, LoseResponse, Die

-----------------------------------------------------------------------------
(* Who is dropped.                                                         *)

\* A receive that times out with nothing late drops the t-th server: it is
\* dead if its question is still there.
LEMMA DropDead ==
  ASSUME TypeOK, Pointed, StillAsked, faults \subseteq {"die"}, Awaiting, Silent,
         server_info_list' = RemoveAt(server_info_list, t), alive' = alive
  PROVE  alive' \subseteq Range(server_info_list')
  <1>0. Listed /\ Current \in Servers /\ t \in 1 .. Len(server_info_list)
    BY CurrentIsServer DEF Pointed
  <1>1. Current \notin alive
    BY <1>0 DEF StillAsked, Silent
  <1>2. /\ Len(server_info_list) \in Nat
        /\ server_info_list' \in Seq(Servers)
        /\ Len(server_info_list') = Len(server_info_list) - 1
        /\ \A i \in 1 .. Len(server_info_list') :
             server_info_list'[i] = IF i < t THEN server_info_list[i]
                                             ELSE server_info_list[i + 1]
    BY <1>0, DropCurrent, ListType
  <1>3. Range(server_info_list') = {server_info_list'[i] : i \in 1 .. Len(server_info_list')}
    BY <1>2, RangeInSet
  <1>4. ASSUME NEW s \in alive PROVE s \in Range(server_info_list')
    <2>1. PICK i \in 1 .. Len(server_info_list) : server_info_list[i] = s
      <3>1. Range(server_info_list) = {server_info_list[i] : i \in 1 .. Len(server_info_list)}
        BY ListType, RangeInSet
      <3> QED BY <3>1 DEF StillAsked
    <2>2. i # t
      BY <1>1, <2>1 DEF Current
    <2>3. CASE i < t
      BY <1>0, <1>2, <1>3, <2>1, <2>3
    <2>4. CASE t < i
      <3>1. i - 1 \in 1 .. Len(server_info_list') /\ server_info_list'[i - 1] = s
        BY <1>0, <1>2, <2>1, <2>4
      <3> QED BY <1>3, <3>1
    <2> QED BY <1>0, <1>2, <2>2, <2>3, <2>4
  <1> QED BY <1>4

\* Every step keeps a living server on the list, and its question unlost.
LEMMA StepAsked ==
  ASSUME TypeOK, Pointed, StillAsked, [Next]_vars
  PROVE  StillAsked'
  <1> SUFFICES ASSUME faults \subseteq {"die"}, faults' = faults PROVE StillAsked'
    BY DEF StillAsked, Next, Main, Terminated, vars, net, SendHandshake, ReadHandshake,
           MissHandshake, EndHandshakes, SendQuery, ReadQuery, MissQuery, GiveUp, Decide,
           Answer, LoseRequest, LoseResponse, Die
  <1>0. "late" \notin faults /\ "lose" \notin faults
    OBVIOUS
  <1>1. CASE SendHandshake \/ SendQuery
    <2>1. Current \in Servers /\ Listed
      BY <1>1, CurrentIsServer DEF SendHandshake, SendQuery
    <2>2. Current' = Current /\ \E cmd \in {"HSK", "CHK"} : Send(cmd)
      BY <1>1 DEF SendHandshake, SendQuery, Current
    <2>3. requests'[Current] # << >>
      <3>1. PICK cmd \in {"HSK", "CHK"} : requests'[Current] = Append(requests[Current], cmd)
        BY <2>1, <2>2 DEF Send, Current, TypeOK
      <3>2. requests[Current] \in Seq({"HSK", "CHK"})
        BY <2>1 DEF TypeOK
      <3>3. Append(requests[Current], cmd) # << >>
        BY <3>2, AppendProperties
      <3> QED BY <3>1, <3>3
    <2> QED BY <1>1, <2>2, <2>3 DEF SendHandshake, SendQuery, StillAsked
  <1>2. ASSUME NEW s \in Servers, ReadHandshake(s) \/ ReadQuery(s) PROVE StillAsked'
    BY <1>2 DEF ReadHandshake, ReadQuery, StillAsked, Awaiting
  <1>3. CASE MissHandshake \/ MissQuery
    <2>1. /\ Awaiting /\ Silent /\ alive' = alive
          /\ server_info_list' = RemoveAt(server_info_list, t)
      BY <1>0, <1>3 DEF MissHandshake, MissQuery, net, Awaiting
    <2>2. alive' \subseteq Range(server_info_list')
      BY <2>1, DropDead
    <2> QED BY <1>3, <2>2 DEF MissHandshake, MissQuery, StillAsked, Awaiting
  <1>4. CASE EndHandshakes \/ GiveUp \/ Decide
    BY <1>4 DEF EndHandshakes, GiveUp, Decide, net, StillAsked, Awaiting
  <1>5. ASSUME NEW s \in Servers, Answer(s) PROVE StillAsked'
    <2>1. /\ UNCHANGED <<pc, server_info_list, t, alive>>
          /\ Current' = Current /\ (Awaiting' <=> Awaiting)
      BY <1>5 DEF Answer, Current, Awaiting
    <2>2. ASSUME NEW u \in Servers, requests[u] # << >> \/ responses[u] # << >>
          PROVE  requests'[u] # << >> \/ responses'[u] # << >>
      <3>1. CASE u = s
        <4>1. PICK r \in Response : responses' = [responses EXCEPT ![s] = Append(@, r)]
          BY <1>5, AnswerForm
        <4>2. responses \in [Servers -> Seq(Response)]
          BY DEF TypeOK
        <4>3. responses'[s] = Append(responses[s], r) /\ responses[s] \in Seq(Response)
          BY <4>1, <4>2
        <4>4. Append(responses[s], r) # << >>
          BY <4>3, AppendProperties
        <4> QED BY <3>1, <4>3, <4>4
      <3>2. CASE u # s
        BY <1>5, <2>2, <3>2 DEF Answer, TypeOK
      <3> QED BY <3>1, <3>2
    <2>3. Awaiting => Current \in Servers
      BY CurrentIsServer DEF Pointed
    <2> QED BY <2>1, <2>2, <2>3 DEF StillAsked
  <1>6. ASSUME NEW s \in Servers, Die(s) PROVE StillAsked'
    BY <1>6 DEF Die, StillAsked, Awaiting, Current
  <1>7. CASE UNCHANGED vars
    BY <1>7 DEF vars, StillAsked, Awaiting, Current
  <1> QED
    BY <1>0, <1>1, <1>2, <1>3, <1>4, <1>5, <1>6, <1>7
    DEF Next, Main, Terminated, LoseRequest, LoseResponse

-----------------------------------------------------------------------------
(* The theorems.                                                           *)

\* Nothing is on its way when main starts.
LEMMA InitInv == Init => IInv
  <1> SUFFICES ASSUME Init PROVE IInv
    OBVIOUS
  <1>1. /\ server_info_list \in Seq(Servers) /\ t = 1
        /\ Len(server_info_list) \in Nat
        /\ DOMAIN server_info_list = 1 .. Len(server_info_list)
    BY ServerInfoAssumption, LenProperties DEF Init
  <1>2. TypeOK
    <2>1. t \in 1 .. Len(server_info_list) + 1
      BY <1>1
    <2> QED BY <1>1, <2>1, FaultSetsAssumption, EmptySeq DEF Init, TypeOK
  <1>3. Pointed /\ NothingStray
    BY DEF Init, Pointed, Awaiting, NothingStray, Silent
  <1>4. PassedAnswered
    BY <1>1 DEF Init, PassedAnswered
  <1>5. StillAsked
    BY DEF Init, StillAsked, Awaiting, Servers
  <1> QED BY <1>2, <1>3, <1>4, <1>5 DEF IInv

\* IInv holds in every state of the search for servers.
THEOREM Invariance == Spec => []IInv
  <1>1. IInv /\ [Next]_vars => IInv'
    BY StepTypes, StepStray, StepPassed, StepAsked DEF IInv
  <1> QED BY <1>1, InitInv, PTL DEF Spec

\* Whatever is lost, late or dead, the list stays a list of known servers, the
\* index stays in it and what is read is a response.
THEOREM TypeCorrect == Spec => []TypeOK
  <1>1. IInv => TypeOK
    BY DEF IInv
  <1> QED BY <1>1, Invariance, PTL

\* Although neither loop looks at the sender of a datagram, every server that
\* passes the handshakes has answered its own unless answers come late, and it
\* is the head of the list that said whether it has the file.
THEOREM AnswersAreOwn == Spec => []AnswersOwn
  <1>1. IInv => AnswersOwn
    <2> SUFFICES ASSUME IInv, "late" \notin faults
                 PROVE  /\ pc \in {"query", "await query", "decide", "downloading"} =>
                             ToSet(server_info_list) \subseteq answered
                        /\ pc \in {"decide", "downloading"} =>
                             read_buf.from = Head(server_info_list)
      BY DEF AnswersOwn
    <2>1. DOMAIN server_info_list = 1 .. Len(server_info_list)
      BY ListType DEF IInv
    <2>2. pc \in {"query", "await query", "decide", "downloading"} =>
            ToSet(server_info_list) \subseteq answered
      BY <2>1 DEF IInv, PassedAnswered, ToSet
    <2>3. pc \in {"decide", "downloading"} => read_buf.from = server_info_list[1]
      BY DEF IInv, PassedAnswered, Current, Pointed
    <2>4. Head(server_info_list) = server_info_list[1]
      BY ListType DEF IInv
    <2> QED BY <2>2, <2>3, <2>4
  <1> QED BY <1>1, Invariance, PTL

\* A living server is dropped only if the network loses or delays something.
THEOREM LivingAreKept == Spec => []OnlyDeadDropped
  <1>1. IInv => OnlyDeadDropped
    BY DEF IInv, StillAsked, OnlyDeadDropped, ToSet, Range
  <1> QED BY <1>1, Invariance, PTL
=============================================================================
