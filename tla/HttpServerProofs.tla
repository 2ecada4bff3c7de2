-------------------------- MODULE HttpServerProofs --------------------------
(***************************************************************************)
(* Proofs that the safety properties of HttpServer hold for every number   *)
(* of clients, pages, descriptors and foreign files, and that HttpServer   *)
(* implements PageService.                                                 *)
(***************************************************************************)
EXTENDS HttpServerInvariant, TLAPS, WellFoundedInduction, SequenceTheorems

\* A non-empty set of descriptors has a lowest one.
LEMMA LowestExists ==
    ASSUME NEW S, S \subseteq Nat, S # {}
    PROVE  \E f \in S : \A g \in S : f <= g
<1> DEFINE R == {ss \in Nat \X Nat : ss[1] < ss[2]}
<1>1. OpToRel(<, Nat) = R
  BY Zenon DEF OpToRel
<1>2. \E f \in S : \A g \in S : ~(<<g, f>> \in R)
  BY <1>1, WFMin, NatLessThanWellFounded
<1>3. ASSUME NEW f \in S, NEW g \in S, ~(<<g, f>> \in R)
      PROVE  f <= g
  BY <1>3
<1> QED
  BY <1>2, <1>3

\* The lowest free descriptor is a free descriptor.
LEMMA NewFdIsFree ==
    ASSUME FreeFds # {}
    PROVE  NewFd \in Fd /\ file[NewFd] = "free"
<1>1. FreeFds \subseteq Nat
  BY HttpServerAssumption DEF FreeFds, Fd
<1>2. \E f \in FreeFds : \A g \in FreeFds : f <= g
  BY <1>1, LowestExists
<1>3. NewFd \in FreeFds
  BY <1>2 DEF NewFd
<1> QED
  BY <1>3 DEF FreeFds

-----------------------------------------------------------------------------
(* Type correctness, one lemma per group of actions.                       *)

\* close() keeps the kernel's state well typed, whatever it closes.
LEMMA CloseType ==
    ASSUME KernelType, ClientType, NEW f, Close(f), foreign' \subseteq Fd,
           UNCHANGED <<request, reply>>
    PROVE  KernelType' /\ ClientType'
<1>1. ResetQueued \in [Clients -> {"idle", "open", "eof", "done"}]
  BY DEF ClientType, ResetQueued
<1>2. CASE f \in Fd /\ file[f] = "server"
  <2>1. /\ file' = [file EXCEPT ![f] = "free"] /\ listener' \in {"none", "shut"}
        /\ queue' = <<>> /\ conn' = ResetQueued
    BY <1>2 DEF Close
  <2> QED
    BY <2>1, <1>1, <1>2 DEF KernelType, ClientType
<1>3. CASE ~(f \in Fd /\ file[f] = "server")
  BY <1>3 DEF Close, KernelType, ClientType
<1> QED
  BY <1>2, <1>3

LEMMA StartStepType == TypeOK /\ StartStep => TypeOK'
<1> SUFFICES ASSUME TypeOK, StartStep PROVE TypeOK'
  OBVIOUS
<1> USE DEF TypeOK, memberVars, guiVars, accVars, kernelVars, clientVars, MemberType, SharedType, GuiType, AcceptorType, KernelType, ClientType
<1>1. CASE Open4 \/ Open6
  BY <1>1, NewFdIsFree DEF Open4, Open6, OpenSocket, GuiSteps
<1>2. CASE Bind4
  <2>1. GuiType'
    BY <1>2 DEF Bind4, GuiSteps
  <2>2. KernelType' /\ ClientType'
    BY <1>2, CloseType DEF Bind4
  <2>3. UNCHANGED <<memberVars, stop_flag, html_str, m, acc, accVars>>
    BY <1>2 DEF Bind4
  <2> QED
    BY <2>1, <2>2, <2>3
<1>3. CASE Bind6
  <2>1. GuiType'
    BY <1>3 DEF Bind6, GuiSteps
  <2>2. MemberType'
    BY <1>3 DEF Bind6
  <2>3. UNCHANGED <<stop_flag, html_str, m, acc, accVars, kernelVars, foreign, clientVars>>
    BY <1>3 DEF Bind6
  <2> QED
    BY <2>1, <2>2, <2>3
<1>4. CASE GetSockName
  <2>1. GuiType' /\ MemberType'
    BY <1>4 DEF GetSockName, GuiSteps
  <2> QED
    BY <1>4, <2>1 DEF GetSockName
<1>5. CASE Listen
  <2>1. GuiType'
    BY <1>5 DEF Listen, GuiSteps
  <2>2. MemberType'
    BY <1>5 DEF Listen
  <2>3. SharedType'
    BY <1>5 DEF Listen
  <2>4. KernelType' /\ UNCHANGED <<acc, accVars, clientVars>>
    BY <1>5 DEF Listen
  <2> QED
    BY <2>1, <2>2, <2>3, <2>4
<1>6. CASE Spawn
  BY <1>6 DEF Spawn, AcceptorSteps, GuiSteps
<1>7. CASE Cleanup
  <2>1. GuiType'
    BY <1>7 DEF Cleanup, GuiSteps
  <2>2. KernelType' /\ ClientType'
    BY <1>7, CloseType DEF Cleanup
  <2> QED
    BY <1>7, <2>1, <2>2 DEF Cleanup
<1> QED
  BY <1>1, <1>2, <1>3, <1>4, <1>5, <1>6, <1>7 DEF StartStep

LEMMA StopStepType == TypeOK /\ StopStep => TypeOK'
<1> SUFFICES ASSUME TypeOK, StopStep PROVE TypeOK'
  OBVIOUS
<1> USE DEF TypeOK, memberVars, guiVars, accVars, kernelVars, clientVars,
            MemberType, SharedType, GuiType, AcceptorType, KernelType, ClientType
<1>1. CASE StopFlag
  <2>1. GuiType' /\ SharedType'
    BY <1>1 DEF StopFlag, GuiSteps
  <2> QED
    BY <1>1, <2>1 DEF StopFlag
<1>2. CASE StopShutdown
  <2>1. GuiType'
    BY <1>2 DEF StopShutdown, GuiSteps
  <2>2. ResetQueued \in [Clients -> {"idle", "open", "eof", "done"}]
    BY DEF ResetQueued
  <2>3. KernelType' /\ ClientType'
    <3>1. CASE file[server_fd] = "server"
      BY <1>2, <2>2, <3>1 DEF StopShutdown
    <3>2. CASE file[server_fd] # "server"
      BY <1>2, <3>2 DEF StopShutdown
    <3> QED
      BY <3>1, <3>2
  <2> QED
    BY <1>2, <2>1, <2>3 DEF StopShutdown
<1>3. CASE StopClose
  <2>1. GuiType'
    BY <1>3 DEF StopClose, GuiSteps
  <2>2. KernelType' /\ ClientType'
    BY <1>3, CloseType DEF StopClose
  <2>3. UNCHANGED <<memberVars, stop_flag, html_str, m, acc, accVars>>
    BY <1>3 DEF StopClose
  <2> QED
    BY <2>1, <2>2, <2>3
<1>4. CASE StopReset
  <2>1. GuiType'
    BY <1>4 DEF StopReset, GuiSteps
  <2>2. MemberType'
    BY <1>4 DEF StopReset
  <2> QED
    BY <1>4, <2>1, <2>2 DEF StopReset
<1>5. CASE StopJoin
  <2>1. GuiType'
    BY <1>5 DEF StopJoin, GuiSteps
  <2>2. MemberType' /\ SharedType'
    BY <1>5 DEF StopJoin
  <2>3. AcceptorType' /\ UNCHANGED <<kernelVars, foreign, clientVars>>
    BY <1>5 DEF StopJoin, AcceptorSteps
  <2> QED
    BY <2>1, <2>2, <2>3
<1> QED
  BY <1>1, <1>2, <1>3, <1>4, <1>5 DEF StopStep

LEMMA GuiStepType ==
    TypeOK /\ (Construct \/ Destroy \/ SetHtmlCodeReturn
               \/ \E page \in Pages : SetHtmlCode(page)) => TypeOK'
<1> SUFFICES ASSUME TypeOK PROVE
      Construct \/ Destroy \/ SetHtmlCodeReturn
        \/ (\E page \in Pages : SetHtmlCode(page)) => TypeOK'
  OBVIOUS
<1> USE DEF TypeOK, memberVars, guiVars, accVars, kernelVars, clientVars,
            MemberType, SharedType, GuiType, AcceptorType, KernelType, ClientType
<1>1. CASE Construct \/ Destroy
  <2>1. GuiType'
    BY <1>1 DEF Construct, Destroy, GuiSteps
  <2> QED
    BY <1>1, <2>1 DEF Construct, Destroy
<1>2. CASE SetHtmlCodeReturn
  <2>1. GuiType' /\ SharedType'
    BY <1>2 DEF SetHtmlCodeReturn, GuiSteps
  <2> QED
    BY <1>2, <2>1 DEF SetHtmlCodeReturn
<1>3. ASSUME NEW page \in Pages, SetHtmlCode(page) PROVE TypeOK'
  <2>1. GuiType' /\ SharedType'
    BY <1>3 DEF SetHtmlCode, GuiSteps
  <2> QED
    BY <1>3, <2>1 DEF SetHtmlCode
<1> QED
  BY <1>1, <1>2, <1>3

LEMMA AcceptorStepType == TypeOK /\ AcceptorStep => TypeOK'
<1> SUFFICES ASSUME TypeOK, AcceptorStep PROVE TypeOK'
  OBVIOUS
<1> USE DEF TypeOK, memberVars, guiVars, accVars, kernelVars, clientVars,
            MemberType, SharedType, GuiType, AcceptorType, KernelType, ClientType
<1>1. CASE LoopTop \/ EnterAccept \/ AcceptFails
  <2>1. AcceptorType'
    BY <1>1 DEF LoopTop, EnterAccept, AcceptFails, AcceptorSteps
  <2> QED
    BY <1>1, <2>1 DEF LoopTop, EnterAccept, AcceptFails
<1>2. CASE LoadServerFd
  BY <1>2 DEF LoadServerFd, AcceptorSteps
<1>3. CASE Accept
  <2>1. queue' \in Seq(Clients) /\ client' \in SUBSET Clients
    BY <1>3 DEF Accept
  <2>2. KernelType' /\ AcceptorType'
    BY <1>3, <2>1, NewFdIsFree DEF Accept, AcceptorSteps
  <2> QED
    BY <1>3, <2>2 DEF Accept
<1>4. CASE ReadRequest
  <2>1. \A t \in Targets : Response(t, "empty") \in Responses
    BY DEF Responses
  <2>2. response' \in SUBSET Responses
    BY <1>4, <2>1 DEF ReadRequest
  <2>3. acc' \in AcceptorSteps
    BY <1>4 DEF ReadRequest, AcceptorSteps
  <2> QED
    BY <1>4, <2>2, <2>3 DEF ReadRequest
<1>5. CASE LockHtml
  BY <1>5 DEF LockHtml, AcceptorSteps
<1>6. CASE CopyHtml
  <2>1. "html" \in Targets
    BY DEF Targets
  <2>2. Response("html", html_str) \in Responses
    BY <2>1 DEF Responses
  <2> QED
    BY <1>6, <2>2 DEF CopyHtml, AcceptorSteps
<1>7. CASE SendHttpResponse
  <2>1. reply' \in [Clients -> SUBSET Responses]
    BY <1>7 DEF SendHttpResponse
  <2> QED
    BY <1>7, <2>1 DEF SendHttpResponse, AcceptorSteps
<1>8. CASE CloseClient
  <2>1. conn' \in [Clients -> {"idle", "open", "eof", "done"}]
    BY <1>8 DEF CloseClient
  <2>2. file' \in [Fd -> {"free", "server", "client", "foreign"}]
    BY <1>8 DEF CloseClient
  <2>3. acc' = "top" /\ client' = {}
    BY <1>8 DEF CloseClient
  <2> QED
    BY <1>8, <2>1, <2>2, <2>3 DEF CloseClient, AcceptorSteps
<1> QED
  BY <1>1, <1>2, <1>3, <1>4, <1>5, <1>6, <1>7, <1>8 DEF AcceptorStep

LEMMA EnvironmentStepType ==
    ASSUME TypeOK,
           \/ \E c \in Clients : ClientStep(c)
           \/ ForeignOpen \/ \E f \in foreign : ForeignClose(f)
    PROVE  TypeOK'
<1> USE DEF TypeOK, memberVars, guiVars, accVars, kernelVars, clientVars,
            MemberType, SharedType, GuiType, AcceptorType, KernelType, ClientType
<1>1. ASSUME NEW c \in Clients, Connect(c) PROVE TypeOK'
  BY <1>1 DEF Connect
<1>2. ASSUME NEW c \in Clients, NEW t \in Targets, Send(c, t) PROVE TypeOK'
  BY <1>2 DEF Send
<1>3. ASSUME NEW c \in Clients, HangUp(c) PROVE TypeOK'
  BY <1>3 DEF HangUp
<1>4. CASE ForeignOpen
  BY <1>4, NewFdIsFree DEF ForeignOpen
<1>5. ASSUME NEW f \in foreign, ForeignClose(f) PROVE TypeOK'
  <2>1. KernelType' /\ ClientType'
    BY <1>5, CloseType DEF ForeignClose
  <2> QED
    BY <1>5, <2>1 DEF ForeignClose
<1> QED
  BY <1>1, <1>2, <1>3, <1>4, <1>5 DEF ClientStep

LEMMA InitType == Init => TypeOK
<1> SUFFICES ASSUME Init PROVE TypeOK
  OBVIOUS
<1>1. KernelType /\ ClientType
  BY DEF Init, KernelType, ClientType
<1>2. MemberType /\ SharedType
  BY DEF Init, MemberType, SharedType
<1>3. GuiType /\ AcceptorType
  BY DEF Init, GuiType, AcceptorType, GuiSteps, AcceptorSteps
<1> QED
  BY <1>1, <1>2, <1>3 DEF TypeOK

LEMMA NextType == TypeOK /\ [Next]_vars => TypeOK'
<1> SUFFICES ASSUME TypeOK, [Next]_vars PROVE TypeOK'
  OBVIOUS
<1>1. CASE Terminated \/ UNCHANGED vars
  BY <1>1 DEF Terminated, vars, TypeOK, memberVars, guiVars, accVars, kernelVars,
     clientVars, MemberType, SharedType, GuiType, AcceptorType, KernelType, ClientType
<1> QED
  BY <1>1, StartStepType, StopStepType, GuiStepType, AcceptorStepType,
     EnvironmentStepType DEF Next

\* Every variable always has its type, also when a thread cannot be spawned.
THEOREM TypeCorrectness == Spec => []TypeOK
<1> QED
  BY InitType, NextType, PTL DEF Spec

-----------------------------------------------------------------------------
(* The answers: HttpServer implements PageService, and every reply answers *)
(* its request, whether or not a thread can be spawned: neither depends on *)
(* who owns which descriptor.                                              *)


\* What the GUI thread and the other threads may do to the connections:
\* nothing, or drop those that wait for the listening socket they close.
Drops == \/ UNCHANGED <<queue, conn>>
         \/ queue' = <<>> /\ conn' = ResetQueued

\* What they may do to the acceptor: start it, or forget one that has exited.
Respawns == acc' = acc \/ (~InService /\ acc' \in {"none", "top"})

Bystander == /\ Drops /\ Respawns
             /\ UNCHANGED <<client, response, request, reply>>

\* A step of the GUI thread outside SetHtmlCode
LeavesHtml == /\ gui # "assign" /\ gui' # "assign"
              /\ UNCHANGED <<m, html_str>>

LEMMA BystanderKeepsAnswers ==
    ASSUME AnswerInv, Bystander
    PROVE  ServedAgrees' /\ WaitingAgrees' /\ EveryReplyAnswersItsRequest'
<1> USE DEF AnswerInv, Bystander
<1>1. ASSUME NEW c \in Clients
      PROVE  conn'[c] = conn[c] \/ (conn'[c] = "done" /\ Queued(c))
  BY DEF Drops, ResetQueued
<1>2. \A i \in DOMAIN queue : queue[i] \in Clients
  BY DEF TypeOK, KernelType
<1>3. \A c \in client : c \in Clients
  BY DEF TypeOK, AcceptorType
<1>4. ServedAgrees'
  BY <1>1, <1>3 DEF ServedAgrees, Respawns, InService
<1>5. \A c \in Clients : conn'[c] = "idle" => conn[c] = "idle"
  BY <1>1
<1>6. WaitingAgrees'
  <2>1. CASE UNCHANGED <<queue, conn>>
    BY <2>1 DEF WaitingAgrees
  <2>2. CASE queue' = <<>>
    BY <1>5, <2>2 DEF WaitingAgrees
  <2> QED
    BY <2>1, <2>2 DEF Drops
<1>7. EveryReplyAnswersItsRequest'
  BY DEF EveryReplyAnswersItsRequest
<1> QED
  BY <1>4, <1>6, <1>7

LEMMA CloseDrops == ASSUME NEW f, Close(f) PROVE Drops
<1>1. CASE f \in Fd /\ file[f] = "server"
  BY <1>1 DEF Close, Drops
<1>2. CASE ~(f \in Fd /\ file[f] = "server")
  BY <1>2 DEF Close, Drops
<1> QED
  BY <1>1, <1>2

LEMMA LeavesHtmlKeepsMutex ==
    ASSUME AnswerInv, LeavesHtml, Respawns PROVE MutexHeld'
  BY DEF AnswerInv, LeavesHtml, Respawns, MutexHeld, InService

LEMMA StartStepKeepsAnswers ==
    ASSUME AnswerInv, StartStep
    PROVE  Bystander /\ LeavesHtml /\ OneAcceptor'
<1> USE DEF Bystander, LeavesHtml, Respawns, AnswerInv, OneAcceptor, memberVars,
            guiVars, accVars, kernelVars, clientVars
<1>1. CASE Open4 \/ Open6
  BY <1>1 DEF Open4, Open6, OpenSocket, Drops
<1>2. CASE Bind4
  BY <1>2, CloseDrops DEF Bind4, Drops
<1>3. CASE Bind6 \/ GetSockName
  BY <1>3 DEF Bind6, GetSockName, Drops
<1>4. CASE Listen
  BY <1>4 DEF Listen, Drops
<1>5. CASE Spawn
  BY <1>5 DEF Spawn, Drops, InService
<1>6. CASE Cleanup
  BY <1>6, CloseDrops DEF Cleanup
<1> QED
  BY <1>1, <1>2, <1>3, <1>4, <1>5, <1>6 DEF StartStep

LEMMA StopStepKeepsAnswers ==
    ASSUME AnswerInv, StopStep \/ Construct \/ Destroy
    PROVE  Bystander /\ LeavesHtml /\ OneAcceptor'
<1> USE DEF Bystander, LeavesHtml, Respawns, AnswerInv, OneAcceptor, memberVars,
            guiVars, accVars, kernelVars, clientVars
<1>1. CASE StopFlag \/ StopReset
  BY <1>1 DEF StopFlag, StopReset, Drops
<1>2. CASE StopShutdown
  BY <1>2 DEF StopShutdown, Drops
<1>3. CASE StopClose
  BY <1>3, CloseDrops DEF StopClose
<1>4. CASE StopJoin
  BY <1>4 DEF StopJoin, Drops, InService, TypeOK, GuiType
<1>5. CASE Construct \/ Destroy
  BY <1>5 DEF Construct, Destroy, Drops
<1> QED
  BY <1>1, <1>2, <1>3, <1>4, <1>5 DEF StopStep

LEMMA ForeignStepKeepsAnswers ==
    ASSUME AnswerInv, ForeignOpen \/ \E f \in foreign : ForeignClose(f)
    PROVE  Bystander /\ MutexHeld' /\ OneAcceptor'
<1> USE DEF Bystander, Respawns, AnswerInv, OneAcceptor, MutexHeld, memberVars,
            guiVars, accVars, kernelVars, clientVars
<1>1. CASE ForeignOpen
  BY <1>1 DEF ForeignOpen, Drops
<1>2. ASSUME NEW f \in foreign, ForeignClose(f)
      PROVE  Bystander /\ MutexHeld' /\ OneAcceptor'
  BY <1>2, CloseDrops DEF ForeignClose
<1> QED
  BY <1>1, <1>2

LEMMA SetHtmlCodeKeepsAnswers ==
    ASSUME AnswerInv,
           SetHtmlCodeReturn \/ \E page \in Pages : SetHtmlCode(page)
    PROVE  Bystander /\ MutexHeld' /\ OneAcceptor'
<1> USE DEF Bystander, Respawns, Drops, AnswerInv, OneAcceptor, MutexHeld,
            memberVars, guiVars, accVars, kernelVars, clientVars
<1>1. CASE SetHtmlCodeReturn
  BY <1>1, HttpResponseAssumption DEF SetHtmlCodeReturn
<1>2. ASSUME NEW page \in Pages, SetHtmlCode(page)
      PROVE  Bystander /\ MutexHeld' /\ OneAcceptor'
  BY <1>2 DEF SetHtmlCode
<1> QED
  BY <1>1, <1>2

-----------------------------------------------------------------------------
(* The acceptor's own steps.                                               *)

\* The page an archive file or a bad request is answered with does not depend
\* on the current page.
LEMMA OnlyHtmlReadsThePage ==
    ASSUME NEW t \in Targets \ {"html"}, NEW p, NEW q
    PROVE  Response(t, p) = Response(t, q)
  BY DEF Response, PageFor

LEMMA AcceptorKeepsMutex ==
    ASSUME AnswerInv, AcceptorStep PROVE MutexHeld' /\ OneAcceptor'
<1> USE DEF AnswerInv, MutexHeld, OneAcceptor, accVars
<1>1. CASE LoopTop \/ LoadServerFd \/ EnterAccept
  BY <1>1 DEF LoopTop, LoadServerFd, EnterAccept, guiVars
<1>2. CASE Accept \/ AcceptFails \/ ReadRequest
  BY <1>2 DEF Accept, AcceptFails, ReadRequest, guiVars
<1>3. CASE LockHtml \/ CopyHtml
  BY <1>3 DEF LockHtml, CopyHtml, guiVars
<1>4. CASE SendHttpResponse \/ CloseClient
  BY <1>4 DEF SendHttpResponse, CloseClient, guiVars
<1> QED
  BY <1>1, <1>2, <1>3, <1>4 DEF AcceptorStep

LEMMA AcceptKeepsAnswers ==
    ASSUME AnswerInv, Accept
    PROVE  ServedAgrees' /\ WaitingAgrees' /\ EveryReplyAnswersItsRequest'
<1> USE DEF AnswerInv, TypeOK, KernelType
<1> DEFINE c == Head(queue)
<1>1. /\ queue # <<>> /\ client' = {c} /\ queue' = Tail(queue)
      /\ acc = "blocked" /\ acc' = "read"
      /\ UNCHANGED <<response, conn, request, reply>>
  BY DEF Accept, clientVars
<1>2. c = queue[1] /\ c \in Clients /\ 1 \in DOMAIN queue
  BY <1>1
<1>3. \A i \in DOMAIN Tail(queue) : i + 1 \in DOMAIN queue /\ i + 1 # 1
                                    /\ Tail(queue)[i] = queue[i + 1]
  BY <1>1
<1>4. ServedAgrees'
  BY <1>1, <1>2 DEF ServedAgrees, WaitingAgrees, InService
<1>5. WaitingAgrees'
  <2>1. \A i \in DOMAIN Tail(queue) : Tail(queue)[i] # c
    BY <1>2, <1>3 DEF WaitingAgrees
  <2>2. \A i, j \in DOMAIN Tail(queue) :
           Tail(queue)[i] = Tail(queue)[j] => i = j
    <3> SUFFICES ASSUME NEW i \in DOMAIN Tail(queue), NEW j \in DOMAIN Tail(queue),
                        Tail(queue)[i] = Tail(queue)[j]
                 PROVE  i = j
      OBVIOUS
    <3>1. i + 1 = j + 1
      BY <1>3 DEF WaitingAgrees
    <3>2. i \in Int /\ j \in Int
      BY <1>1
    <3> QED
      BY <3>1, <3>2
  <2> QED
    BY <1>1, <1>3, <2>1, <2>2 DEF WaitingAgrees
<1>6. EveryReplyAnswersItsRequest'
  BY <1>1 DEF EveryReplyAnswersItsRequest
<1> QED
  BY <1>4, <1>5, <1>6

LEMMA ReadKeepsAnswers ==
    ASSUME AnswerInv, ReadRequest
    PROVE  ServedAgrees' /\ WaitingAgrees' /\ EveryReplyAnswersItsRequest'
<1>1. UNCHANGED <<client, queue, conn, request, reply>> /\ acc = "read"
  BY DEF ReadRequest, kernelVars, clientVars
<1>2. PICK c \in Clients : client = {c}
  BY <1>1 DEF AnswerInv, ServedAgrees, InService
<1>3. "none" \notin Targets
  BY HttpResponseAssumption DEF Targets
<1>4. \/ request[c] = "html" /\ acc' = "lock" /\ UNCHANGED response
      \/ /\ request[c] \in Targets \ {"html"} /\ acc' = "send"
         /\ response' = {Response(request[c], "empty")}
      \/ acc' = "hangup" /\ UNCHANGED response
  BY <1>2 DEF ReadRequest
<1>5. ServedAgrees'
  BY <1>1, <1>2, <1>3, <1>4 DEF AnswerInv, ServedAgrees, InService
<1> QED
  BY <1>1, <1>5 DEF AnswerInv, WaitingAgrees, EveryReplyAnswersItsRequest

LEMMA HtmlKeepsAnswers ==
    ASSUME AnswerInv, LockHtml \/ CopyHtml
    PROVE  ServedAgrees' /\ WaitingAgrees' /\ EveryReplyAnswersItsRequest'
<1>1. UNCHANGED <<client, queue, conn, request, reply>>
  BY DEF LockHtml, CopyHtml, accVars, kernelVars, clientVars
<1>2. CASE LockHtml
  BY <1>1, <1>2 DEF LockHtml, accVars, AnswerInv, ServedAgrees, WaitingAgrees,
     InService, EveryReplyAnswersItsRequest
<1>3. CASE CopyHtml
  <2>1. acc = "copy" /\ acc' = "send" /\ response' = {Response("html", html_str)}
    BY <1>3 DEF CopyHtml
  <2>2. html_str \in Pages \cup {"empty"}
    BY <2>1 DEF AnswerInv, TypeOK, SharedType, MutexHeld
  <2>3. \A c \in client : request[c] = "html"
    BY <2>1 DEF AnswerInv, ServedAgrees
  <2>4. "html" # "none"
    OBVIOUS
  <2>5. ServedAgrees'
    BY <1>1, <2>1, <2>2, <2>3, <2>4 DEF AnswerInv, ServedAgrees, InService
  <2> QED
    BY <1>1, <2>5 DEF AnswerInv, WaitingAgrees, EveryReplyAnswersItsRequest
<1> QED
  BY <1>2, <1>3

LEMMA SendKeepsAnswers ==
    ASSUME AnswerInv, SendHttpResponse
    PROVE  ServedAgrees' /\ WaitingAgrees' /\ EveryReplyAnswersItsRequest'
<1>1. /\ acc = "send" /\ acc' = "hangup" /\ response' = {}
      /\ UNCHANGED <<client, queue, conn, request>>
      /\ reply' = [c \in Clients |-> IF c \in client THEN reply[c] \cup response
                                                     ELSE reply[c]]
  BY DEF SendHttpResponse, kernelVars
<1>2. PICK c \in Clients : client = {c}
  BY <1>1 DEF AnswerInv, ServedAgrees, InService
<1>3. PICK r \in response : response = {r}
  BY <1>1 DEF AnswerInv, ServedAgrees
<1>4. reply'[c] = {r} /\ request[c] # "none" /\ conn[c] # "idle"
      /\ \E page \in Pages \cup {"empty"} : r = Response(request[c], page)
  BY <1>1, <1>2, <1>3 DEF AnswerInv, ServedAgrees
<1>5. \A b \in Clients : b # c => reply'[b] = reply[b]
  BY <1>1, <1>2
<1>6. ServedAgrees'
  BY <1>1, <1>2, <1>4 DEF AnswerInv, ServedAgrees, InService
<1>7. \A i \in DOMAIN queue : queue[i] \in Clients
  BY DEF AnswerInv, TypeOK, KernelType
<1>8. WaitingAgrees'
  BY <1>1, <1>2, <1>4, <1>5, <1>7 DEF AnswerInv, WaitingAgrees
<1>9. EveryReplyAnswersItsRequest'
  BY <1>1, <1>4, <1>5 DEF AnswerInv, EveryReplyAnswersItsRequest
<1> QED
  BY <1>6, <1>8, <1>9

LEMMA CloseClientKeepsAnswers ==
    ASSUME AnswerInv, CloseClient
    PROVE  ServedAgrees' /\ WaitingAgrees' /\ EveryReplyAnswersItsRequest'
<1>1. /\ acc = "hangup" /\ acc' = "top" /\ client' = {}
      /\ UNCHANGED <<response, queue, request, reply>>
      /\ conn' = [c \in Clients |-> IF c \in client THEN "done" ELSE conn[c]]
  BY DEF CloseClient
<1>2. \A c \in Clients : conn'[c] = "idle" <=> conn[c] = "idle" /\ c \notin client
  BY <1>1
<1>3. \A i \in DOMAIN queue : queue[i] \in Clients
  BY DEF AnswerInv, TypeOK, KernelType
<1>4. ServedAgrees'
  BY <1>1 DEF AnswerInv, ServedAgrees, InService
<1>5. WaitingAgrees'
  BY <1>1, <1>2, <1>3 DEF AnswerInv, WaitingAgrees
<1> QED
  BY <1>1, <1>4, <1>5 DEF AnswerInv, EveryReplyAnswersItsRequest

LEMMA AcceptorStepKeepsAnswers == ASSUME AnswerInv, AcceptorStep PROVE AnswerInv'
<1>1. MutexHeld' /\ OneAcceptor' /\ TypeOK'
  BY AcceptorKeepsMutex, AcceptorStepType DEF AnswerInv
<1>2. CASE LoopTop \/ LoadServerFd \/ EnterAccept \/ AcceptFails
  <2>1. UNCHANGED <<client, response, queue, clientVars>>
        /\ acc \in {"top", "load", "accept", "blocked"}
        /\ acc' \in {"top", "load", "accept", "blocked", "exited"}
    BY <1>2 DEF LoopTop, LoadServerFd, EnterAccept, AcceptFails, accVars, kernelVars
  <2> QED
    BY <1>1, <2>1 DEF AnswerInv, ServedAgrees, WaitingAgrees, InService, clientVars,
       EveryReplyAnswersItsRequest
<1> QED
  BY <1>1, <1>2, AcceptKeepsAnswers, ReadKeepsAnswers, HtmlKeepsAnswers,
     SendKeepsAnswers, CloseClientKeepsAnswers DEF AcceptorStep, AnswerInv

-----------------------------------------------------------------------------
(* The clients' steps, and the theorems.                                   *)

LEMMA ClientStepKeepsAnswers ==
    ASSUME AnswerInv, NEW c \in Clients, ClientStep(c) PROVE AnswerInv'
<1> USE DEF AnswerInv, TypeOK, KernelType, ClientType
<1>1. TypeOK'
  BY EnvironmentStepType
<1>2. UNCHANGED <<client, response, acc, m, html_str, gui, new_html, reply>>
  BY DEF ClientStep, Connect, HangUp, Send, accVars, guiVars, clientVars
<1>3. MutexHeld' /\ OneAcceptor'
  BY <1>2 DEF MutexHeld, OneAcceptor
<1>4. CASE Connect(c)
  <2>1. /\ conn[c] = "idle" /\ conn' = [conn EXCEPT ![c] = "open"]
        /\ queue' = Append(queue, c) /\ request' = request
    BY <1>4 DEF Connect
  <2>2. /\ DOMAIN queue' = (DOMAIN queue) \cup {Len(queue) + 1}
        /\ queue'[Len(queue) + 1] = c /\ Len(queue) + 1 \notin DOMAIN queue
        /\ \A i \in DOMAIN queue : queue'[i] = queue[i] /\ queue[i] \in Clients
    BY <2>1
  <2>3. c \notin client /\ reply[c] = {} /\ \A i \in DOMAIN queue : queue[i] # c
    BY <2>1 DEF ServedAgrees, WaitingAgrees
  <2>4. \A b \in Clients : b # c => conn'[b] = conn[b]
    BY <2>1
  <2>5. conn'[c] = "open"
    BY <2>1
  <2>6. ServedAgrees'
    BY <1>2, <2>1, <2>3, <2>4 DEF ServedAgrees, InService, AcceptorType
  <2>7. WaitingAgrees'
    BY <1>2, <2>1, <2>2, <2>3, <2>4, <2>5 DEF WaitingAgrees
  <2> QED
    BY <1>1, <1>2, <1>3, <2>1, <2>6, <2>7 DEF EveryReplyAnswersItsRequest
<1>5. CASE HangUp(c)
  <2>1. conn[c] = "open" /\ conn' = [conn EXCEPT ![c] = "eof"]
        /\ UNCHANGED <<request, queue>>
    BY <1>5 DEF HangUp, kernelVars
  <2>2. \A b \in Clients : conn'[b] = "idle" <=> conn[b] = "idle"
    BY <2>1
  <2>3. \A i \in DOMAIN queue : queue[i] \in Clients
    OBVIOUS
  <2> QED
    BY <1>1, <1>2, <1>3, <2>1, <2>2, <2>3
       DEF ServedAgrees, WaitingAgrees, InService, EveryReplyAnswersItsRequest,
           AcceptorType
<1>6. ASSUME NEW t \in Targets, Send(c, t) PROVE AnswerInv'
  <2>1. /\ conn[c] = "open" /\ request[c] = "none" /\ UNCHANGED <<conn, queue>>
        /\ request' = [request EXCEPT ![c] = t]
    BY <1>6 DEF Send, kernelVars
  <2>2. request'[c] = t /\ \A b \in Clients : b # c => request'[b] = request[b]
    BY <2>1
  <2>3. "none" \notin Targets
    BY HttpResponseAssumption DEF Targets
  <2>4. ASSUME c \in client
        PROVE  acc \notin {"lock", "copy", "send"} /\ response = {}
    BY <2>1, <2>4 DEF ServedAgrees
  <2>5. ServedAgrees'
    BY <1>2, <2>1, <2>2, <2>4 DEF ServedAgrees, InService, AcceptorType
  <2>6. WaitingAgrees'
    BY <1>2, <2>1, <2>2 DEF WaitingAgrees
  <2>7. reply[c] = {}
    BY <2>1 DEF EveryReplyAnswersItsRequest
  <2>8. EveryReplyAnswersItsRequest'
    BY <1>2, <2>2, <2>7 DEF EveryReplyAnswersItsRequest
  <2> QED
    BY <1>1, <1>3, <2>5, <2>6, <2>8
<1> QED
  BY <1>4, <1>5, <1>6 DEF ClientStep

LEMMA InitAnswers == Init => AnswerInv
<1> SUFFICES ASSUME Init PROVE AnswerInv
  OBVIOUS
<1>1. MutexHeld /\ OneAcceptor /\ WaitingAgrees /\ EveryReplyAnswersItsRequest
  BY DEF Init, MutexHeld, OneAcceptor, WaitingAgrees, EveryReplyAnswersItsRequest
<1>2. ServedAgrees
  BY DEF Init, ServedAgrees, InService
<1> QED
  BY <1>1, <1>2, InitType DEF AnswerInv

\* A step that only lets others drop waiting connections keeps AnswerInv.
LEMMA BystanderKeepsAnswerInv ==
    ASSUME AnswerInv, TypeOK', Bystander, MutexHeld', OneAcceptor'
    PROVE  AnswerInv'
  BY BystanderKeepsAnswers DEF AnswerInv

LEMMA NextKeepsAnswers == AnswerInv /\ [Next]_vars => AnswerInv'
<1> SUFFICES ASSUME AnswerInv, [Next]_vars PROVE AnswerInv'
  OBVIOUS
<1>1. TypeOK'
  BY NextType DEF AnswerInv
<1>2. CASE StartStep \/ StopStep \/ Construct \/ Destroy
  <2>1. Bystander /\ LeavesHtml /\ OneAcceptor'
    BY <1>2, StartStepKeepsAnswers, StopStepKeepsAnswers
  <2>2. MutexHeld'
    BY <2>1, LeavesHtmlKeepsMutex DEF Bystander
  <2> QED
    BY <1>1, <2>1, <2>2, BystanderKeepsAnswerInv
<1>3. CASE \/ SetHtmlCodeReturn \/ (\E page \in Pages : SetHtmlCode(page))
           \/ ForeignOpen \/ (\E f \in foreign : ForeignClose(f))
  BY <1>1, <1>3, SetHtmlCodeKeepsAnswers, ForeignStepKeepsAnswers,
     BystanderKeepsAnswerInv
<1>4. CASE AcceptorStep
  BY <1>4, AcceptorStepKeepsAnswers
<1>5. CASE \E c \in Clients : ClientStep(c)
  BY <1>5, ClientStepKeepsAnswers
<1>6. CASE Terminated \/ UNCHANGED vars
  BY <1>1, <1>6 DEF Terminated, vars, AnswerInv, MutexHeld, OneAcceptor, ServedAgrees,
     WaitingAgrees, InService, EveryReplyAnswersItsRequest, guiVars, accVars,
     kernelVars, clientVars
<1> QED
  BY <1>2, <1>3, <1>4, <1>5, <1>6 DEF Next

\* Every reply is the one answer to its own connection's request, made from a
\* page that SetHtmlCode had assigned whole.
THEOREM RepliesAnswerRequests == Spec => []EveryReplyAnswersItsRequest
<1>1. AnswerInv => EveryReplyAnswersItsRequest
  BY DEF AnswerInv
<1> QED
  BY <1>1, InitAnswers, NextKeepsAnswers, PTL DEF Spec

-----------------------------------------------------------------------------
(* Refinement.                                                             *)

\* The refinement mapping of Service: the current page, and each connection's
\* answer, made as soon as it has been computed.
CurrentHtml == IF gui = "assign" THEN new_html ELSE html_str
Answers == [c \in Clients |-> IF c \in client THEN reply[c] \cup response
                                              ELSE reply[c]]

\* The constants keep their meaning under the mapping.
LEMMA SameTargets == Service!Targets = Targets
  BY DEF Service!Targets, Targets

LEMMA SameResponse ==
    ASSUME NEW t, NEW page PROVE Service!Response(t, page) = Response(t, page)
<1>1. Service!PageFor(t, page) = PageFor(t, page)
  BY DEF Service!PageFor, PageFor
<1>2. Service!g_content_types = g_content_types
  BY DEF Service!g_content_types, g_content_types
<1>3. \A ext : Service!FindContentTypeFromExtension(ext)
                 = FindContentTypeFromExtension(ext)
  BY <1>2 DEF Service!FindContentTypeFromExtension, FindContentTypeFromExtension
<1>4. Service!BadRequest = BadRequest
  BY DEF Service!BadRequest, BadRequest
<1> QED
  BY <1>1, <1>3, <1>4 DEF Service!Response, Response

\* A step that leaves the mapped variables alone is a stutter.
LEMMA StutterRefines ==
    ASSUME UNCHANGED <<CurrentHtml, request, Answers>>
    PROVE  UNCHANGED Service!serviceVars
  BY DEF CurrentHtml, Answers, Service!serviceVars

LEMMA BystanderRefines ==
    ASSUME Bystander, UNCHANGED CurrentHtml
    PROVE  UNCHANGED Service!serviceVars
  BY StutterRefines DEF Bystander, Answers

LEMMA AnswerRefines ==
    ASSUME AnswerInv, AcceptorStep
    PROVE  \/ \E c \in Clients : Service!Answer(c)
           \/ UNCHANGED Service!serviceVars
<1>1. CurrentHtml' = CurrentHtml /\ request' = request
  BY DEF AcceptorStep, LoopTop, LoadServerFd, EnterAccept, Accept, AcceptFails,
     ReadRequest, LockHtml, CopyHtml, SendHttpResponse, CloseClient, CurrentHtml,
     guiVars, clientVars
<1>2. CASE LoopTop \/ LoadServerFd \/ EnterAccept \/ AcceptFails \/ LockHtml
  <2>1. UNCHANGED <<client, response, reply>>
    BY <1>2 DEF LoopTop, LoadServerFd, EnterAccept, AcceptFails, LockHtml,
       accVars, clientVars
  <2> QED
    BY <1>1, <2>1, StutterRefines DEF Answers
<1>3. CASE Accept \/ CloseClient
  <2>1. response = {} /\ response' = {} /\ UNCHANGED reply
    BY <1>3 DEF Accept, CloseClient, clientVars, AnswerInv, ServedAgrees
  <2>2. Answers' = Answers
    BY <2>1 DEF Answers
  <2> QED
    BY <1>1, <2>2, StutterRefines
<1>4. CASE SendHttpResponse
  <2>1. response' = {} /\ UNCHANGED client
        /\ reply' = [c \in Clients |-> IF c \in client THEN reply[c] \cup response
                                                       ELSE reply[c]]
    BY <1>4 DEF SendHttpResponse
  <2>2. Answers' = Answers
    BY <2>1 DEF Answers
  <2> QED
    BY <1>1, <2>2, StutterRefines
<1>5. ASSUME NEW c \in Clients, client = {c}, acc # "hangup", acc # "send",
             request[c] \in Targets, UNCHANGED <<client, reply>>,
             response' = {Response(request[c], CurrentHtml)}
      PROVE  Service!Answer(c)
  <2>1. response = {} /\ reply[c] = {} /\ request[c] # "none"
    BY <1>5, HttpResponseAssumption DEF AnswerInv, ServedAgrees, Targets
  <2>2. Answers[c] = {}
    BY <2>1 DEF Answers
  <2>3. Answers' = [Answers EXCEPT ![c] = {Response(request[c], CurrentHtml)}]
    BY <1>5, <2>1 DEF Answers
  <2> QED
    BY <1>1, <2>1, <2>2, <2>3, SameResponse DEF Service!Answer, Answers, CurrentHtml
<1>6. CASE ReadRequest
  <2>1. UNCHANGED <<client, reply>> /\ acc = "read"
    BY <1>6 DEF ReadRequest, clientVars
  <2>2. PICK c \in Clients : client = {c}
    BY <2>1 DEF AnswerInv, ServedAgrees, InService
  <2>3. CASE UNCHANGED response
    BY <1>1, <2>1, <2>3, StutterRefines DEF Answers
  <2>4. CASE response' # response
    <3>1. /\ request[c] \in Targets \ {"html"}
          /\ response' = {Response(request[c], "empty")}
      BY <1>6, <2>2, <2>4 DEF ReadRequest
    <3>2. Response(request[c], "empty") = Response(request[c], CurrentHtml)
      BY <3>1, OnlyHtmlReadsThePage
    <3> QED
      BY <1>5, <2>1, <2>2, <3>1, <3>2
  <2> QED
    BY <2>3, <2>4
<1>7. CASE CopyHtml
  <2>1. UNCHANGED <<client, reply>> /\ acc = "copy"
        /\ response' = {Response("html", html_str)}
    BY <1>7 DEF CopyHtml, clientVars
  <2>2. PICK c \in Clients : client = {c}
    BY <2>1 DEF AnswerInv, ServedAgrees, InService
  <2>3. request[c] = "html" /\ request[c] \in Targets
    BY <2>1, <2>2 DEF AnswerInv, ServedAgrees, Targets
  <2>4. CurrentHtml = html_str
    BY <2>1 DEF AnswerInv, MutexHeld, CurrentHtml
  <2> QED
    BY <1>5, <2>1, <2>2, <2>3, <2>4
<1> QED
  BY <1>2, <1>3, <1>4, <1>6, <1>7 DEF AcceptorStep

LEMMA SetHtmlRefines ==
    ASSUME NEW page \in Pages, SetHtmlCode(page) PROVE Service!SetHtml(page)
<1>1. CurrentHtml' = page /\ UNCHANGED <<client, response, request, reply>>
  BY DEF SetHtmlCode, CurrentHtml, accVars, clientVars
<1>2. Answers' = Answers
  BY <1>1 DEF Answers
<1> QED
  BY <1>1, <1>2 DEF Service!SetHtml, CurrentHtml, Answers

LEMMA ClientRefines ==
    ASSUME AnswerInv, NEW c \in Clients, ClientStep(c)
    PROVE  \/ \E t \in Targets : Service!Ask(c, t)
           \/ UNCHANGED Service!serviceVars
<1>1. UNCHANGED <<client, response, reply, gui, new_html, html_str>>
  BY DEF ClientStep, Connect, HangUp, Send, accVars, guiVars, clientVars
<1>2. UNCHANGED <<CurrentHtml, Answers>>
  BY <1>1 DEF CurrentHtml, Answers
<1>3. CASE Connect(c) \/ HangUp(c)
  BY <1>2, <1>3, StutterRefines DEF Connect, HangUp
<1>4. ASSUME NEW t \in Targets, Send(c, t) PROVE Service!Ask(c, t)
  BY <1>2, <1>4 DEF Send, Service!Ask, CurrentHtml, Answers
<1> QED
  BY <1>3, <1>4 DEF ClientStep

LEMMA InitRefines == Init => Service!Init
<1> SUFFICES ASSUME Init PROVE Service!Init
  OBVIOUS
<1>1. Answers = [c \in Clients |-> {}] /\ CurrentHtml = "empty"
  BY DEF Init, Answers, CurrentHtml
<1> QED
  BY <1>1 DEF Init, Service!Init, Answers, CurrentHtml

LEMMA NextRefines ==
    AnswerInv /\ [Next]_vars => [Service!Next]_(Service!serviceVars)
<1> SUFFICES ASSUME AnswerInv, [Next]_vars
             PROVE  Service!Next \/ UNCHANGED Service!serviceVars
  OBVIOUS
<1>1. CASE StartStep \/ StopStep \/ Construct \/ Destroy
  <2>1. Bystander /\ LeavesHtml
    BY <1>1, StartStepKeepsAnswers, StopStepKeepsAnswers
  <2> QED
    BY <2>1, BystanderRefines DEF LeavesHtml, CurrentHtml
<1>2. CASE SetHtmlCodeReturn
  <2>1. Bystander /\ CurrentHtml' = CurrentHtml
    BY <1>2, SetHtmlCodeKeepsAnswers DEF SetHtmlCodeReturn, CurrentHtml
  <2> QED
    BY <2>1, BystanderRefines
<1>3. CASE ForeignOpen \/ \E f \in foreign : ForeignClose(f)
  <2>1. Bystander /\ CurrentHtml' = CurrentHtml
    BY <1>3, ForeignStepKeepsAnswers DEF ForeignOpen, ForeignClose, CurrentHtml, guiVars
  <2> QED
    BY <2>1, BystanderRefines
<1>4. CASE Terminated \/ UNCHANGED vars
  BY <1>4, StutterRefines DEF Terminated, vars, CurrentHtml, Answers, guiVars,
     accVars, clientVars
<1>5. CASE AcceptorStep
  BY <1>5, AnswerRefines DEF Service!Next
<1>6. CASE \E page \in Pages : SetHtmlCode(page)
  BY <1>6, SetHtmlRefines DEF Service!Next
<1>7. CASE \E c \in Clients : ClientStep(c)
  BY <1>7, ClientRefines, SameTargets DEF Service!Next
<1> QED
  BY <1>1, <1>2, <1>3, <1>4, <1>5, <1>6, <1>7 DEF Next

\* The server implements the page service: a page is replaced atomically and
\* each request is answered once, from the page of one moment after it asked.
THEOREM ServerImplementsPageService == Spec => ImplementsPageService
<1> QED
  BY InitRefines, NextRefines, InitAnswers, NextKeepsAnswers, PTL
     DEF Spec, ImplementsPageService, Service!Spec

-----------------------------------------------------------------------------
(* While a thread can be spawned, every open descriptor keeps its owner: a *)
(* stopped server leaves nothing open, a listening one has its socket and  *)
(* its thread, and no file of the rest of the process is closed.           *)

\* std::jthread's constructor does not throw.
SpawnSucceeds == ~SpawnMayFail

LEMMA FdIsNat == Fd \subseteq Int /\ -1 \notin Fd /\ \A f \in Fd : f >= 0
  BY HttpServerAssumption DEF Fd

LEMMA StartStepKeepsSockets ==
    ASSUME SpawnSucceeds, AnswerInv, SocketInv, StartStep PROVE SocketInv'
<1> USE DEF AnswerInv, TypeOK, SocketInv, memberVars, guiVars, accVars,
            kernelVars, clientVars
<1>1. CASE Open4 \/ Open6
  <2>1. /\ gui \in {"open4", "open6"} /\ gui' \in {"bind4", "bind6", "open6", "cleanup"}
        /\ UNCHANGED <<memberVars, stop_flag, return_to, acc, client_fd, foreign>>
    BY <1>1 DEF Open4, Open6, OpenSocket
  <2>2. acc = "none" /\ server_fd = -1 /\ MySocket = -1
    BY <2>1 DEF OneAcceptor, MembersAgree, MySocket
  <2>3. \/ /\ fd' = NewFd /\ gui' \in {"bind4", "bind6"} /\ FreeFds # {}
           /\ file' = [file EXCEPT ![NewFd] = "server"]
        \/ fd' = -1 /\ gui' \in {"open6", "cleanup"} /\ UNCHANGED file
    BY <1>1 DEF Open4, Open6, OpenSocket
  <2>4. FilesOwned'
    BY <2>1, <2>2, <2>3, NewFdIsFree, FdIsNat DEF FilesOwned, MySocket, InService,
       KernelType
  <2>5. MembersAgree'
    BY <2>1, <2>2 DEF MembersAgree
  <2>6. ThreadLives'
    BY <2>1, <2>2 DEF ThreadLives
  <2> QED
    BY <2>4, <2>5, <2>6
<1>2. CASE Bind4
  <2>1. /\ gui = "bind4" /\ gui' \in {"getsockname", "open6"}
        /\ UNCHANGED <<memberVars, stop_flag, return_to, acc, client_fd, foreign>>
    BY <1>2 DEF Bind4
  <2>2. acc = "none" /\ server_fd = -1 /\ fd \in Fd /\ file[fd] = "server"
    BY <2>1 DEF OneAcceptor, MembersAgree, MySocket, FilesOwned
  <2>3. \/ gui' = "getsockname" /\ UNCHANGED <<fd, file>>
        \/ gui' = "open6" /\ file' = [file EXCEPT ![fd] = "free"]
    BY <1>2, <2>2 DEF Bind4, Close
  <2>4. FilesOwned'
    BY <2>1, <2>2, <2>3, FdIsNat DEF FilesOwned, MySocket, InService, KernelType
  <2>5. MembersAgree'
    BY <2>1, <2>2 DEF MembersAgree
  <2>6. ThreadLives'
    BY <2>1, <2>2 DEF ThreadLives
  <2> QED
    BY <2>4, <2>5, <2>6
<1>3. CASE Bind6 \/ GetSockName
  <2>1. /\ gui \in {"bind6", "getsockname"}
        /\ gui' \in {"getsockname", "listen", "cleanup"}
        /\ UNCHANGED <<server_fd, is_listening, stop_flag, fd, return_to, acc,
                       client_fd, file, foreign>>
        /\ gui' = "listen" => port' \in Ports
        /\ gui' # "listen" => UNCHANGED port
    BY <1>3 DEF Bind6, GetSockName
  <2>2. acc = "none" /\ server_fd = -1 /\ fd \in Fd
    BY <2>1 DEF OneAcceptor, MembersAgree, FilesOwned
  <2>3. FilesOwned'
    BY <2>1, <2>2 DEF FilesOwned, MySocket, InService
  <2>4. MembersAgree'
    BY <2>1, <2>2 DEF MembersAgree
  <2>5. ThreadLives'
    BY <2>1, <2>2 DEF ThreadLives
  <2> QED
    BY <2>3, <2>4, <2>5
<1>4. CASE Listen
  <2>1. /\ gui = "listen" /\ UNCHANGED <<port, use_ipv6, fd, acc, client_fd, file, foreign>>
        /\ \/ /\ gui' = "spawn" /\ listener' = "listening" /\ server_fd' = fd
              /\ is_listening' = TRUE /\ stop_flag' = FALSE
           \/ gui' = "cleanup" /\ UNCHANGED <<server_fd, is_listening, stop_flag>>
    BY <1>4 DEF Listen
  <2>2. acc = "none" /\ server_fd = -1 /\ fd \in Fd /\ fd # -1
    BY <2>1, FdIsNat DEF OneAcceptor, MembersAgree, FilesOwned
  <2>3. FilesOwned'
    BY <2>1, <2>2 DEF FilesOwned, MySocket, InService
  <2>4. MembersAgree'
    BY <2>1, <2>2 DEF MembersAgree
  <2>5. ThreadLives'
    BY <2>1, <2>2 DEF ThreadLives
  <2> QED
    BY <2>3, <2>4, <2>5
<1>5. CASE Spawn
  <2>1. /\ gui = "spawn" /\ gui' = "idle" /\ acc' = "top"
        /\ UNCHANGED <<memberVars, stop_flag, fd, client_fd, file, listener, foreign>>
    BY <1>5 DEF Spawn, SpawnSucceeds
  <2>2. acc = "none" /\ server_fd = fd /\ fd \in Fd /\ fd # -1
    BY <2>1, FdIsNat DEF OneAcceptor, MembersAgree, FilesOwned
  <2>3. FilesOwned'
    BY <2>1, <2>2 DEF FilesOwned, MySocket, InService
  <2>4. MembersAgree'
    BY <2>1, <2>2 DEF MembersAgree
  <2>5. ThreadLives'
    BY <2>1, <2>2 DEF ThreadLives
  <2> QED
    BY <2>3, <2>4, <2>5
<1>6. CASE Cleanup
  <2>1. /\ gui = "cleanup" /\ gui' = "stop"
        /\ UNCHANGED <<memberVars, stop_flag, fd, acc, client_fd, foreign>>
    BY <1>6 DEF Cleanup
  <2>2. server_fd = -1 /\ acc = "none"
    BY <2>1 DEF MembersAgree, ThreadLives
  <2>3. file' = [g \in Fd |-> IF g = fd THEN "free" ELSE file[g]]
    BY <1>6 DEF Cleanup, Close, KernelType
  <2>4. FilesOwned'
    BY <2>1, <2>2, <2>3, FdIsNat DEF FilesOwned, MySocket, InService
  <2>5. MembersAgree'
    BY <2>1, <2>2 DEF MembersAgree
  <2>6. ThreadLives'
    BY <2>1, <2>2 DEF ThreadLives
  <2> QED
    BY <2>4, <2>5, <2>6
<1> QED
  BY <1>1, <1>2, <1>3, <1>4, <1>5, <1>6 DEF StartStep

LEMMA StopStepKeepsSockets ==
    ASSUME AnswerInv, SocketInv, StopStep \/ Construct \/ Destroy
    PROVE  SocketInv'
<1> USE DEF AnswerInv, TypeOK, SocketInv, memberVars, guiVars, accVars,
            kernelVars, clientVars
<1>1. CASE Construct \/ Destroy
  <2>1. /\ gui \in {"unborn", "idle"} /\ gui' = "stop"
        /\ gui = "unborn" => return_to' = "open4"
        /\ gui = "idle" => return_to' = "dead"
        /\ UNCHANGED <<memberVars, stop_flag, acc, client_fd, file, listener, foreign>>
    BY <1>1 DEF Construct, Destroy
  <2>2. gui = "unborn" => server_fd = -1 /\ acc = "none"
    BY <2>1 DEF MembersAgree, ThreadLives
  <2>3. FilesOwned'
    BY <2>1, <2>2 DEF FilesOwned, MySocket, InService
  <2>4. MembersAgree'
    BY <2>1, <2>2 DEF MembersAgree
  <2>5. ThreadLives'
    BY <2>1, <2>2 DEF ThreadLives
  <2> QED
    BY <2>3, <2>4, <2>5
<1>2. CASE StopFlag
  <2>1. /\ gui = "stop" /\ stop_flag' = TRUE
        /\ gui' = IF server_fd >= 0 THEN "shutdown" ELSE "reset"
        /\ UNCHANGED <<memberVars, return_to, fd, acc, client_fd, file, listener, foreign>>
    BY <1>2 DEF StopFlag
  <2>2. server_fd >= 0 <=> server_fd # -1
    BY FdIsNat DEF MemberType
  <2>3. FilesOwned'
    BY <2>1, <2>2 DEF FilesOwned, MySocket, InService
  <2>4. MembersAgree'
    BY <2>1, <2>2 DEF MembersAgree
  <2>5. ThreadLives'
    BY <2>1, <2>2 DEF ThreadLives
  <2> QED
    BY <2>3, <2>4, <2>5
<1>3. CASE StopShutdown
  <2>1. /\ gui = "shutdown" /\ gui' = "close"
        /\ UNCHANGED <<memberVars, stop_flag, return_to, fd, acc, client_fd, file, foreign>>
    BY <1>3 DEF StopShutdown
  <2>2. FilesOwned'
    BY <2>1 DEF FilesOwned, MySocket, InService
  <2>3. MembersAgree'
    BY <2>1 DEF MembersAgree
  <2>4. ThreadLives'
    BY <2>1 DEF ThreadLives
  <2> QED
    BY <2>2, <2>3, <2>4
<1>4. CASE StopClose
  <2>1. /\ gui = "close" /\ gui' = "reset"
        /\ UNCHANGED <<memberVars, stop_flag, return_to, fd, acc, client_fd, foreign>>
    BY <1>4 DEF StopClose
  <2>2. file' = [g \in Fd |-> IF g = server_fd THEN "free" ELSE file[g]]
    BY <1>4 DEF StopClose, Close, KernelType
  <2>3. FilesOwned'
    BY <2>1, <2>2, FdIsNat DEF FilesOwned, MySocket, InService
  <2>4. MembersAgree'
    BY <2>1 DEF MembersAgree
  <2>5. ThreadLives'
    BY <2>1 DEF ThreadLives
  <2> QED
    BY <2>3, <2>4, <2>5
<1>5. CASE StopReset
  <2>1. /\ gui = "reset" /\ gui' = "join" /\ server_fd' = -1
        /\ is_listening' = FALSE /\ port' = 0
        /\ UNCHANGED <<use_ipv6, stop_flag, return_to, fd, acc, client_fd, file, foreign>>
    BY <1>5 DEF StopReset
  <2>2. FilesOwned'
    BY <2>1 DEF FilesOwned, MySocket, InService
  <2>3. MembersAgree'
    BY <2>1 DEF MembersAgree
  <2>4. ThreadLives'
    BY <2>1 DEF ThreadLives, MembersAgree
  <2> QED
    BY <2>2, <2>3, <2>4
<1>6. CASE StopJoin
  <2>1. /\ gui = "join" /\ acc \in {"none", "exited"} /\ acc' = "none"
        /\ stop_flag' = FALSE /\ use_ipv6' = FALSE /\ gui' = return_to
        /\ UNCHANGED <<server_fd, is_listening, port, fd, client_fd, file, foreign>>
    BY <1>6 DEF StopJoin
  <2>2. gui' \in {"open4", "idle", "dead"} /\ server_fd = -1 /\ port = 0
    BY <2>1 DEF GuiType, MembersAgree
  <2>3. FilesOwned'
    BY <2>1, <2>2 DEF FilesOwned, MySocket, InService
  <2>4. MembersAgree'
    BY <2>1, <2>2 DEF MembersAgree
  <2>5. ThreadLives'
    BY <2>1, <2>2 DEF ThreadLives
  <2> QED
    BY <2>3, <2>4, <2>5
<1> QED
  BY <1>1, <1>2, <1>3, <1>4, <1>5, <1>6 DEF StopStep

LEMMA SetHtmlCodeKeepsSockets ==
    ASSUME AnswerInv, SocketInv,
           SetHtmlCodeReturn \/ \E page \in Pages : SetHtmlCode(page)
    PROVE  SocketInv'
<1>1. /\ gui \in {"idle", "assign"} /\ gui' \in {"idle", "assign"}
      /\ UNCHANGED <<memberVars, stop_flag, fd, acc, client_fd, file, listener, foreign>>
  BY DEF SetHtmlCode, SetHtmlCodeReturn, guiVars, accVars, kernelVars
<1>2. FilesOwned'
  BY <1>1 DEF SocketInv, FilesOwned, MySocket, InService, memberVars
<1>3. MembersAgree'
  BY <1>1 DEF SocketInv, MembersAgree, memberVars
<1>4. ThreadLives'
  BY <1>1 DEF SocketInv, ThreadLives, memberVars
<1> QED
  BY <1>2, <1>3, <1>4 DEF SocketInv

LEMMA AcceptorStepKeepsSockets ==
    ASSUME AnswerInv, SocketInv, AcceptorStep PROVE SocketInv'
<1> USE DEF AnswerInv, TypeOK, SocketInv
<1>1. /\ UNCHANGED <<memberVars, stop_flag, gui, return_to, fd, listener, foreign>>
      /\ acc \notin {"none", "exited"} /\ acc' # "none"
      /\ acc' = "exited" => stop_flag
  BY DEF AcceptorStep, LoopTop, LoadServerFd, EnterAccept, Accept, AcceptFails,
     ReadRequest, LockHtml, CopyHtml, SendHttpResponse, CloseClient, guiVars, kernelVars
<1>2. MembersAgree'
  BY <1>1 DEF MembersAgree, memberVars
<1>3. ThreadLives'
  BY <1>1 DEF ThreadLives, MembersAgree, memberVars
<1>4. UNCHANGED MySocket
  BY <1>1 DEF MySocket, memberVars
<1>5. CASE LoopTop \/ LoadServerFd \/ EnterAccept \/ AcceptFails
  <2>1. UNCHANGED <<file, client_fd>> /\ ~InService /\ ~InService'
    BY <1>5 DEF LoopTop, LoadServerFd, EnterAccept, AcceptFails, InService, accVars,
       kernelVars
  <2> QED
    BY <1>1, <1>2, <1>3, <1>4, <2>1 DEF FilesOwned
<1>6. CASE ReadRequest \/ LockHtml \/ CopyHtml \/ SendHttpResponse
  <2>1. UNCHANGED <<file, client_fd>> /\ InService /\ InService'
    BY <1>6 DEF ReadRequest, LockHtml, CopyHtml, SendHttpResponse, InService, accVars,
       kernelVars
  <2> QED
    BY <1>1, <1>2, <1>3, <1>4, <2>1 DEF FilesOwned
<1>7. CASE Accept
  <2>1. /\ ~InService /\ InService' /\ FreeFds # {} /\ client_fd' = NewFd
        /\ file' = [file EXCEPT ![NewFd] = "client"]
    BY <1>7 DEF Accept, InService
  <2>2. FilesOwned'
    BY <1>1, <1>4, <2>1, NewFdIsFree DEF FilesOwned, KernelType
  <2> QED
    BY <1>2, <1>3, <2>2
<1>8. CASE CloseClient
  <2>1. /\ InService /\ ~InService' /\ file' = [file EXCEPT ![client_fd] = "free"]
    BY <1>8 DEF CloseClient, InService
  <2>2. client_fd \in Fd /\ file[client_fd] = "client"
    BY <2>1 DEF FilesOwned
  <2>3. FilesOwned'
    BY <1>1, <1>4, <2>1, <2>2 DEF FilesOwned, KernelType
  <2> QED
    BY <1>2, <1>3, <2>3
<1> QED
  BY <1>5, <1>6, <1>7, <1>8 DEF AcceptorStep

LEMMA EnvironmentKeepsSockets ==
    ASSUME AnswerInv, SocketInv,
           \/ \E c \in Clients : ClientStep(c)
           \/ ForeignOpen \/ \E f \in foreign : ForeignClose(f)
    PROVE  SocketInv'
<1> USE DEF AnswerInv, TypeOK, SocketInv
<1>1. UNCHANGED <<memberVars, stop_flag, gui, return_to, fd, acc, client_fd>>
  BY DEF ClientStep, Connect, HangUp, Send, ForeignOpen, ForeignClose, guiVars, accVars
<1>2. UNCHANGED <<MySocket, InService>>
  BY <1>1 DEF MySocket, InService, memberVars
<1>3. ThreadLives'
  BY <1>1 DEF ThreadLives, memberVars
<1>4. CASE \E c \in Clients : ClientStep(c)
  <2>1. UNCHANGED <<file, listener, foreign>>
    BY <1>4 DEF ClientStep, Connect, HangUp, Send, kernelVars
  <2> QED
    BY <1>1, <1>2, <1>3, <2>1 DEF FilesOwned, MembersAgree, memberVars
<1>5. CASE ForeignOpen
  <2>1. /\ FreeFds # {} /\ foreign' = foreign \cup {NewFd} /\ UNCHANGED listener
        /\ file' = [file EXCEPT ![NewFd] = "foreign"]
    BY <1>5 DEF ForeignOpen
  <2>2. FilesOwned'
    BY <1>1, <1>2, <2>1, NewFdIsFree DEF FilesOwned, KernelType
  <2> QED
    BY <1>1, <1>3, <2>1, <2>2 DEF MembersAgree, memberVars
<1>6. ASSUME NEW f \in foreign, ForeignClose(f) PROVE SocketInv'
  <2>1. f \in Fd /\ file[f] = "foreign" /\ foreign' = foreign \ {f}
    BY <1>6 DEF ForeignClose, FilesOwned, KernelType
  <2>2. file' = [g \in Fd |-> IF g = f THEN "free" ELSE file[g]] /\ UNCHANGED listener
    BY <1>6, <2>1 DEF ForeignClose, Close
  <2>3. FilesOwned'
    BY <1>1, <1>2, <2>1, <2>2 DEF FilesOwned
  <2> QED
    BY <1>1, <1>3, <2>2, <2>3 DEF MembersAgree, memberVars
<1> QED
  BY <1>4, <1>5, <1>6

-----------------------------------------------------------------------------

LEMMA InitSockets == Init => SocketInv
<1> SUFFICES ASSUME Init PROVE SocketInv
  OBVIOUS
<1>1. FilesOwned
  BY FdIsNat DEF Init, FilesOwned, MySocket, InService
<1>2. MembersAgree /\ ThreadLives
  BY DEF Init, MembersAgree, ThreadLives
<1> QED
  BY <1>1, <1>2 DEF SocketInv

LEMMA NextKeepsSockets ==
    SpawnSucceeds => (AnswerInv /\ SocketInv /\ [Next]_vars => SocketInv')
<1> SUFFICES ASSUME SpawnSucceeds, AnswerInv, SocketInv, [Next]_vars
             PROVE  SocketInv'
  OBVIOUS
<1>1. CASE Terminated \/ UNCHANGED vars
  BY <1>1 DEF Terminated, vars, SocketInv, FilesOwned, MembersAgree, ThreadLives,
     MySocket, InService, memberVars, guiVars, accVars, kernelVars
<1> QED
  BY <1>1, StartStepKeepsSockets, StopStepKeepsSockets, SetHtmlCodeKeepsSockets,
     AcceptorStepKeepsSockets, EnvironmentKeepsSockets DEF Next

\* Every open descriptor, thread, lock and connection has the owner that will
\* release it, at every step of both threads.
THEOREM EverythingIsOwned == SpawnSucceeds => (Spec => []IInv)
<1> SUFFICES ASSUME SpawnSucceeds PROVE Spec => []IInv
  OBVIOUS
<1>1. Init => IInv
  BY InitAnswers, InitSockets DEF IInv
<1>2. IInv /\ [Next]_vars => IInv'
  BY NextKeepsAnswers, NextKeepsSockets DEF IInv
<1> QED
  BY <1>1, <1>2, PTL DEF Spec

\* After the destructor, or a Start that failed, no socket is left open and the
\* acceptor thread is gone.
THEOREM StopLeavesNothing == SpawnSucceeds => (Spec => []StoppedIsClean)
<1>1. IInv => StoppedIsClean
  <2> SUFFICES ASSUME IInv, gui = "dead" \/ (gui = "idle" /\ ~is_listening)
               PROVE  /\ server_fd = -1 /\ port = 0 /\ ~use_ipv6 /\ ~stop_flag
                      /\ acc = "none"
                      /\ \A f \in Fd : file[f] \notin {"server", "client"}
    BY DEF StoppedIsClean
  <2> USE DEF IInv, SocketInv
  <2>1. server_fd = -1 /\ port = 0 /\ ~use_ipv6 /\ ~stop_flag
    BY DEF MembersAgree
  <2>2. acc = "none"
    BY <2>1 DEF ThreadLives
  <2>3. MySocket = -1 /\ ~InService
    BY <2>1, <2>2 DEF MySocket, InService
  <2> QED
    BY <2>1, <2>2, <2>3, FdIsNat DEF FilesOwned
<1> QED
  BY <1>1, EverythingIsOwned, PTL

\* A server that says it is listening has its socket and its acceptor.
THEOREM ListeningServerServes == SpawnSucceeds => (Spec => []ListeningMeansServing)
<1>1. IInv => ListeningMeansServing
  <2> SUFFICES ASSUME IInv, gui \in {"idle", "assign"}, is_listening
               PROVE  /\ port \in Ports /\ acc \notin {"none", "exited"}
                      /\ listener = "listening" /\ server_fd \in Fd
                      /\ file[server_fd] = "server"
    BY DEF ListeningMeansServing
  <2> USE DEF IInv, SocketInv
  <2>1. server_fd # -1 /\ port \in Ports /\ listener = "listening"
    BY DEF MembersAgree
  <2>2. acc \notin {"none", "exited"}
    BY <2>1 DEF ThreadLives
  <2>3. server_fd \in Fd /\ MySocket = server_fd
    BY <2>1 DEF AnswerInv, TypeOK, MemberType, MySocket
  <2> QED
    BY <2>1, <2>2, <2>3 DEF FilesOwned
<1> QED
  BY <1>1, EverythingIsOwned, PTL

\* The server never closes a file of the rest of the process.
THEOREM ForeignFilesStayOpen == SpawnSucceeds => (Spec => []ForeignFilesIntact)
<1>1. IInv => ForeignFilesIntact
  BY DEF IInv, AnswerInv, TypeOK, KernelType, SocketInv, FilesOwned, ForeignFilesIntact
<1> QED
  BY <1>1, EverythingIsOwned, PTL

=============================================================================
