----------------------------- MODULE HttpServer -----------------------------
(***************************************************************************)
(* LocalHttpServer (local_http_server.cpp): the GUI thread constructs,     *)
(* feeds and destroys the server, the TCP acceptor thread answers one      *)
(* connection after the other.  The kernel's descriptor table is shared    *)
(* with the rest of the process, which opens and closes files of its own.  *)
(* A request is one segment (a GET over loopback), read by one read().     *)
(***************************************************************************)
EXTENDS Integers, Sequences, FiniteSets, HttpResponse

CONSTANTS
    Clients,        \* the connections the view portal makes
    Ports,          \* the port numbers bind() may choose
    MaxFd,          \* descriptors are 0 .. MaxFd
    Backlog,        \* connections that may wait to be accepted
    MaxForeign,     \* files the rest of the process holds open at once
    SpawnMayFail    \* whether std::jthread's constructor may throw

ASSUME HttpServerAssumption ==
    /\ Ports \subseteq Nat \ {0} /\ Ports # {}
    /\ MaxFd \in Nat /\ Backlog \in Nat /\ MaxForeign \in Nat
    /\ SpawnMayFail \in BOOLEAN

VARIABLES
    \* members of LocalHttpServer; m is the mutex and names its holder
    server_fd, is_listening, use_ipv6, port, stop_flag, html_str, m,
    \* the GUI thread: where it is, where Stop returns to, Start's local fd,
    \* and SetHtmlCode's argument
    gui, return_to, fd, new_html,
    \* the acceptor thread: where it is and its locals
    acc, acc_fd, client_fd, client, response,
    \* the kernel: descriptors, the listening socket, its queue, the
    \* descriptors the rest of the process believes it owns
    file, listener, queue, foreign,
    \* the clients: connections, what they sent, what was written to them
    conn, request, reply

memberVars == <<server_fd, is_listening, use_ipv6, port>>
guiVars    == <<return_to, fd, new_html>>
accVars    == <<acc_fd, client_fd, client, response>>
kernelVars == <<file, listener, queue>>
clientVars == <<conn, request, reply>>
vars == <<memberVars, stop_flag, html_str, m, gui, guiVars, acc, accVars,
          kernelVars, foreign, clientVars>>

Fd == 0 .. MaxFd
FreeFds == {f \in Fd : file[f] = "free"}
\* POSIX: the lowest free descriptor
NewFd == CHOOSE f \in FreeFds : \A g \in FreeFds : f <= g

\* The connections the kernel resets when it drops the listening socket
Queued(c) == \E i \in DOMAIN queue : queue[i] = c
ResetQueued == [c \in Clients |-> IF Queued(c) THEN "done" ELSE conn[c]]

\* close(f), whatever f now is.  The listening socket loses its queue; an
\* accept() already inside it still sees that it was shut down, if it was.
Close(f) ==
    IF f \in Fd /\ file[f] = "server"
    THEN /\ file' = [file EXCEPT ![f] = "free"]
         /\ listener' = IF listener = "shut" THEN "shut" ELSE "none"
         /\ queue' = <<>> /\ conn' = ResetQueued
    ELSE /\ file' = [g \in Fd |-> IF g = f THEN "free" ELSE file[g]]
         /\ UNCHANGED <<listener, queue, conn>>

-----------------------------------------------------------------------------
(* The GUI thread: construction, Start and Stop.                           *)

Construct ==
    /\ gui = "unborn"
    /\ gui' = "stop" /\ return_to' = "open4"
    /\ UNCHANGED <<memberVars, stop_flag, html_str, m, fd, new_html, acc,
                   accVars, kernelVars, foreign, clientVars>>

\* socket(): the next step is bind, or on failure "otherwise"
OpenSocket(here, next, otherwise) ==
    /\ gui = here
    /\ \/ /\ FreeFds # {}
          /\ fd' = NewFd /\ gui' = next
          /\ file' = [file EXCEPT ![NewFd] = "server"]
          /\ listener' = "bound"
       \/ /\ fd' = -1 /\ gui' = otherwise
          /\ UNCHANGED <<file, listener>>
    /\ UNCHANGED <<memberVars, stop_flag, html_str, m, return_to, new_html,
                   acc, accVars, queue, foreign, clientVars>>

Open4 == OpenSocket("open4", "bind4", "open6")
Open6 == OpenSocket("open6", "bind6", "cleanup")

\* A bind() that fails leaves the IPv4 socket open.
Bind4_Leaks ==
    /\ gui = "bind4"
    /\ \/ gui' = "getsockname" /\ UNCHANGED fd
       \/ gui' = "open6" /\ fd' = -1
    /\ UNCHANGED <<memberVars, stop_flag, html_str, m, return_to, new_html,
                   acc, accVars, kernelVars, foreign, clientVars>>

Bind4 ==
    /\ gui = "bind4"
    /\ \/ gui' = "getsockname" /\ UNCHANGED <<fd, kernelVars, conn>>
       \/ Close(fd) /\ fd' = -1 /\ gui' = "open6"
    /\ UNCHANGED <<memberVars, stop_flag, html_str, m, return_to, new_html,
                   acc, accVars, foreign, request, reply>>

Bind6 ==
    /\ gui = "bind6"
    /\ \/ gui' = "getsockname" /\ use_ipv6' = TRUE
       \/ gui' = "cleanup" /\ UNCHANGED use_ipv6
    /\ UNCHANGED <<server_fd, is_listening, port, stop_flag, html_str, m,
                   guiVars, acc, accVars, kernelVars, foreign, clientVars>>

\* The result of getsockname() is ignored.
GetSockName_Unchecked ==
    /\ gui = "getsockname"
    /\ gui' = "listen" /\ port' \in Ports \cup {0}
    /\ UNCHANGED <<server_fd, is_listening, use_ipv6, stop_flag, html_str, m,
                   guiVars, acc, accVars, kernelVars, foreign, clientVars>>

GetSockName ==
    /\ gui = "getsockname"
    /\ \/ gui' = "listen" /\ port' \in Ports
       \/ gui' = "cleanup" /\ UNCHANGED port
    /\ UNCHANGED <<server_fd, is_listening, use_ipv6, stop_flag, html_str, m,
                   guiVars, acc, accVars, kernelVars, foreign, clientVars>>

Listen ==
    /\ gui = "listen"
    /\ \/ /\ gui' = "spawn" /\ listener' = "listening"
          /\ server_fd' = fd /\ is_listening' = TRUE /\ stop_flag' = FALSE
       \/ gui' = "cleanup" /\ UNCHANGED <<listener, server_fd, is_listening, stop_flag>>
    /\ UNCHANGED <<use_ipv6, port, html_str, m, guiVars, acc, accVars, file,
                   queue, foreign, clientVars>>

Spawn ==
    /\ gui = "spawn"
    /\ \/ gui' = "idle" /\ acc' = "top"
       \/ SpawnMayFail /\ gui' = "cleanup" /\ UNCHANGED acc
    /\ UNCHANGED <<memberVars, stop_flag, html_str, m, guiVars, accVars,
                   kernelVars, foreign, clientVars>>

\* The scope guard forgets to close the socket.
Cleanup_Leaks ==
    /\ gui = "cleanup"
    /\ gui' = "stop" /\ return_to' = "idle"
    /\ UNCHANGED <<memberVars, stop_flag, html_str, m, fd, new_html, acc,
                   accVars, kernelVars, foreign, clientVars>>

\* The scope guard of a Start that fails: the constructor ignores the result.
Cleanup ==
    /\ gui = "cleanup"
    /\ Close(fd)
    /\ gui' = "stop" /\ return_to' = "idle"
    /\ UNCHANGED <<memberVars, stop_flag, html_str, m, fd, new_html, acc,
                   accVars, foreign, request, reply>>

Destroy ==
    /\ gui = "idle"
    /\ gui' = "stop" /\ return_to' = "dead"
    /\ UNCHANGED <<memberVars, stop_flag, html_str, m, fd, new_html, acc,
                   accVars, kernelVars, foreign, clientVars>>

StopFlag ==
    /\ gui = "stop"
    /\ stop_flag' = TRUE
    /\ gui' = IF server_fd >= 0 THEN "shutdown" ELSE "reset"
    /\ UNCHANGED <<memberVars, html_str, m, guiVars, acc, accVars,
                   kernelVars, foreign, clientVars>>

StopShutdown ==
    /\ gui = "shutdown"
    /\ gui' = "close"
    /\ IF file[server_fd] = "server"
       THEN listener' = "shut" /\ queue' = <<>> /\ conn' = ResetQueued
       ELSE UNCHANGED <<listener, queue, conn>>
    /\ UNCHANGED <<memberVars, stop_flag, html_str, m, guiVars, acc, accVars,
                   file, foreign, request, reply>>

StopClose ==
    /\ gui = "close"
    /\ Close(server_fd)
    /\ gui' = "reset"
    /\ UNCHANGED <<memberVars, stop_flag, html_str, m, guiVars, acc, accVars,
                   foreign, request, reply>>

\* is_listening is not reset.
StopReset_Forgets ==
    /\ gui = "reset"
    /\ server_fd' = -1 /\ port' = 0
    /\ gui' = "join"
    /\ UNCHANGED <<is_listening, use_ipv6, stop_flag, html_str, m, guiVars, acc,
                   accVars, kernelVars, foreign, clientVars>>

StopReset ==
    /\ gui = "reset"
    /\ server_fd' = -1 /\ is_listening' = FALSE /\ port' = 0
    /\ gui' = "join"
    /\ UNCHANGED <<use_ipv6, stop_flag, html_str, m, guiVars, acc, accVars,
                   kernelVars, foreign, clientVars>>

\* t.join() if there is a thread, then the remaining members
StopJoin ==
    /\ gui = "join"
    /\ acc \in {"none", "exited"}
    /\ acc' = "none"
    /\ stop_flag' = FALSE /\ use_ipv6' = FALSE
    /\ gui' = return_to
    /\ UNCHANGED <<server_fd, is_listening, port, html_str, m, guiVars,
                   accVars, kernelVars, foreign, clientVars>>

\* SetHtmlCode holds the mutex while the string is assigned; until the
\* assignment is complete its contents are "torn".
SetHtmlCode(page) ==
    /\ gui = "idle" /\ m = "free"
    /\ m' = "gui" /\ new_html' = page /\ html_str' = "torn"
    /\ gui' = "assign"
    /\ UNCHANGED <<memberVars, stop_flag, return_to, fd, acc, accVars,
                   kernelVars, foreign, clientVars>>

SetHtmlCodeReturn ==
    /\ gui = "assign"
    /\ html_str' = new_html /\ m' = "free"
    /\ gui' = "idle"
    /\ UNCHANGED <<memberVars, stop_flag, guiVars, acc, accVars, kernelVars,
                   foreign, clientVars>>

-----------------------------------------------------------------------------
(* The acceptor thread: ThreadEntryPoint.                                  *)

\* The loop never looks at stop_flag.
LoopTop_Forever ==
    /\ acc = "top"
    /\ acc' = "load"
    /\ UNCHANGED <<memberVars, stop_flag, html_str, m, gui, guiVars, accVars,
                   kernelVars, foreign, clientVars>>

LoopTop ==
    /\ acc = "top"
    /\ acc' = IF stop_flag THEN "exited" ELSE "load"
    /\ UNCHANGED <<memberVars, stop_flag, html_str, m, gui, guiVars, accVars,
                   kernelVars, foreign, clientVars>>

\* server_fd is read without a lock: it is a plain int the GUI thread resets
LoadServerFd ==
    /\ acc = "load"
    /\ acc_fd' = server_fd /\ acc' = "accept"
    /\ UNCHANGED <<memberVars, stop_flag, html_str, m, gui, guiVars,
                   client_fd, client, response, kernelVars, foreign, clientVars>>

\* accept(): a descriptor that is closed, or is now some other file, fails
EnterAccept ==
    /\ acc = "accept"
    /\ acc' = IF acc_fd \in Fd /\ file[acc_fd] = "server" THEN "blocked" ELSE "top"
    /\ UNCHANGED <<memberVars, stop_flag, html_str, m, gui, guiVars, accVars,
                   kernelVars, foreign, clientVars>>

Accept ==
    /\ acc = "blocked"
    /\ listener = "listening" /\ queue # <<>> /\ FreeFds # {}
    /\ client' = {Head(queue)} /\ queue' = Tail(queue)
    /\ client_fd' = NewFd /\ file' = [file EXCEPT ![NewFd] = "client"]
    /\ acc' = "read"
    /\ UNCHANGED <<memberVars, stop_flag, html_str, m, gui, guiVars, acc_fd,
                   response, listener, foreign, clientVars>>

\* accept() returns -1: the socket was shut down, or no descriptor is free
AcceptFails ==
    /\ acc = "blocked"
    /\ listener = "shut" \/ FreeFds = {}
    /\ acc' = "top"
    /\ UNCHANGED <<memberVars, stop_flag, html_str, m, gui, guiVars, accVars,
                   kernelVars, foreign, clientVars>>

\* The current page is answered without taking the mutex.
ReadRequest_Unlocked ==
    /\ acc = "read"
    /\ \E c \in client :
          \/ /\ request[c] # "none" /\ acc' = "send"
             /\ response' = {Response(request[c], html_str)}
          \/ /\ request[c] = "none" /\ conn[c] # "open"
             /\ acc' = "hangup" /\ UNCHANGED response
    /\ UNCHANGED <<memberVars, stop_flag, html_str, m, gui, guiVars, acc_fd,
                   client_fd, client, kernelVars, foreign, clientVars>>

\* A client that hangs up without a request ends the acceptor's loop.
ReadRequest_Exits ==
    /\ acc = "read"
    /\ \E c \in client :
          \/ /\ request[c] = "html"
             /\ acc' = "lock" /\ UNCHANGED response
          \/ /\ request[c] \in Targets \ {"html"}
             /\ response' = {Response(request[c], "empty")}
             /\ acc' = "send"
          \/ /\ request[c] = "none" /\ conn[c] # "open"
             /\ acc' = "exited" /\ UNCHANGED response
    /\ UNCHANGED <<memberVars, stop_flag, html_str, m, gui, guiVars, acc_fd,
                   client_fd, client, kernelVars, foreign, clientVars>>

\* read() blocks until the client has sent something or hung up
ReadRequest ==
    /\ acc = "read"
    /\ \E c \in client :
          \/ /\ request[c] = "html"
             /\ acc' = "lock" /\ UNCHANGED response
          \/ /\ request[c] \in Targets \ {"html"}
             /\ response' = {Response(request[c], "empty")}
             /\ acc' = "send"
          \/ /\ request[c] = "none" /\ conn[c] # "open"
             /\ acc' = "hangup" /\ UNCHANGED response
    /\ UNCHANGED <<memberVars, stop_flag, html_str, m, gui, guiVars, acc_fd,
                   client_fd, client, kernelVars, foreign, clientVars>>

\* The acceptor does not wait for SetHtmlCode to release the mutex.
LockHtml_Ignored ==
    /\ acc = "lock"
    /\ m' = "acceptor" /\ acc' = "copy"
    /\ UNCHANGED <<memberVars, stop_flag, html_str, gui, guiVars, accVars,
                   kernelVars, foreign, clientVars>>

LockHtml ==
    /\ acc = "lock" /\ m = "free"
    /\ m' = "acceptor" /\ acc' = "copy"
    /\ UNCHANGED <<memberVars, stop_flag, html_str, gui, guiVars, accVars,
                   kernelVars, foreign, clientVars>>

\* The extension of the current page is not set to "html".
CopyHtml_AsText ==
    /\ acc = "copy"
    /\ response' = {[type |-> "text/plain", body |-> html_str]}
    /\ m' = "free" /\ acc' = "send"
    /\ UNCHANGED <<memberVars, stop_flag, html_str, gui, guiVars, acc_fd,
                   client_fd, client, kernelVars, foreign, clientVars>>

CopyHtml ==
    /\ acc = "copy"
    /\ response' = {Response("html", html_str)}
    /\ m' = "free" /\ acc' = "send"
    /\ UNCHANGED <<memberVars, stop_flag, html_str, gui, guiVars, acc_fd,
                   client_fd, client, kernelVars, foreign, clientVars>>

\* The connection is closed here and again at the end of the iteration.
SendHttpResponse_Closes ==
    /\ acc = "send"
    /\ reply' = [c \in Clients |-> IF c \in client THEN reply[c] \cup response
                                                   ELSE reply[c]]
    /\ file' = [file EXCEPT ![client_fd] = "free"]
    /\ response' = {} /\ acc' = "hangup"
    /\ UNCHANGED <<memberVars, stop_flag, html_str, m, gui, guiVars, acc_fd,
                   client_fd, client, listener, queue, foreign, conn, request>>

\* The result of write() is ignored: a client that has hung up loses the page
SendHttpResponse ==
    /\ acc = "send"
    /\ reply' = [c \in Clients |-> IF c \in client THEN reply[c] \cup response
                                                   ELSE reply[c]]
    /\ response' = {} /\ acc' = "hangup"
    /\ UNCHANGED <<memberVars, stop_flag, html_str, m, gui, guiVars, acc_fd,
                   client_fd, client, kernelVars, foreign, conn, request>>

\* Auto( sockClose(client_fd) ) at the end of every iteration
CloseClient ==
    /\ acc = "hangup"
    /\ file' = [file EXCEPT ![client_fd] = "free"]
    /\ conn' = [c \in Clients |-> IF c \in client THEN "done" ELSE conn[c]]
    /\ client' = {} /\ acc' = "top"
    /\ UNCHANGED <<memberVars, stop_flag, html_str, m, gui, guiVars, acc_fd,
                   client_fd, response, listener, queue, foreign, request, reply>>

-----------------------------------------------------------------------------
(* The environment: the view portal's connections and the other threads.   *)

Connect(c) ==
    /\ conn[c] = "idle"
    /\ listener = "listening" /\ Len(queue) < Backlog
    /\ conn' = [conn EXCEPT ![c] = "open"] /\ queue' = Append(queue, c)
    /\ UNCHANGED <<memberVars, stop_flag, html_str, m, gui, guiVars, acc,
                   accVars, file, listener, foreign, request, reply>>

Send(c, target) ==
    /\ conn[c] = "open" /\ request[c] = "none"
    /\ request' = [request EXCEPT ![c] = target]
    /\ UNCHANGED <<memberVars, stop_flag, html_str, m, gui, guiVars, acc,
                   accVars, kernelVars, foreign, conn, reply>>

\* The view portal cancels a load (ViewPortalManager::Set_Common, w->Stop)
HangUp(c) ==
    /\ conn[c] = "open"
    /\ conn' = [conn EXCEPT ![c] = "eof"]
    /\ UNCHANGED <<memberVars, stop_flag, html_str, m, gui, guiVars, acc,
                   accVars, kernelVars, foreign, request, reply>>

ForeignOpen ==
    /\ Cardinality(foreign) < MaxForeign /\ FreeFds # {}
    /\ foreign' = foreign \cup {NewFd}
    /\ file' = [file EXCEPT ![NewFd] = "foreign"]
    /\ UNCHANGED <<memberVars, stop_flag, html_str, m, gui, guiVars, acc,
                   accVars, listener, queue, clientVars>>

ForeignClose(f) ==
    /\ f \in foreign
    /\ foreign' = foreign \ {f}
    /\ Close(f)
    /\ UNCHANGED <<memberVars, stop_flag, html_str, m, gui, guiVars, acc,
                   accVars, request, reply>>

-----------------------------------------------------------------------------

Init ==
    /\ server_fd = -1 /\ is_listening = FALSE /\ use_ipv6 = FALSE /\ port = 0
    /\ stop_flag = FALSE /\ html_str = "empty" /\ m = "free"
    /\ gui = "unborn" /\ return_to = "dead" /\ fd = -1 /\ new_html = "empty"
    /\ acc = "none" /\ acc_fd = -1 /\ client_fd = -1 /\ client = {}
    /\ response = {}
    /\ file = [f \in Fd |-> "free"] /\ listener = "none" /\ queue = <<>>
    /\ foreign = {}
    /\ conn = [c \in Clients |-> "idle"]
    /\ request = [c \in Clients |-> "none"]
    /\ reply = [c \in Clients |-> {}]

StopStep == StopFlag \/ StopShutdown \/ StopClose \/ StopReset \/ StopJoin

StartStep ==
    \/ Open4 \/ Bind4 \/ Open6 \/ Bind6 \/ GetSockName \/ Listen \/ Spawn
    \/ Cleanup

AcceptorStep ==
    \/ LoopTop \/ LoadServerFd \/ EnterAccept \/ Accept \/ AcceptFails
    \/ ReadRequest \/ LockHtml \/ CopyHtml \/ SendHttpResponse \/ CloseClient

ClientStep(c) == Connect(c) \/ HangUp(c) \/ \E t \in Targets : Send(c, t)

\* The process exits some time after the destructor: nothing more to do.
Terminated == gui = "dead" /\ UNCHANGED vars

Next ==
    \/ Construct \/ StartStep \/ Destroy \/ StopStep
    \/ \E page \in Pages : SetHtmlCode(page)
    \/ SetHtmlCodeReturn
    \/ AcceptorStep
    \/ \E c \in Clients : ClientStep(c)
    \/ ForeignOpen
    \/ \E f \in foreign : ForeignClose(f)
    \/ Terminated

Spec == Init /\ [][Next]_vars

(***************************************************************************)
(* Fairness.  Both threads are scheduled.  The mutex is free again and     *)
(* again while the acceptor waits for it, and std::mutex wakes a waiter,   *)
(* so LockHtml is strongly fair.  Nothing obliges the GUI to call          *)
(* SetHtmlCode or to close the window.                                     *)
(***************************************************************************)
ThreadFairness ==
    /\ WF_vars(StartStep \/ StopStep \/ SetHtmlCodeReturn)
    /\ WF_vars(AcceptorStep)
    /\ SF_vars(LockHtml)

\* A browser that connects soon sends its request or hangs up.  read() has no
\* timeout: one silent connection would hold up all the others.
ClientFairness ==
    \A c \in Clients : WF_vars(request[c] = "none"
                               /\ (HangUp(c) \/ \E t \in Targets : Send(c, t)))

FairSpec == Spec /\ ThreadFairness /\ ClientFairness

-----------------------------------------------------------------------------
(* Properties.                                                             *)

GuiSteps == {"unborn", "open4", "bind4", "open6", "bind6", "getsockname",
             "listen", "spawn", "cleanup", "idle", "assign", "stop",
             "shutdown", "close", "reset", "join", "dead"}
AcceptorSteps == {"none", "top", "load", "accept", "blocked", "read", "lock",
                  "copy", "send", "hangup", "exited"}
Responses == {Response(t, html) : t \in Targets, html \in Pages \cup {"empty", "torn"}}

MemberType ==
    /\ server_fd \in Fd \cup {-1} /\ is_listening \in BOOLEAN
    /\ use_ipv6 \in BOOLEAN /\ port \in Ports \cup {0}
SharedType ==
    /\ stop_flag \in BOOLEAN /\ m \in {"free", "gui", "acceptor"}
    /\ html_str \in Pages \cup {"empty", "torn"}
GuiType ==
    /\ gui \in GuiSteps /\ return_to \in {"open4", "idle", "dead"}
    /\ fd \in Fd \cup {-1} /\ new_html \in Pages \cup {"empty"}
AcceptorType ==
    /\ acc \in AcceptorSteps /\ acc_fd \in Fd \cup {-1}
    /\ client_fd \in Fd \cup {-1} /\ client \in SUBSET Clients
    /\ response \in SUBSET Responses
KernelType ==
    /\ file \in [Fd -> {"free", "server", "client", "foreign"}]
    /\ listener \in {"none", "bound", "listening", "shut"}
    /\ queue \in Seq(Clients) /\ foreign \in SUBSET Fd
ClientType ==
    /\ conn \in [Clients -> {"idle", "open", "eof", "done"}]
    /\ request \in [Clients -> Targets \cup {"none"}]
    /\ reply \in [Clients -> SUBSET Responses]

\* Every variable keeps to the values its C++ type and its use allow.
TypeOK == /\ MemberType /\ SharedType /\ GuiType
          /\ AcceptorType /\ KernelType /\ ClientType

\* A connection is written to at most once, only after it has asked, and with
\* the answer to its own request: an archive file for its own target, or a
\* page that SetHtmlCode was given whole, never one half assigned while the
\* acceptor copied it.
EveryReplyAnswersItsRequest ==
    \A c \in Clients : \A r \in reply[c] :
        /\ request[c] # "none" /\ reply[c] = {r}
        /\ \E page \in Pages \cup {"empty"} : r = Response(request[c], page)

\* Once the destructor has returned, and after a Start that failed, the
\* members are reset, the acceptor thread has been joined and no socket of
\* the server, listening or accepted, is left open.
StoppedIsClean ==
    gui = "dead" \/ (gui = "idle" /\ ~is_listening) =>
        /\ server_fd = -1 /\ port = 0 /\ ~use_ipv6 /\ ~stop_flag /\ acc = "none"
        /\ \A f \in Fd : file[f] \notin {"server", "client"}

\* Whenever the GUI can look, a server that says IsListening() has a port, an
\* open listening socket behind server_fd and an acceptor thread in its loop.
ListeningMeansServing ==
    gui \in {"idle", "assign"} /\ is_listening =>
        /\ port \in Ports /\ acc \notin {"none", "exited"}
        /\ listener = "listening" /\ server_fd \in Fd /\ file[server_fd] = "server"

\* The server never closes a descriptor that the rest of the process has been
\* given in the meantime.
ForeignFilesIntact == \A f \in foreign : file[f] = "foreign"

\* The lock-free promise: every step is a step of PageService or none.
Service == INSTANCE PageService WITH
    html   <- IF gui = "assign" THEN new_html ELSE html_str,
    asked  <- request,
    answer <- [c \in Clients |-> IF c \in client THEN reply[c] \cup response
                                                  ELSE reply[c]]

ImplementsPageService == Service!Spec

\* Start, Stop and SetHtmlCode return: the destructor's join does not hang.
GuiCallsReturn ==
    gui \notin {"unborn", "idle", "dead"} ~> gui \in {"idle", "dead"}

\* A request that has been sent is answered, unless its client hangs up or the
\* server stops first.
RequestsAnswered ==
    \A c \in Clients : conn[c] = "open" /\ request[c] # "none" ~>
                           reply[c] # {} \/ conn[c] # "open"

=============================================================================
