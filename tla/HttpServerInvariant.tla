------------------------- MODULE HttpServerInvariant -------------------------
(***************************************************************************)
(* The inductive invariant of HttpServer, by topic.  What is answered      *)
(* rests on the mutex and on the connections alone (AnswerInv); what is    *)
(* open at every step of Start and Stop (SocketInv) is owned by someone    *)
(* only while a thread can be spawned.                                     *)
(***************************************************************************)
EXTENDS HttpServer

\* Whoever holds the mutex is inside its critical section, alone.
MutexHeld ==
    /\ m = "gui" <=> gui = "assign"
    /\ m = "acceptor" <=> acc = "copy"
    /\ html_str = "torn" <=> gui = "assign"
    /\ gui = "assign" => new_html \in Pages

\* The acceptor has a connection in its hands.
InService == acc \in {"read", "lock", "copy", "send", "hangup"}

\* The connection in service has asked for what is being answered.
ServedAgrees ==
    /\ InService => \E c \in Clients : client = {c}
    /\ ~InService => client = {}
    /\ acc = "send" => \E r \in response : response = {r}
    /\ acc # "send" => response = {}
    /\ \A c \in client :
          /\ conn[c] # "idle"
          /\ acc # "hangup" => reply[c] = {}
          /\ acc \in {"lock", "copy"} => request[c] = "html"
          /\ acc = "send" => request[c] # "none"
          /\ \A r \in response : \E page \in Pages \cup {"empty"} :
                r = Response(request[c], page)

\* A connection that has not been made is blank, and one that waits to be
\* accepted waits once and has no answer yet.
WaitingAgrees ==
    /\ \A c \in Clients : conn[c] = "idle" => request[c] = "none" /\ reply[c] = {}
    /\ \A i \in DOMAIN queue : /\ conn[queue[i]] # "idle" /\ reply[queue[i]] = {}
                               /\ queue[i] \notin client
    /\ \A i, j \in DOMAIN queue : queue[i] = queue[j] => i = j

\* Start never runs while an acceptor of an earlier Start is alive.
OneAcceptor ==
    gui \in {"open4", "bind4", "open6", "bind6", "getsockname", "listen", "spawn"}
        => acc = "none"

AnswerInv == /\ TypeOK /\ MutexHeld /\ OneAcceptor /\ ServedAgrees
             /\ WaitingAgrees /\ EveryReplyAnswersItsRequest

\* The descriptor of the server's own listening socket, -1 if it has none
MySocket ==
    IF gui \in {"bind4", "bind6", "getsockname", "listen", "spawn", "cleanup"}
    THEN fd
    ELSE IF gui \in {"idle", "assign", "stop", "shutdown", "close"}
         THEN server_fd ELSE -1

\* Every open descriptor has the owner that will close it.
FilesOwned ==
    /\ \A f \in Fd : /\ file[f] = "server" <=> f = MySocket
                     /\ file[f] = "client" <=> InService /\ f = client_fd
                     /\ file[f] = "foreign" <=> f \in foreign
    /\ InService => client_fd \in Fd
    /\ gui \in {"bind4", "bind6", "getsockname", "listen", "spawn"} => fd \in Fd

\* The members of the object at each step of Start and Stop
MembersAgree ==
    /\ is_listening <=> server_fd # -1
    /\ gui = "spawn" => server_fd = fd
    /\ gui \in {"shutdown", "close"} => server_fd # -1
    /\ server_fd # -1 =>
          /\ port \in Ports
          /\ \/ gui \in {"spawn", "idle", "assign"}
             \/ gui \in {"stop", "shutdown", "close", "reset"} /\ return_to = "dead"
          /\ gui \notin {"close", "reset"} => listener = "listening"
    /\ gui = "listen" => port \in Ports
    /\ port # 0 => gui \in {"listen", "cleanup", "stop", "reset"} \/ server_fd # -1
    /\ stop_flag <=> gui \in {"shutdown", "close", "reset", "join"}
    /\ use_ipv6 => \/ gui \in {"getsockname", "listen", "cleanup", "stop",
                                "shutdown", "close", "reset", "join"}
                   \/ server_fd # -1

\* The acceptor lives from Spawn to the join of the destructor.
ThreadLives ==
    /\ acc # "none" => \/ server_fd # -1 /\ gui # "spawn"
                       \/ gui = "join" /\ return_to = "dead"
    /\ server_fd # -1 /\ gui # "spawn" => acc # "none"
    /\ acc = "exited" => gui \in {"shutdown", "close", "reset", "join"}

SocketInv == FilesOwned /\ MembersAgree /\ ThreadLives

\* The two together: who owns each descriptor, thread, lock and connection at
\* every step, which is what the safety properties follow from.
IInv == AnswerInv /\ SocketInv

=============================================================================
